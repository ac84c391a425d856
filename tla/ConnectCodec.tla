----------------------------- MODULE ConnectCodec -----------------------------
(***************************************************************************)
(* How boxd reads a Connect request and writes its answer: the envelope,   *)
(* the protobuf wire format and the request and event messages of          *)
(* boxd/server/process.go.  A byte is a number, a body a sequence of them. *)
(* The base64 text a message holds bytes as is decoded where it is used,   *)
(* so it is left out.                                                      *)
(***************************************************************************)
EXTENDS Integers, Sequences, FiniteSets, SequencesExt, FiniteSetsExt

CONSTANTS
  Requests,   \* the requests callers send
  Events      \* the events the agent writes

VARIABLES stage, call, body, heard
codec == <<stage, call, body, heard>>

Space     == {9, 10, 11, 12, 13, 32}        \* what bytes.TrimSpace cuts
None      == << >>      \* an optional value is a sequence of at most one
Failed    == << >>      \* so is what a decoder returns
Good(msg) == <<msg>>

-----------------------------------------------------------------------------
(***************************************************************************)
(* Encoding                                                                *)
(***************************************************************************)
RECURSIVE protoVarint(_)
protoVarint(n) == IF n < 128 THEN <<n>> ELSE <<128 + (n % 128)>> \o protoVarint(n \div 128)

protoBytesField(field, value)  == protoVarint(field * 8 + 2) \o protoVarint(Len(value)) \o value
protoVarintField(field, value) == protoVarint(field * 8) \o protoVarint(value)
encodeZigZag32(n) == IF n >= 0 THEN 2 * n ELSE -2 * n - 1
boolVarint(b)     == IF b THEN 1 ELSE 0
Envelope(flags, payload) == <<flags, 0, 0, Len(payload) \div 256, Len(payload) % 256>> \o payload

Present(bytes, enc) == IF bytes = << >> THEN << >> ELSE enc
Optional(value, enc(_)) == IF value = None THEN << >> ELSE enc(value[1])
Concat(seqs) == FoldLeft(LAMBDA acc, s : acc \o s, << >>, seqs)

MapEntry(entry) == protoBytesField(1, entry[1]) \o protoBytesField(2, entry[2])

marshalProtoProcessConfig(cfg) ==
     Present(cfg.cmd, protoBytesField(1, cfg.cmd))
  \o Concat([i \in DOMAIN cfg.args |-> protoBytesField(2, cfg.args[i])])
  \o Concat([i \in DOMAIN cfg.envs |-> protoBytesField(3, MapEntry(cfg.envs[i]))])
  \o Optional(cfg.cwd, LAMBDA cwd : protoBytesField(4, cwd))

marshalProtoProcessInfo(proc) ==
     protoBytesField(1, marshalProtoProcessConfig(proc.config))
  \o (IF proc.pid > 0 THEN protoVarintField(2, proc.pid) ELSE << >>)
  \o Present(proc.tag, protoBytesField(3, proc.tag))

\* Slip: both streams of a pipe process are sent as stdout.
marshalDataAsStdout(event) ==
  Present(event.data, protoBytesField(IF event.stream = "pty" THEN 3 ELSE 1, event.data))

\* A data event names its stream by the field that holds the bytes.
marshalProtoDataEvent(event) ==
  Present(event.data, protoBytesField(CASE event.stream = "out" -> 1
                                        [] event.stream = "err" -> 2
                                        [] OTHER -> 3, event.data))

marshalProtoEndEvent(event) ==
     protoVarintField(1, encodeZigZag32(event.exitCode))
  \o protoVarintField(2, boolVarint(event.exited))
  \o Present(event.status, protoBytesField(3, event.status))
  \o Optional(event.error, LAMBDA error : protoBytesField(4, error))

marshalProtoProcessEvent(event) ==
  CASE event.type = "start"     -> protoBytesField(1, protoVarintField(1, event.pid))
    [] event.type = "data"      -> protoBytesField(2, marshalProtoDataEvent(event))
    [] event.type = "end"       -> protoBytesField(3, marshalProtoEndEvent(event))
    [] event.type = "keepalive" -> protoBytesField(4, << >>)

marshalConnectProto(value) ==
  CASE value.type = "list" -> Concat([i \in DOMAIN value.processes |->
                                protoBytesField(1, marshalProtoProcessInfo(value.processes[i]))])
    [] value.type = "ok"   -> << >>
    [] OTHER               -> protoBytesField(1, marshalProtoProcessEvent(value))

-----------------------------------------------------------------------------
(***************************************************************************)
(* Decoding                                                                *)
(***************************************************************************)
\* binary.Uvarint: the value and the bytes it took, 0 bytes when it never ends.
RECURSIVE Uvarint(_)
Uvarint(bytes) ==
  IF bytes = << >> THEN [value |-> 0, n |-> 0]
  ELSE IF bytes[1] < 128 THEN [value |-> bytes[1], n |-> 1]
  ELSE LET rest == Uvarint(Tail(bytes)) IN
         IF rest.n = 0 THEN [value |-> 0, n |-> 0]
         ELSE [value |-> bytes[1] - 128 + 128 * rest.value, n |-> rest.n + 1]

From(bytes, i) == SubSeq(bytes, i + 1, Len(bytes))
Field(field, value, varint) == [field |-> field, value |-> value, varint |-> varint]

\* The fields of a message in order, or Failed.  (The fields read before an
\* error are of no use to a caller.)
RECURSIVE walkProtoFields(_)
walkProtoFields(payload) ==
  IF payload = << >> THEN Good(<< >>)
  ELSE LET key   == Uvarint(payload)
           next  == Uvarint(From(payload, key.n))        \* a varint field's value or a length
           data  == From(payload, key.n + next.n)
           field == key.value \div 8
           Then(first, rest) == IF rest = Failed THEN Failed ELSE Good(<<first>> \o rest[1])
       IN IF key.n = 0 \/ next.n = 0 THEN Failed
          ELSE CASE key.value % 8 = 0 -> Then(Field(field, << >>, next.value), walkProtoFields(data))
                 [] key.value % 8 = 2 /\ Len(data) >= next.value ->
                      Then(Field(field, SubSeq(data, 1, next.value), 0),
                           walkProtoFields(From(data, next.value)))
                 [] OTHER -> Failed

\* A message is the fold of its fields into an empty one.  Put gives the
\* message with one field more, or Failed when a nested message is malformed.
Unmarshal(payload, empty, Put(_, _)) ==
  LET fields == walkProtoFields(payload) IN
    IF fields = Failed THEN Failed
    ELSE FoldLeft(LAMBDA msg, f : IF msg = Failed THEN Failed ELSE Put(msg[1], f), Good(empty), fields[1])

\* The request whose attr is the nested message, with Wrap around it.
Nest(req, attr, nested, Wrap(_)) ==
  IF nested = Failed THEN Failed ELSE Good([req EXCEPT ![attr] = Wrap(nested[1])])
Some(value) == <<value>>
Size(size)  == <<[size |-> size]>>

NoSelector == [pid |-> 0, tag |-> << >>]
unmarshalProtoSelector(payload, out) ==
  Unmarshal(payload, out,
    LAMBDA sel, f : Good(CASE f.field = 1 -> [sel EXCEPT !.pid = f.varint]
                           [] f.field = 2 -> [sel EXCEPT !.tag = f.value]
                           [] OTHER -> sel))

unmarshalProtoMapEntry(payload) ==
  Unmarshal(payload, << << >>, << >> >>,
    LAMBDA entry, f : Good(IF f.field \in {1, 2} THEN [entry EXCEPT ![f.field] = f.value] ELSE entry))

NoConfig == [cmd |-> << >>, args |-> << >>, envs |-> << >>, cwd |-> None]
unmarshalProtoProcessConfig(payload) ==
  Unmarshal(payload, NoConfig,
    LAMBDA cfg, f :
      IF f.field = 3 THEN Nest(cfg, "envs", unmarshalProtoMapEntry(f.value), LAMBDA e : Append(cfg.envs, e))
      ELSE Good(CASE f.field = 1 -> [cfg EXCEPT !.cmd = f.value]
                  [] f.field = 2 -> [cfg EXCEPT !.args = Append(@, f.value)]
                  [] f.field = 4 -> [cfg EXCEPT !.cwd = Some(f.value)]
                  [] OTHER -> cfg))

PTYSize(payload) ==
  Unmarshal(payload, [cols |-> 0, rows |-> 0],
    LAMBDA size, f : Good(CASE f.field = 1 -> [size EXCEPT !.cols = f.varint]
                            [] f.field = 2 -> [size EXCEPT !.rows = f.varint]
                            [] OTHER -> size))
unmarshalProtoPTY(payload) ==
  Unmarshal(payload, [size |-> None],
    LAMBDA pty, f : IF f.field # 1 THEN Good(pty) ELSE Nest(pty, "size", PTYSize(f.value), Some))

unmarshalProtoProcessInput(payload) ==
  Unmarshal(payload, [stdin |-> << >>, pty |-> << >>],
    LAMBDA input, f : Good(CASE f.field = 1 -> [input EXCEPT !.stdin = f.value]
                             [] f.field = 2 -> [input EXCEPT !.pty = f.value]
                             [] OTHER -> input))

unmarshalProtoStartRequest(payload) ==
  Unmarshal(payload, [process |-> None, pty |-> None, tag |-> None, stdin |-> None],
    LAMBDA req, f :
      CASE f.field = 1 -> Nest(req, "process", unmarshalProtoProcessConfig(f.value), Some)
        [] f.field = 2 -> Nest(req, "pty", unmarshalProtoPTY(f.value), Some)
        [] f.field = 3 -> Good([req EXCEPT !.tag = Some(f.value)])
        [] f.field = 4 -> Good([req EXCEPT !.stdin = Some(f.varint # 0)])
        [] OTHER -> Good(req))

unmarshalProtoSelectorMessage(payload) ==
  Unmarshal(payload, [process |-> Some(NoSelector)],
    LAMBDA req, f : IF f.field # 1 THEN Good(req)
                    ELSE Nest(req, "process", unmarshalProtoSelector(f.value, req.process[1]), Some))

WithProcess(req, f) == Nest(req, "process", unmarshalProtoSelector(f.value, NoSelector), Some)

unmarshalProtoUpdateRequest(payload) ==
  Unmarshal(payload, [process |-> None, pty |-> None],
    LAMBDA req, f : CASE f.field = 1 -> WithProcess(req, f)
                      [] f.field = 2 -> Nest(req, "pty", unmarshalProtoPTY(f.value), Some)
                      [] OTHER -> Good(req))

unmarshalProtoSendInputRequest(payload) ==
  Unmarshal(payload, [process |-> None, input |-> None],
    LAMBDA req, f : CASE f.field = 1 -> WithProcess(req, f)
                      [] f.field = 2 -> Nest(req, "input", unmarshalProtoProcessInput(f.value), Some)
                      [] OTHER -> Good(req))

unmarshalProtoSendSignalRequest(payload) ==
  Unmarshal(payload, [process |-> None, signal |-> 0],
    LAMBDA req, f : CASE f.field = 1 -> WithProcess(req, f)
                      [] f.field = 2 -> Good([req EXCEPT !.signal = f.varint])
                      [] OTHER -> Good(req))

unmarshalConnectProtoRequest(type, payload) ==
  CASE type = "start"   -> unmarshalProtoStartRequest(payload)
    [] type = "connect" -> unmarshalProtoSelectorMessage(payload)
    [] type = "update"  -> unmarshalProtoUpdateRequest(payload)
    [] type = "input"   -> unmarshalProtoSendInputRequest(payload)
    [] type = "signal"  -> unmarshalProtoSendSignalRequest(payload)

-----------------------------------------------------------------------------
(***************************************************************************)
(* One call: the caller encodes its request, boxd reads it, an event goes  *)
(* back.                                                                   *)
(***************************************************************************)
\* What a caller of the protobuf schema sends (external: no request encoder
\* is in the repository, except for the process config).
EncodeSelector(sel) ==
     (IF sel.pid > 0 THEN protoVarintField(1, sel.pid) ELSE << >>)
  \o Present(sel.tag, protoBytesField(2, sel.tag))
EncodeSize(size) == protoVarintField(1, size.cols) \o protoVarintField(2, size.rows)
EncodePTY(pty)   == Optional(pty.size, LAMBDA size : protoBytesField(1, EncodeSize(size)))
EncodeInput(input) == Present(input.stdin, protoBytesField(1, input.stdin))
                        \o Present(input.pty, protoBytesField(2, input.pty))
EncodeTarget(req) == Optional(req.process, LAMBDA sel : protoBytesField(1, EncodeSelector(sel)))
EncodeRequest(type, req) ==
  CASE type = "start" ->
         Optional(req.process, LAMBDA cfg : protoBytesField(1, marshalProtoProcessConfig(cfg)))
           \o Optional(req.pty, LAMBDA pty : protoBytesField(2, EncodePTY(pty)))
           \o Optional(req.tag, LAMBDA tag : protoBytesField(3, tag))
           \o Optional(req.stdin, LAMBDA stdin : protoVarintField(4, boolVarint(stdin)))
    [] type = "connect" -> EncodeTarget(req)
    [] type = "update"  -> EncodeTarget(req) \o Optional(req.pty, LAMBDA pty : protoBytesField(2, EncodePTY(pty)))
    [] type = "input"   -> EncodeTarget(req) \o Optional(req.input, LAMBDA in : protoBytesField(2, EncodeInput(in)))
    [] type = "signal"  -> EncodeTarget(req) \o protoVarintField(2, req.signal)

TrimSpace(bytes) ==
  LET kept == {i \in DOMAIN bytes : bytes[i] \notin Space} IN
    IF kept = {} THEN << >> ELSE SubSeq(bytes, Min(kept), Max(kept))

\* Slip: an envelope whose payload ends the body is taken for too short.
PayloadShort(bytes) ==
  LET trimmed == TrimSpace(bytes)
      size    == trimmed[4] * 256 + trimmed[5]
  IN IF Len(trimmed) >= 5 /\ trimmed[1] \in {0, 1} /\ size < Len(trimmed) - 5
     THEN SubSeq(trimmed, 6, 5 + size) ELSE trimmed

\* readConnectRequest: trim, take the payload out of an envelope that fits,
\* read an empty body as "{}".
Payload(bytes) ==
  LET trimmed == TrimSpace(bytes)
      size    == trimmed[4] * 256 + trimmed[5]
      opened  == IF Len(trimmed) >= 5 /\ trimmed[1] \in {0, 1} /\ size <= Len(trimmed) - 5
                 THEN SubSeq(trimmed, 6, 5 + size) ELSE trimmed
  IN IF opened = << >> THEN <<123, 125>> ELSE opened

readConnectRequest(type, bytes) == unmarshalConnectProtoRequest(type, Payload(bytes))

CodecInit == stage = "idle" /\ call = None /\ body = << >> /\ heard = Failed

\* Connect streams send their request in an envelope, unary calls bare.
SendRequest ==
  /\ stage = "idle"
  /\ \E r \in Requests, enveloped \in BOOLEAN :
       LET payload == EncodeRequest(r.type, r.req) IN
         /\ call' = Some([r EXCEPT !.enveloped = enveloped])
         /\ body' = IF enveloped THEN Envelope(0, payload) ELSE payload
  /\ stage' = "sent"
  /\ UNCHANGED heard

ReadRequest ==
  /\ stage = "sent"
  /\ heard' = readConnectRequest(call[1].type, body)
  /\ stage' = "read"
  /\ UNCHANGED <<call, body>>

\* connectStreamWriter.write: one event in an envelope.
WriteEvent ==
  /\ stage = "read"
  /\ \E e \in Events : call' = Some(e) /\ body' = Envelope(0, marshalConnectProto(e))
  /\ stage' = "event"
  /\ heard' = Failed

CodecNext == SendRequest \/ ReadRequest \/ WriteEvent

-----------------------------------------------------------------------------
\* A request that neither begins nor ends with a white-space byte is understood
\* as it was sent.  (TrimSpace cuts such a byte off a binary body: a bare
\* request whose first field has number 1 begins with 0x0A.)
RequestUnderstood ==
  stage = "read" /\ TrimSpace(body) = body /\ body # << >> => heard = Good(call[1].req)

\* What a reader of the schema makes of an event: its field of the response,
\* and the field's own fields with the integers read back from zigzag.
ZigZagOf(n) == IF n % 2 = 0 THEN n \div 2 ELSE -((n + 1) \div 2)
ReadEvent(bytes) ==
  LET outer == walkProtoFields(SubSeq(bytes, 6, Len(bytes)))[1][1]
      event == walkProtoFields(outer.value)[1][1]
      inner == walkProtoFields(event.value)[1]
      Bytes(k) == LET hits == SelectSeq(inner, LAMBDA f : f.field = k) IN
                    IF hits = << >> THEN << >> ELSE hits[1].value
      Number(k) == SelectSeq(inner, LAMBDA f : f.field = k)[1].varint
  IN CASE event.field = 1 -> [type |-> "start", pid |-> Number(1)]
       [] event.field = 2 -> [type |-> "data", stream |-> <<"out", "err", "pty">>[inner[1].field],
                              data |-> inner[1].value]
       [] event.field = 3 -> [type |-> "end", exitCode |-> ZigZagOf(Number(1)), exited |-> Number(2) = 1,
                              status |-> Bytes(3),
                              error |-> IF Bytes(4) = << >> THEN None ELSE Some(Bytes(4))]
       [] event.field = 4 -> [type |-> "keepalive"]

\* Every event arrives as it was written, whatever its bytes: the envelope's
\* length is the payload's, and the nested lengths and numbers add up.
EventReadable ==
  stage = "event" =>
    /\ body[4] * 256 + body[5] = Len(body) - 5
    /\ ReadEvent(body) = call[1]
=============================================================================
