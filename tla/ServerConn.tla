----------------------------- MODULE ServerConn -----------------------------
(***************************************************************************)
(* ServerConn (tools/cert.cpp): one PVA server connection.  bevRead is     *)
(* libevent's read callback.  It loops over the buffered input, checks     *)
(* each 8-byte header, reassembles segmented messages into segBuf and      *)
(* dispatches the complete message to a handler.  The handlers modelled    *)
(* are Echo, ConnValid (with auth_complete), CreateChan and DestroyChan;   *)
(* the others are empty in this file.  Back-pressure: when the output      *)
(* buffer is "full" reading stops until bevWrite re-enables it.            *)
(*                                                                         *)
(* Data is abstracted: a frame is a record of its header fields and one    *)
(* body token, and a message body is the sequence of its frames' tokens.   *)
(* A handler decodes the first token; a token Trunc (or a request whose  *)
(* trunc field is set) is a body from_wire cannot decode completely.       *)
(* Everything runs on the server's event loop thread, so a callback is     *)
(* atomic with respect to the socket: no byte arrives while one runs.      *)
(***************************************************************************)
EXTENDS Integers, Sequences, FiniteSets, Functions, TLC, Bitwise

CONSTANTS
    Frames,     \* the frames a client may send
    MaxFrames,  \* how many frames the client sends in a behaviour
    TxHigh,     \* output length at which reading stops (0x100000)
    SidSpace,   \* 2^width of the SID counter (2^32 in the code)
    Sources,    \* the channel names some Source's onCreate claims
    Trunc,      \* model value: a body from_wire cannot decode
    NoMsg       \* model value: nothing dispatched yet

\* pva_flags (pvaproto.h, not in the repository)
Control  == 1         \* 0x01
SegFirst == 16        \* 0x10
SegLast  == 32        \* 0x20
SegMask  == 48        \* 0x30
Server   == 64        \* 0x40

VARIABLES
    open,        \* bev is non-null
    pc,          \* "idle" (in the event loop), "loop" / "end" (in bevRead),
                 \* "gone" (cleanup ran) or "crashed"
    rx,          \* the input evbuffer, as frames
    rxPartial,   \* the last frame of rx has its header but not its body
    fresh,       \* bytes arrived since the last read callback
    sent,        \* frames the client has sent
    readEnabled, \* EV_READ enabled
    wlow,        \* EV_WRITE low watermark
    writeDue,    \* libevent will call bevWrite
    expectSeg, segCmd, segBuf,
    segFrames,   \* ghost: the frames whose bodies are in segBuf
    handled,     \* ghost: the last message dispatched
    tx,          \* the output evbuffer, as reply records
    chanBySID,   \* sid -> [cid, name]
    chanByCID,   \* cid -> sid (the pointer into chanBySID)
    nextSID

vars == <<open, pc, rx, rxPartial, fresh, sent, readEnabled, wlow, writeDue,
          expectSeg, segCmd, segBuf, segFrames, handled, tx,
          chanBySID, chanByCID, nextSID>>
-----------------------------------------------------------------------------
\* Map erase and emplace.
Without(f, k) == Restrict(f, DOMAIN f \ {k})

With(f, k, v) == (k :> v) @@ f

\* The part of the connection a handler changes.
Current ==
    [open |-> open, tx |-> tx, bysid |-> chanBySID, bycid |-> chanByCID,
     next |-> nextSID]
-----------------------------------------------------------------------------
(* Handlers                                                                *)

\* handle_Echo: the whole body goes back in an Echo reply.
HandleEcho(c, body) ==
    [c EXCEPT !.tx = Append(@, [op |-> "Echo", body |-> body])]

\* handle_ConnValid: a truncated request disconnects; otherwise
\* auth_complete answers Ok for "ca" and "anonymous", Error for others.
HandleConnValid(c, body) ==
    IF body = <<>> \/ body[1] = Trunc
    THEN [c EXCEPT !.open = FALSE]
    ELSE [c EXCEPT !.tx = Append(@, [op |-> "ConnValidated",
                                     ok |-> body[1].auth \in {"ca", "anonymous"}])]

\* The do { sid = nextSID++ } while(sid in use) loop: the first free SID
\* at or after nextSID, counting modulo the width of the counter.
FreeSID(c) ==
    LET k == CHOOSE k \in 0 .. SidSpace - 1 :
                 /\ (c.next + k) % SidSpace \notin DOMAIN c.bysid
                 /\ \A j \in 0 .. k - 1 : (c.next + j) % SidSpace \in DOMAIN c.bysid
    IN  (c.next + k) % SidSpace

MaxChan == SidSpace - 1     \* 0xffffffff

\* One iteration of handle_CreateChan's loop, for the request r.
CreateOne(c, r) ==
    LET sts == CASE Cardinality(DOMAIN c.bycid) = MaxChan
                    \/ Cardinality(DOMAIN c.bysid) = MaxChan -> "Error"
                 [] r.cid \in DOMAIN c.bycid                 -> "Fatal"
                 [] r.name \notin Sources                    -> "Fatal"
                 [] OTHER                                    -> "Ok"
        sid == FreeSID(c)
    IN  IF sts = "Ok"
        THEN [c EXCEPT !.bysid = With(@, sid, [cid |-> r.cid, name |-> r.name]),
                       !.bycid = With(@, r.cid, sid),
                       !.next  = (sid + 1) % SidSpace,
                       !.tx    = Append(@, [op |-> "CreateChan", cid |-> r.cid,
                                            sid |-> sid, sts |-> sts])]
        ELSE [c EXCEPT !.tx = Append(@, [op |-> "CreateChan", cid |-> r.cid,
                                         sid |-> -1, sts |-> sts])]

RECURSIVE CreateEach(_, _)
CreateEach(c, rs) ==
    IF rs = <<>> THEN c ELSE CreateEach(CreateOne(c, Head(rs)), Tail(rs))

\* handle_CreateChan: every request decoded is answered; a decode error
\* after them disconnects.
HandleCreateChan(c, body) ==
    IF body = <<>> THEN [c EXCEPT !.open = FALSE]
    ELSE LET after == CreateEach(c, body[1].chans)
         IN  [after EXCEPT !.open = ~body[1].trunc]

\* Mutant: the CID of the request is erased instead of the channel's own.
HandleDestroyChanReqCid(c, body) ==
    IF body = <<>> \/ body[1] = Trunc
    THEN [c EXCEPT !.open = FALSE]
    ELSE LET sid == body[1].sid
             cid == body[1].cid
         IN  IF sid \in DOMAIN c.bysid
             THEN [c EXCEPT !.bycid = Without(@, cid),
                            !.bysid = Without(@, sid),
                            !.tx    = Append(@, [op |-> "DestroyChan",
                                                 cid |-> cid, sid |-> sid])]
             ELSE c

\* handle_DestroyChan: a known SID is destroyed, erasing the channel's own
\* CID (a different CID in the request is only logged), and the reply
\* echoes the request's IDs; an unknown SID is ignored.
HandleDestroyChan(c, body) ==
    IF body = <<>> \/ body[1] = Trunc
    THEN [c EXCEPT !.open = FALSE]
    ELSE LET sid == body[1].sid
             cid == body[1].cid
         IN  IF sid \in DOMAIN c.bysid
             THEN [c EXCEPT !.bycid = Without(@, c.bysid[sid].cid),
                            !.bysid = Without(@, sid),
                            !.tx    = Append(@, [op |-> "DestroyChan",
                                                 cid |-> cid, sid |-> sid])]
             ELSE c

\* The switch(segCmd) of bevRead; unknown and empty handlers do nothing.
\* handle_GetOp, handle_PutOp, handle_RPCOp, handle_PutGetOp, handle_CancelOp,
\* handle_DestroyOp, handle_Introspect and handle_Message (and Search and
\* AuthZ) have empty bodies in this file: the connection is left as it is.
HandleNothing(c, body) == c

Dispatch(c, cmd, body) ==
    CASE cmd = "Echo"        -> HandleEcho(c, body)
      [] cmd = "ConnValid"   -> HandleConnValid(c, body)
      [] cmd = "CreateChan"  -> HandleCreateChan(c, body)
      [] cmd = "DestroyChan" -> HandleDestroyChan(c, body)
      [] OTHER               -> HandleNothing(c, body)
-----------------------------------------------------------------------------

Init ==
    /\ open = TRUE
    /\ pc = "idle"
    /\ rx = <<>>
    /\ rxPartial = FALSE
    /\ fresh = FALSE
    /\ sent = 0
    /\ readEnabled = TRUE
    /\ wlow = 0
    /\ writeDue = FALSE
    /\ expectSeg = FALSE
    /\ segCmd = "0xff"
    /\ segBuf = <<>>
    /\ segFrames = <<>>
    /\ handled = NoMsg
    \* the constructor queues SetEndian and the server's ConnValid
    /\ tx = <<[op |-> "SetEndian"], [op |-> "ConnValid"]>>
    /\ chanBySID = << >>
    /\ chanByCID = << >>
    /\ nextSID = 0

-----------------------------------------------------------------------------
(* The client and the socket                                               *)

\* Bad magic, version 0 or the Server flag from a client: disconnect.
BadHeader(f) == ~f.magic \/ (f.flags & Server) # 0

AppFrame(f) == ~BadHeader(f) /\ (f.flags & Control) = 0

\* Bytes of a frame reach the input buffer: its header, and its body now or
\* later.  libevent only reads the socket while EV_READ is enabled.
ClientSend ==
    /\ open /\ pc = "idle" /\ readEnabled
    /\ sent < MaxFrames
    /\ ~rxPartial
    /\ \E f \in Frames :
          /\ rx' = Append(rx, f)
          \* a control message is a bare 8-byte header
          /\ rxPartial' \in IF AppFrame(f) THEN BOOLEAN ELSE {FALSE}
    /\ fresh' = TRUE
    /\ sent' = sent + 1
    /\ UNCHANGED <<open, pc, readEnabled, wlow, writeDue, expectSeg, segCmd,
                   segBuf, segFrames, handled, tx, chanBySID, chanByCID, nextSID>>

ClientSendRest ==
    /\ open /\ pc = "idle" /\ readEnabled
    /\ rxPartial
    /\ rxPartial' = FALSE
    /\ fresh' = TRUE
    /\ UNCHANGED <<open, pc, rx, sent, readEnabled, wlow, writeDue, expectSeg,
                   segCmd, segBuf, segFrames, handled, tx, chanBySID,
                   chanByCID, nextSID>>

\* libevent writes the head of the output buffer to the socket; when the
\* buffer has drained to the EV_WRITE low watermark it will call bevWrite.
ClientRecv ==
    /\ open /\ pc = "idle"
    /\ tx # <<>>
    /\ tx' = Tail(tx)
    /\ writeDue' = (writeDue \/ Len(tx') <= wlow)
    /\ UNCHANGED <<open, pc, rx, rxPartial, fresh, sent, readEnabled, wlow,
                   expectSeg, segCmd, segBuf, segFrames, handled, chanBySID,
                   chanByCID, nextSID>>

\* A timeout is only armed for an enabled read or a pending write
\* (bufferevent_set_timeouts, 30 s each).
Pending == readEnabled \/ tx # <<>>

\* bevEvent: EOF, a socket error or a timeout resets bev; then cleanup
\* removes the connection from its interface (delete this).
BevEvent(ev) ==
    /\ open /\ pc = "idle"
    /\ ev = "timeout" => Pending
    /\ open' = FALSE
    /\ pc' = "gone"
    /\ UNCHANGED <<rx, rxPartial, fresh, sent, readEnabled, wlow, writeDue,
                   expectSeg, segCmd, segBuf, segFrames, handled, tx,
                   chanBySID, chanByCID, nextSID>>

-----------------------------------------------------------------------------
(* bevRead                                                                 *)

\* libevent calls bevRead after reading new bytes.
BevReadS ==
    /\ open /\ pc = "idle" /\ readEnabled
    /\ fresh
    /\ pc' = "loop"
    /\ fresh' = FALSE
    /\ UNCHANGED <<open, rx, rxPartial, sent, readEnabled, wlow, writeDue,
                   expectSeg, segCmd, segBuf, segFrames, handled, tx,
                   chanBySID, chanByCID, nextSID>>

\* A header and its whole body are buffered.
Complete == rx # <<>> /\ ~(Len(rx) = 1 /\ rxPartial)

\* The loop stops: fewer than 8 bytes, or the header of an application
\* message whose body is still to come (the read watermark is then raised
\* to the body's length).
ReadStop ==
    /\ pc = "loop" /\ open
    /\ rx # <<>> => AppFrame(Head(rx)) /\ ~Complete
    /\ pc' = "end"
    /\ UNCHANGED <<open, rx, rxPartial, fresh, sent, readEnabled, wlow,
                   writeDue, expectSeg, segCmd, segBuf, segFrames, handled,
                   tx, chanBySID, chanByCID, nextSID>>

\* The header is checked as soon as its 8 bytes are buffered.
ReadBadHeader ==
    /\ pc = "loop" /\ open /\ rx # <<>>
    /\ BadHeader(Head(rx))
    /\ open' = FALSE
    /\ pc' = "end"
    /\ UNCHANGED <<rx, rxPartial, fresh, sent, readEnabled, wlow, writeDue,
                   expectSeg, segCmd, segBuf, segFrames, handled, tx,
                   chanBySID, chanByCID, nextSID>>

\* Control messages are drained.
ReadControl ==
    /\ pc = "loop" /\ open /\ rx # <<>>
    /\ ~BadHeader(Head(rx)) /\ (Head(rx).flags & Control) # 0
    /\ rx' = Tail(rx)
    /\ UNCHANGED <<open, pc, rxPartial, fresh, sent, readEnabled, wlow,
                   writeDue, expectSeg, segCmd, segBuf, segFrames, handled,
                   tx, chanBySID, chanByCID, nextSID>>

Seg(f) == f.flags & SegMask

\* true for mid or last, false for none or first
Continuation(f) == (Seg(f) & SegLast) # 0

\* Mutant: the command of a continuation is not compared with segCmd.
SegViolationNoCmd(f) == Continuation(f) # expectSeg

\* (continuation ^ expectSeg) || (continuation && header[3]!=segCmd)
SegViolation(f) ==
    Continuation(f) # expectSeg \/ (Continuation(f) /\ f.cmd # segCmd)

\* The body is moved into segBuf before the segmentation check.
ReadSegViolation ==
    /\ pc = "loop" /\ open /\ Complete
    /\ AppFrame(Head(rx)) /\ SegViolation(Head(rx))
    /\ rx' = Tail(rx)
    /\ segBuf' = Append(segBuf, Head(rx).body)
    /\ segFrames' = Append(segFrames, Head(rx))
    /\ open' = FALSE
    /\ pc' = "end"
    /\ UNCHANGED <<rxPartial, fresh, sent, readEnabled, wlow, writeDue,
                   expectSeg, segCmd, handled, tx, chanBySID, chanByCID,
                   nextSID>>

\* A first or middle segment: accumulate.
ReadSegment ==
    /\ pc = "loop" /\ open /\ Complete
    /\ AppFrame(Head(rx)) /\ ~SegViolation(Head(rx))
    /\ Seg(Head(rx)) \in {SegFirst, SegMask}
    /\ rx' = Tail(rx)
    /\ segBuf' = Append(segBuf, Head(rx).body)
    /\ segFrames' = Append(segFrames, Head(rx))
    /\ expectSeg' = TRUE
    /\ segCmd' = IF Seg(Head(rx)) = SegFirst THEN Head(rx).cmd ELSE segCmd
    /\ UNCHANGED <<open, pc, rxPartial, fresh, sent, readEnabled, wlow,
                   writeDue, handled, tx, chanBySID, chanByCID, nextSID>>

\* An unsegmented message or a last segment: dispatch segBuf, drain it and
\* set the read watermark back to a header.  A handler that reset bev
\* leaves bufferevent_setwatermark a null bufferevent.
ReadDispatch ==
    /\ pc = "loop" /\ open /\ Complete
    /\ AppFrame(Head(rx)) /\ ~SegViolation(Head(rx))
    /\ Seg(Head(rx)) \in {0, SegLast}
    /\ LET f   == Head(rx)
           cmd == IF Seg(f) = 0 THEN f.cmd ELSE segCmd
           buf == Append(segBuf, f.body)
           c   == Dispatch(Current, cmd, buf)
       IN  /\ rx' = Tail(rx)
           /\ expectSeg' = FALSE
           /\ segCmd' = cmd
           /\ segBuf' = <<>>
           /\ segFrames' = <<>>
           /\ handled' = [cmd |-> cmd, body |-> buf,
                          frames |-> Append(segFrames, f)]
           /\ open' = c.open
           /\ tx' = c.tx
           /\ chanBySID' = c.bysid
           /\ chanByCID' = c.bycid
           /\ nextSID' = c.next
           /\ pc' = IF c.open THEN "loop" ELSE "crashed"
    /\ UNCHANGED <<rxPartial, fresh, sent, readEnabled, wlow, writeDue>>

\* After the loop: cleanup if bev was reset.
ReadEndCleanup ==
    /\ pc = "end" /\ ~open
    /\ pc' = "gone"
    /\ UNCHANGED <<open, rx, rxPartial, fresh, sent, readEnabled, wlow,
                   writeDue, expectSeg, segCmd, segBuf, segFrames, handled,
                   tx, chanBySID, chanByCID, nextSID>>

\* Mutant: the EV_WRITE low watermark set to the full mark.
ReadEndFullWatermark ==
    /\ pc = "end" /\ open
    /\ pc' = "idle"
    /\ IF Len(tx) >= TxHigh
       THEN /\ readEnabled' = FALSE
            /\ wlow' = TxHigh
       ELSE UNCHANGED <<readEnabled, wlow>>
    /\ UNCHANGED <<open, rx, rxPartial, fresh, sent, writeDue, expectSeg,
                   segCmd, segBuf, segFrames, handled, tx, chanBySID,
                   chanByCID, nextSID>>

\* After the loop: stop reading while the output buffer is "full", until
\* it has drained to half.
ReadEnd ==
    /\ pc = "end" /\ open
    /\ pc' = "idle"
    /\ IF Len(tx) >= TxHigh
       THEN /\ readEnabled' = FALSE
            /\ wlow' = TxHigh \div 2
       ELSE UNCHANGED <<readEnabled, wlow>>
    /\ UNCHANGED <<open, rx, rxPartial, fresh, sent, writeDue, expectSeg,
                   segCmd, segBuf, segFrames, handled, tx, chanBySID,
                   chanByCID, nextSID>>

\* Mutant: bevWrite resets the watermark but does not enable reading.
BevWriteNoEnable ==
    /\ open /\ pc = "idle"
    /\ writeDue
    /\ writeDue' = FALSE
    /\ wlow' = 0
    /\ UNCHANGED <<open, pc, rx, rxPartial, fresh, sent, readEnabled,
                   expectSeg, segCmd, segBuf, segFrames, handled, tx,
                   chanBySID, chanByCID, nextSID>>

\* bevWrite: the output has drained; read again.
BevWrite ==
    /\ open /\ pc = "idle"
    /\ writeDue
    /\ writeDue' = FALSE
    /\ readEnabled' = TRUE
    /\ wlow' = 0
    /\ UNCHANGED <<open, pc, rx, rxPartial, fresh, sent, expectSeg, segCmd,
                   segBuf, segFrames, handled, tx, chanBySID, chanByCID,
                   nextSID>>

ReadStep ==
    ReadStop \/ ReadBadHeader \/ ReadControl \/ ReadSegViolation
    \/ ReadSegment \/ ReadDispatch \/ ReadEndCleanup \/ ReadEnd

Next ==
    \/ ClientSend \/ ClientSendRest \/ ClientRecv
    \/ \E ev \in {"eof", "error", "timeout"} : BevEvent(ev)
    \/ BevReadS \/ ReadStep \/ BevWrite

\* The event loop runs every due callback; a pending write either drains
\* or times out (30 s).  The client need not send anything.
Fairness ==
    /\ WF_vars(BevReadS) /\ WF_vars(ReadStep) /\ WF_vars(BevWrite)
    /\ WF_vars(ClientRecv \/ BevEvent("timeout"))

Spec == Init /\ [][Next]_vars /\ Fairness

-----------------------------------------------------------------------------
(* Properties                                                              *)

TypeOK ==
    /\ open \in BOOLEAN /\ rxPartial \in BOOLEAN /\ fresh \in BOOLEAN
    /\ pc \in {"idle", "loop", "end", "gone", "crashed"}
    /\ rx \in Seq(Frames) /\ segFrames \in Seq(Frames)
    /\ sent \in 0 .. MaxFrames
    /\ readEnabled \in BOOLEAN /\ writeDue \in BOOLEAN
    /\ wlow \in 0 .. TxHigh - 1
    /\ expectSeg \in BOOLEAN
    /\ DOMAIN chanBySID \subseteq 0 .. SidSpace - 1
    /\ nextSID \in 0 .. SidSpace - 1

\* The frames that have arrived whole: a frame whose body is still to come
\* is not yet sent, as far as the stream is concerned.
Arrived == IF rxPartial THEN SubSeq(rx, 1, Len(rx) - 1) ELSE rx

\* bevRead implements MessageStream: the frames buffered in segBuf and in
\* the input buffer are the abstract stream, and every dispatch hands a
\* handler the whole well-formed message at the stream's front, body and
\* command included, in the order the client sent it; only control frames
\* are dropped, and a frame is never lost, duplicated or reordered.  This is
\* what the expectSeg and segCmd checks, the move into segBuf before the
\* check and the draining of segBuf are for.
Abstract == INSTANCE MessageStream
                WITH stream <- segFrames \o Arrived,
                     sent   <- IF rxPartial THEN sent - 1 ELSE sent

ImplementsMessageStream == Abstract!Spec


\* chanByCID and chanBySID describe the same channels: every CID points at
\* a channel with that CID, and every channel is reachable from its CID.
\* handle_DestroyChan's assert(n==1) and handle_CreateChan's duplicate
\* checks rely on it, whatever IDs a client sends.
ChannelMapsConsistent ==
    /\ DOMAIN chanByCID = {chanBySID[sid].cid : sid \in DOMAIN chanBySID}
    /\ \A cid \in DOMAIN chanByCID :
           /\ chanByCID[cid] \in DOMAIN chanBySID
           /\ chanBySID[chanByCID[cid]].cid = cid

\* A connection is never stuck: once bevRead stops reading because the
\* output buffer is full, reading resumes (bevWrite), and no frame that has
\* arrived whole is left in the input buffer (libevent calls bevRead only
\* when new bytes arrive, so its loop must consume every whole frame before
\* it returns, or a message would wait for bytes the client may never
\* send), unless the connection closes.
ReadResumes ==
    (open /\ (~readEnabled \/ Arrived # <<>>))
        ~> (~open \/ (readEnabled /\ Arrived = <<>>))

\* A handler that forces a disconnect (bev.reset()) is followed by no use
\* of the released bufferevent: "handlers may be cleared bev to force
\* disconnect", so bevRead must not touch bev after the dispatch.
NoUseAfterReset ==
    pc # "crashed"

====
