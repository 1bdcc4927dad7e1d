---------------------------- MODULE MessageStream ---------------------------
(***************************************************************************)
(* What a PVA server connection promises its handlers, stated without      *)
(* buffers, watermarks or reassembly state: the frames a client sends form *)
(* one stream; the connection removes from its front either a control      *)
(* frame (which it drains) or a whole message (which it dispatches), in    *)
(* the order sent, and may close at any time.  A message is one            *)
(* unsegmented application frame, or a first segment, middle segments and *)
(* a last segment, all of one command; its body is the frames' bodies in   *)
(* order.  Control frames may come between the segments of a message.     *)
(*                                                                         *)
(* ServerConn, which models bevRead, implements this specification (see   *)
(* ImplementsMessageStream there).                                        *)
(***************************************************************************)
EXTENDS Integers, Sequences, SequencesExt, Bitwise

CONSTANTS
    Frames,     \* the frames a client may send
    MaxFrames,  \* how many frames the client sends in a behaviour
    NoMsg       \* nothing dispatched yet

VARIABLES
    stream,     \* frames received and not yet drained or dispatched
    sent,       \* how many frames the client has sent
    handled,    \* the last message dispatched: [cmd, body, frames]
    open        \* the connection is open

vars == <<stream, sent, handled, open>>

\* The header flags of the PVA protocol.
ControlFlag == 1
FirstSeg    == 16
LastSeg     == 32
BothSeg     == 48
FromServer  == 64

WellFormed(f) == f.magic /\ (f.flags & FromServer) = 0
IsControl(f)  == WellFormed(f) /\ (f.flags & ControlFlag) # 0
IsApp(f)      == WellFormed(f) /\ (f.flags & ControlFlag) = 0
SegOf(f)      == f.flags & BothSeg

\* fs is one whole message.
Message(fs) ==
    LET n == Len(fs) IN
    /\ n >= 1
    /\ \A i \in 1 .. n : IsApp(fs[i]) /\ fs[i].cmd = fs[1].cmd
    /\ \/ n = 1 /\ SegOf(fs[1]) = 0
       \/ /\ n >= 2
          /\ SegOf(fs[1]) = FirstSeg /\ SegOf(fs[n]) = LastSeg
          /\ \A i \in 2 .. n - 1 : SegOf(fs[i]) = BothSeg

Init ==
    /\ stream = <<>>
    /\ sent = 0
    /\ handled = NoMsg
    /\ open = TRUE

Send ==
    /\ open
    /\ sent < MaxFrames
    /\ \E f \in Frames : stream' = Append(stream, f)
    /\ sent' = sent + 1
    /\ UNCHANGED <<handled, open>>

\* The first control frame is drained; only application frames (the
\* segments of a message in progress) may precede it.
Drain ==
    LET i == SelectInSeq(stream, IsControl) IN
    /\ open
    /\ i > 0
    /\ \A j \in 1 .. i - 1 : IsApp(stream[j])
    /\ stream' = RemoveAt(stream, i)
    /\ UNCHANGED <<sent, handled, open>>

\* The message at the front is dispatched; its handler may close the
\* connection.
Deliver ==
    /\ open
    /\ \E n \in 1 .. Len(stream) :
         LET fs == SubSeq(stream, 1, n) IN
         /\ Message(fs)
         /\ handled' = [cmd |-> fs[1].cmd,
                        body |-> [i \in 1 .. n |-> fs[i].body],
                        frames |-> fs]
         /\ stream' = SubSeq(stream, n + 1, Len(stream))
    /\ open' \in BOOLEAN
    /\ UNCHANGED sent

Close ==
    /\ open
    /\ open' = FALSE
    /\ UNCHANGED <<stream, sent, handled>>

Next == Send \/ Drain \/ Deliver \/ Close

Spec == Init /\ [][Next]_vars

====
