---------------------------- MODULE MCServerConn ----------------------------
(***************************************************************************)
(* Instances of ServerConn for TLC: a client exercising the header        *)
(* checks, segmentation and the channel handlers, and a client sending     *)
(* requests the handlers cannot decode.                                    *)
(***************************************************************************)
EXTENDS ServerConn

\* A client's frame; magic FALSE stands for a bad magic byte or version 0.
Frame(m, fl, c, b) == [magic |-> m, flags |-> fl, cmd |-> c, body |-> b]

Chan(cid, name) == [cid |-> cid, name |-> name]

\* Requests the handlers cannot decode completely, beside well-formed ones.
MCUndecodableFrames ==
    {Frame(TRUE, 0, "ConnValid", b) : b \in {[auth |-> "ca"], Trunc}}
    \cup {Frame(TRUE, 0, "CreateChan", [chans |-> <<Chan(1, "a")>>, trunc |-> tr]) :
            tr \in BOOLEAN}
    \cup {Frame(TRUE, 0, "DestroyChan", b) : b \in {[sid |-> 0, cid |-> 1], Trunc}}

\* Every segment flag for Echo; an unsegmented Search (a command whose
\* handler does nothing) and a last segment of Search, which continues an
\* Echo run with another command; a bad and a control header; and channel
\* requests that reach and pass the channel limit, reuse a CID and name an unclaimed
\* channel, and a destroy whose CID is not the channel's (SID 0 is CID 1).
MCFrames ==
    {Frame(TRUE, fl, "Echo", "p") : fl \in {0, SegFirst, SegLast, SegMask}}
    \cup {Frame(TRUE, fl, "Search", "p") : fl \in {0, SegLast}}
    \cup {Frame(FALSE, 0, "Echo", "p"), Frame(TRUE, Control, "Echo", "p")}
    \cup {Frame(TRUE, 0, "ConnValid", [auth |-> "x"])}
    \cup {Frame(TRUE, 0, "CreateChan", [chans |-> cs, trunc |-> FALSE]) :
            cs \in {<<Chan(1, "a"), Chan(2, "a")>>, <<Chan(3, "a"), Chan(4, "a")>>,
                    <<Chan(3, "x")>>}}
    \cup {Frame(TRUE, 0, "DestroyChan", [sid |-> 0, cid |-> 2])}

MCSources == {"a"}

=============================================================================
