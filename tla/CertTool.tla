------------------------------ MODULE CertTool ------------------------------
(***************************************************************************)
(* pvxcert's main (tools/cert.cpp): the option checks, the one request it  *)
(* sends to PVACMS, and the wait in which the request's result callback    *)
(* (on the client's worker thread), a SIGINT (SigInt handler) and the      *)
(* timeout of done.wait race to decide the exit code.                      *)
(*                                                                         *)
(* A command line is a record of the options that steer the control flow. *)
(* The CMS's answer, the readability of the certificate file and a failing *)
(* exec are the environment's choices.  pvxs's client::Result, whose       *)
(* operator bool is true for an error as for a value and whose operator() *)
(* rethrows the error, is the contract the callbacks rely on.              *)
(***************************************************************************)
EXTENDS Integers, FiniteSets

CONSTANTS
    CmdLines    \* the command lines: records of the option fields below

VARIABLES
    cmd,        \* the parsed command line
    pc,         \* "start", "wait" (in done.wait) or "exit"
    request,    \* the CertAction sent, or "none"
    ops,        \* the operation is held in ops (not yet cancelled)
    done,       \* epicsEvent done has been signalled
    code,       \* main's return value, or -1 before it returns
    reply,      \* what the CMS answered: "none", "ok" or "error"
    doneBy,     \* who signalled done first: "none", "reply" or "sigint"
    interrupted,\* a SIGINT arrived
    failed      \* "none", "build", "file" (cert file unreadable) or "exec"

vars == <<cmd, pc, request, ops, done, code, reply, doneBy, interrupted,
          failed>>

\* The fields of a command line.
CmdFields == [parseError: BOOLEAN, help: BOOLEAN, version: BOOLEAN,
              argc3: BOOLEAN, password: BOOLEAN, file: BOOLEAN, approve: BOOLEAN,
              revoke: BOOLEAN, deny: BOOLEAN, certId: BOOLEAN,
              format: {"none", "delta", "tree", "bad"}]

NoExit == -1

\* CLI11_PARSE returns app.exit(e): one of CLI11's parse-error codes, all of
\* them 100 or more.
CLI11Error == 100

Init ==
    /\ cmd \in CmdLines
    /\ pc = "start"
    /\ request = "none"
    /\ ops = FALSE
    /\ done = FALSE
    /\ code = NoExit
    /\ reply = "none"
    /\ doneBy = "none"
    /\ interrupted = FALSE
    /\ failed = "none"

-----------------------------------------------------------------------------
\* CLI11_PARSE and the option checks, in the code's order: the code main
\* returns, or NoExit when it goes on.  A bad -F makes stringToFormat throw,
\* which the outer catch turns into 6.
OptionExit(c) ==
    CASE c.parseError                                 -> CLI11Error
      [] c.help                                       -> 0
      [] c.version                                    -> IF c.argc3 THEN 1 ELSE 0
      [] c.password /\ ~c.file                        -> 1
      [] c.file /\ (c.approve \/ c.revoke \/ c.deny)  -> 2
      [] c.format = "bad"                             -> 6
      [] OTHER                                        -> NoExit

\* The action: the last of -A, -R, -D given wins.
ActionOf(c) ==
    IF c.deny THEN "DENY" ELSE IF c.revoke THEN "REVOKE"
    ELSE IF c.approve THEN "APPROVE" ELSE "STATUS"

Return(c) ==
    /\ pc' = "exit"
    /\ code' = c

OptionsExit ==
    /\ pc = "start"
    /\ OptionExit(cmd) # NoExit
    /\ Return(OptionExit(cmd))
    /\ UNCHANGED <<cmd, request, ops, done, reply, doneBy, interrupted,
                   failed>>

\* conf.build() throws (the client context cannot be created): the outer
\* catch returns 6.
BuildFails ==
    /\ pc = "start"
    /\ OptionExit(cmd) = NoExit
    /\ Return(6)
    /\ failed' = "build"
    /\ UNCHANGED <<cmd, request, ops, done, reply, doneBy, interrupted>>

\* IdFileFactory::create(...)->getCertDataFromFile or getStatusPvFromCert
\* throws: return 3.
CertFileError ==
    /\ pc = "start"
    /\ OptionExit(cmd) = NoExit
    /\ cmd.file
    /\ Return(3)
    /\ failed' = "file"
    /\ UNCHANGED <<cmd, request, ops, done, reply, doneBy, interrupted>>

\* ctxt.get/put(...).exec() throws: ctxt.close(), return 3.
ExecFails ==
    /\ pc = "start"
    /\ OptionExit(cmd) = NoExit
    /\ Return(3)
    /\ failed' = "exec"
    /\ UNCHANGED <<cmd, request, ops, done, reply, doneBy, interrupted>>

\* The request for the action is started and kept in ops; main then waits.
Exec ==
    /\ pc = "start"
    /\ OptionExit(cmd) = NoExit
    /\ pc' = "wait"
    /\ request' = ActionOf(cmd)
    /\ ops' = TRUE
    /\ UNCHANGED <<cmd, done, code, reply, doneBy, interrupted, failed>>

\* The result callback, on the client's worker.  An error makes result()
\* (STATUS) or `if (result) ... result()` (PUT) rethrow before done.signal().
ResultCallback ==
    /\ ops
    /\ reply = "none"
    /\ \E r \in {"ok", "error"} :
         LET signals == r = "ok"
         IN  /\ reply' = r
             /\ done' = (done \/ signals)
             /\ doneBy' = IF signals /\ ~done THEN "reply" ELSE doneBy
    /\ UNCHANGED <<cmd, pc, request, ops, code, interrupted, failed>>

\* SigInt's handler, installed for the wait: done.signal().
SigIntHandler ==
    /\ pc = "wait"
    /\ ~interrupted
    /\ interrupted' = TRUE
    /\ done' = TRUE
    /\ doneBy' = IF done THEN doneBy ELSE "sigint"
    /\ UNCHANGED <<cmd, pc, request, ops, code, reply, failed>>

\* done.wait(timeout) returns whether done was signalled before the timeout;
\* ops.clear() cancels the operation (waiting for a callback in progress);
\* then 4 on a timeout, 0 without a cert_id argument, else 5.
WaitReturns ==
    /\ pc = "wait"
    /\ ops' = FALSE
    /\ Return(CASE ~done       -> 4
                [] ~cmd.certId -> 0
                [] OTHER       -> 5)
    /\ UNCHANGED <<cmd, request, done, reply, doneBy, interrupted, failed>>

Main == OptionsExit \/ BuildFails \/ CertFileError \/ ExecFails \/ Exec \/ WaitReturns

Next == Main \/ ResultCallback \/ SigIntHandler

Spec == Init /\ [][Next]_vars

-----------------------------------------------------------------------------
(* Properties                                                              *)

\* The spec: -A, -R and -D are incompatible options (exit code 2).  A
\* command line with more than one of them sends no request.
Actions(c) == {f \in {"approve", "revoke", "deny"} : c[f]}

OneActionOnly == Cardinality(Actions(cmd)) > 1 => request = "none"

\* The spec: exit code 0 on success, 5 on a user interrupt.  When the CMS's
\* answer, not a SIGINT, ended the wait, main returns 0.
AnsweredExitsZero == pc = "exit" /\ doneBy = "reply" => code = 0

\* The spec: exit code 4 when the CMS cannot be reached (timeout), 6 for any
\* other error.  main returns 4 only when the CMS gave no answer.
TimeoutOnlyWithoutAnswer == pc = "exit" /\ code = 4 => reply = "none"

=============================================================================
