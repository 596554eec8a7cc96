-------------------------------- MODULE Server --------------------------------
(***************************************************************************)
(* The web process with its accounts and its message board: requests on    *)
(* both are served beside each other, and all of them end when the process *)
(* does.                                                                   *)
(***************************************************************************)
EXTENDS Accounts, MessageBoard

vars == <<serverVars, accountVars, boardVars>>

TypeOK == ServerTypeOK /\ AccountsTypeOK /\ BoardTypeOK

Init == ServerInit /\ AccountsInit /\ BoardInit

\* StartServer
Start == StartProcess /\ EnsureSuperGroupAndRoot /\ UNCHANGED boardVars

Stop == (Exit \/ Crash) /\ ForgetRequests /\ AbandonBoard

Fail(t) ==
    /\ StatementFails(t) /\ ForgetRequest(t) /\ AbandonDeletion(t)
    /\ UNCHANGED <<tables, ghosts>>

Console(c) ==
    /\ Receive(c) \/ \E word \in Commands : SendCommand(c, word)
    /\ UNCHANGED <<accountVars, boardVars>>

TokenExpires(n) == Expire(n) /\ UNCHANGED <<accountVars, boardVars>>

Next ==
    \/ Start
    \/ Stop
    \/ \E t \in Threads : Fail(t)
    \/ \E c \in Consoles : Console(c)
    \/ \E n \in Names : TokenExpires(n)
    \/ AccountsNext /\ UNCHANGED boardVars
    \/ BoardNext /\ UNCHANGED accountVars

Spec == Init /\ [][Next]_vars

\* The loop over commands goes on and serves the senders that wait for it in their order,
\* and log.Fatalf ends the process.
Fairness ==
    /\ \A c \in Consoles : SF_vars(Receive(c) /\ UNCHANGED <<accountVars, boardVars>>)
    /\ WF_vars(ClearMessages /\ UNCHANGED accountVars)
    /\ WF_vars(Exit /\ ForgetRequests /\ AbandonBoard)

FairSpec == Spec /\ Fairness
=============================================================================
