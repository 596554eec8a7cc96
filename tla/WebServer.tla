------------------------------ MODULE WebServer ------------------------------
(***************************************************************************)
(* The web process (server/server.go, cmd/cmd.go, manage/auth.go): it      *)
(* starts with no sessions, serves requests beside each other, takes       *)
(* commands from consoles one after the other, and ends when it is told to *)
(* or when it dies.  What the requests do is in the modules that extend    *)
(* this one; here they have a place, and "idle" is none.                   *)
(*                                                                         *)
(* A session is the name that its token stands for.  Sessions are kept by  *)
(* the token server in memory, are bound to names only, and are not        *)
(* touched when an account changes or is deleted.                          *)
(***************************************************************************)
EXTENDS Naturals, FiniteSets

CONSTANTS
    Threads,     \* requests that are served at once
    Consoles,    \* connections to the command port
    Names,       \* user names
    MaxRequests, MaxFaults    \* bounds

ASSUME ServerAssumption ==
    /\ "root" \in Names
    /\ MaxRequests \in Nat
    /\ MaxFaults \in Nat

VARIABLES
    proc,      \* the process; "stopping" is between the command and its end
    listening, \* the loop over commands is waiting, or clears the messages
    command,   \* what each console's goroutine hands to that loop
    sessions,  \* the names of the valid tokens
    at,        \* each request: the step it is to take next
    requests, faults

life == <<proc, listening, command, sessions>>
budgets == <<requests, faults>>
serverVars == <<life, at, budgets>>

Commands == {"shutdown", "clear message"}

(***************************************************************************)
(* finding_group, creating_group, inserting: CreateUserWithGroup and other *)
(* creations of users.     approving, setting_password: before db.Save     *)
(* truncating, writing: the two halves of os.WriteFile                     *)
(***************************************************************************)
Places ==
    {"idle", "finding_group", "creating_group", "inserting", "approving",
     "setting_password", "deleting", "saving_group", "updating_members",
     "deleting_group", "truncating", "writing"}

ServerTypeOK ==
    /\ proc \in {"down", "up", "stopping"}
    /\ listening \in {"waiting", "clearing"}
    /\ command \in [Consoles -> Commands \union {"none"}]
    /\ sessions \subseteq Names
    /\ at \in [Threads -> Places]
    /\ requests \in 0..MaxRequests
    /\ faults \in 0..MaxFaults

ServerInit ==
    /\ proc = "down"
    /\ listening = "waiting"
    /\ command = [c \in Consoles |-> "none"]
    /\ sessions = {}
    /\ at = [t \in Threads |-> "idle"]
    /\ requests = 0
    /\ faults = 0

Spend == requests < MaxRequests /\ requests' = requests + 1

Fault == faults < MaxFaults /\ faults' = faults + 1

\* A request is read from a connection and its handler called.
Begin(t) == proc = "up" /\ at[t] = "idle" /\ Spend

\* The process is there, and the handler is at place p.
At(t, p) == proc # "down" /\ at[t] = p

GoTo(t, p) == at' = [at EXCEPT ![t] = p]

-----------------------------------------------------------------------------
(* The life of the process                                                 *)

StartProcess ==
    /\ proc = "down"
    /\ proc' = "up"
    /\ sessions' = {}
    /\ UNCHANGED <<listening, command, at, budgets>>

\* The requests, sessions and connections are gone.
Die ==
    /\ proc' = "down"
    /\ listening' = "waiting"
    /\ command' = [c \in Consoles |-> "none"]
    /\ sessions' = {}
    /\ at' = [t \in Threads |-> "idle"]

\* Mutated form: the listener's error is not fatal, and nothing else ends the process
\* while a request is served.
ExitWhenIdle ==
    /\ proc = "stopping"
    /\ command = [c \in Consoles |-> "none"]
    /\ Die
    /\ UNCHANGED budgets

\* Shutdown makes ListenAndServe return, and log.Fatalf ends the process; main would
\* return when Shutdown has seen the last request off.  Either may be first.
Exit ==
    /\ proc = "stopping"
    /\ Die
    /\ UNCHANGED budgets

Crash ==
    /\ proc # "down"
    /\ Fault
    /\ Die
    /\ UNCHANGED requests

-----------------------------------------------------------------------------
(* Commands                                                                *)

SendCommand(c, word) ==
    /\ proc # "down"
    /\ command[c] = "none"
    /\ Spend
    /\ command' = [command EXCEPT ![c] = word]
    /\ UNCHANGED <<proc, listening, sessions, at, faults>>

\* The loop takes the command from the channel; the console is told "ok", before
\* anything has been done.
Receive(c) ==
    /\ proc = "up"
    /\ listening = "waiting"
    /\ command[c] # "none"
    /\ command' = [command EXCEPT ![c] = "none"]
    /\ IF command[c] = "shutdown"
       THEN proc' = "stopping" /\ UNCHANGED listening
       ELSE listening' = "clearing" /\ UNCHANGED proc
    /\ UNCHANGED <<sessions, at, budgets>>

\* ClearMessages is done, or has failed.
Cleared ==
    /\ proc = "up"
    /\ listening = "clearing"
    /\ listening' = "waiting"
    /\ UNCHANGED <<proc, command, sessions, at, budgets>>

-----------------------------------------------------------------------------
(* Sessions                                                                *)

\* GenerateToken, called when the password and the approval have been checked
OpenSession(n) ==
    /\ proc = "up"
    /\ n \notin sessions
    /\ sessions' = sessions \union {n}
    /\ UNCHANGED <<proc, listening, command, at, budgets>>

\* Nobody has used the token for three hours.
Expire(n) ==
    /\ proc # "down"
    /\ n \in sessions
    /\ sessions' = sessions \ {n}
    /\ UNCHANGED <<proc, listening, command, at, budgets>>

\* A statement of the request fails: its handler answers with an error and undoes nothing.
StatementFails(t) ==
    /\ proc # "down"
    /\ at[t] # "idle"
    /\ Fault
    /\ GoTo(t, "idle")
    /\ UNCHANGED <<life, requests>>
=============================================================================
