----------------------------- MODULE MessageBoard -----------------------------
(***************************************************************************)
(* data/message.txt and the handlers that write it (web/message.go,        *)
(* web/delete.go).  A message is one line.  Posting appends a line;        *)
(* deleting reads the file and rewrites it with os.WriteFile, which first  *)
(* truncates the file and then writes from its start; the console's "clear *)
(* message" truncates it.                                                  *)
(***************************************************************************)
EXTENDS WebServer, SequencesExt

VARIABLES
    file,       \* the lines of message.txt, messages numbered as they were posted
    kept,       \* each deletion: the lines it is to write
    index,      \* and the place of the line it leaves out
    posts,      \* how many messages were posted
    board,      \* history: the messages that were posted and not deleted
    overlapped  \* history: something came between the steps of a deletion

boardVars == <<file, kept, index, posts, board, overlapped>>

Messages == 1..MaxRequests

BoardTypeOK ==
    /\ file \in Seq(Messages)
    /\ kept \in [Threads -> Seq(Messages)]
    /\ index \in [Threads -> Nat]
    /\ posts \in 0..MaxRequests
    /\ board \in Seq(Messages)
    /\ overlapped \in BOOLEAN

BoardInit ==
    /\ file = <<>>
    /\ kept = [t \in Threads |-> <<>>]
    /\ index = [t \in Threads |-> 0]
    /\ posts = 0
    /\ board = <<>>
    /\ overlapped = FALSE

Rewriters == {t \in Threads : at[t] \in {"truncating", "writing"}}

\* t has to itself what it does to the file, or this is noted.
Disturbs(t) == overlapped' = (overlapped \/ Rewriters \ {t} # {})

\* The file is opened with O_APPEND and written once.
MessageHandler(t) ==
    /\ proc = "up" /\ at[t] = "idle" /\ Spend
    /\ posts' = posts + 1
    /\ file' = Append(file, posts')
    /\ board' = Append(board, posts')
    /\ Disturbs(t)
    /\ UNCHANGED <<life, at, faults, kept, index>>

\* The lines are read, and the one at i left out.
DeleteMessage(t, i) ==
    /\ Begin(t)
    /\ i \in DOMAIN file
    /\ kept' = [kept EXCEPT ![t] = RemoveAt(file, i)]
    /\ index' = [index EXCEPT ![t] = i]
    /\ GoTo(t, "truncating")
    /\ UNCHANGED <<life, faults, file, posts, board, overlapped>>

\* Mutated form: the file is opened without O_TRUNC.
OpenFile(t) ==
    /\ At(t, "truncating")
    /\ GoTo(t, "writing")
    /\ Disturbs(t)
    /\ UNCHANGED <<life, budgets, file, kept, index, posts, board>>

TruncateFile(t) ==
    /\ At(t, "truncating")
    /\ file' = <<>>
    /\ GoTo(t, "writing")
    /\ Disturbs(t)
    /\ UNCHANGED <<life, budgets, kept, index, posts, board>>

\* The lines are written from the start; what was appended since, beyond them, stays.
WriteLines(t) ==
    /\ At(t, "writing")
    /\ file' = kept[t] \o SubSeq(file, Len(kept[t]) + 1, Len(file))
    /\ board' = IF index[t] \in DOMAIN board THEN RemoveAt(board, index[t]) ELSE board
    /\ kept' = [kept EXCEPT ![t] = <<>>]
    /\ index' = [index EXCEPT ![t] = 0]
    /\ GoTo(t, "idle")
    /\ Disturbs(t)
    /\ UNCHANGED <<life, budgets, posts>>

\* ClearMessages, called by the loop over commands
ClearMessages ==
    /\ Cleared
    /\ file' = <<>>
    /\ board' = <<>>
    /\ overlapped' = (overlapped \/ Rewriters # {})
    /\ UNCHANGED <<kept, index, posts>>

\* The process has died: a file that was truncated stays so.
AbandonBoard ==
    /\ kept' = [t \in Threads |-> <<>>]
    /\ index' = [t \in Threads |-> 0]
    /\ overlapped' = (overlapped \/ \E t \in Threads : at[t] = "writing")
    /\ UNCHANGED <<file, posts, board>>

\* A deletion has failed, perhaps with half of it done.
AbandonDeletion(t) ==
    /\ kept' = [kept EXCEPT ![t] = <<>>]
    /\ index' = [index EXCEPT ![t] = 0]
    /\ overlapped' = (overlapped \/ at[t] = "writing")
    /\ UNCHANGED <<file, posts, board>>

BoardNext ==
    \/ ClearMessages
    \/ \E t \in Threads :
        \/ MessageHandler(t)
        \/ \E i \in DOMAIN file : DeleteMessage(t, i)
        \/ TruncateFile(t)
        \/ WriteLines(t)
=============================================================================
