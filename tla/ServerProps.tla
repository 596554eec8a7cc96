----------------------------- MODULE ServerProps -----------------------------
(***************************************************************************)
(* What the web process is expected to guarantee.                          *)
(***************************************************************************)
EXTENDS Server

(***************************************************************************)
(* An account is what the requests on it have asked for: each changes its  *)
(* one column, and a deleted account stays deleted, although db.Save       *)
(* writes whole rows as they were read.  This holds for every account that *)
(* nobody wrote while another request held a copy of it.                   *)
(***************************************************************************)
SavedAsIntended ==
    \A u \in users \union wanted : u.id \notin crossed => u \in users /\ u \in wanted

(***************************************************************************)
(* Every account that was given a group can be decided about: its group    *)
(* exists.  Nothing in SQLite sees to this; it holds unless a group is     *)
(* deleted while somebody enters it, after the members were counted.       *)
(***************************************************************************)
MembersHaveGroups ==
    ~raced => \A u \in users : u.group # "" => HasGroup(u.group)

(***************************************************************************)
(* The message file has the messages that were posted and not deleted, in  *)
(* their order, unless something came between the reading and the          *)
(* rewriting of a deletion.                                                *)
(***************************************************************************)
BoardAsPosted ==
    ~overlapped => file = board \/ \E t \in Threads : at[t] = "writing"

(***************************************************************************)
(* A console that has sent a command is answered, or the process ends:     *)
(* the loop over commands never leaves a sender waiting for ever, not even *)
(* after it was told to shut down.                                         *)
(***************************************************************************)
CommandsAnswered == \A c \in Consoles : command[c] # "none" ~> command[c] = "none"
=============================================================================
