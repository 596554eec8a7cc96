------------------------------- MODULE MCServer -------------------------------
(* Finite instances of the web process for TLC.                            *)
EXTENDS ServerProps, TLC

CONSTANTS t1, t2, c1

\* Root, somebody who has registered for the class, and a club without members.
Root == [id |-> 1, name |-> "root", group |-> "super", approved |-> TRUE,
         password |-> "first", rating |-> "initial", creator |-> "root"]
Pupil == [id |-> 2, name |-> "bob", group |-> "class", approved |-> FALSE,
          password |-> "first", rating |-> "initial", creator |-> "root"]
School == [id |-> 1, name |-> "super", power |-> TRUE, creator |-> "super"]
Class == [id |-> 2, name |-> "class", power |-> FALSE, creator |-> "root"]
Club == [id |-> 3, name |-> "club", power |-> FALSE, creator |-> "root"]

SomeUsers == {Root, Pupil}
SomeGroups == {School, Class, Club}

\* A new member of the club, and one whose name is taken.
SomeImports == {<<[name |-> "eve", group |-> "club"], [name |-> "bob", group |-> "club"]>>}
=============================================================================
