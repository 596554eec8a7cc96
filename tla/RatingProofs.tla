----------------------------- MODULE RatingProofs -----------------------------
(***************************************************************************)
(* Theorems on rating settlement, for every number of contests, users,     *)
(* tickers and recompute requests, and with either kind of transaction.    *)
(***************************************************************************)
EXTENDS RatingProps, TLAPS

LEMMA NoChangesType == NoChanges \in Ratings
  BY DEF NoChanges, Ratings

LEMMA TypeInit == Init => TypeOK
  BY RatingAssumption, NoChangesType DEF Init, TypeOK, Places, Contests

\* Storing the changes of a contest over well-typed ratings keeps them well typed.
LEMMA StoreType ==
    ASSUME TypeOK, NEW c \in Contests, NEW base \in Ratings, Store(c, base)
    PROVE  /\ rating' \in Ratings
           /\ batches' \in [Contests -> Nat]
           /\ testVisible' \subseteq Problems
           /\ faults' \in 0..MaxFaults
<1>1. rating' \in Ratings
  <2>1. \A u \in Users : base[u] \in Seq(Contests \union {0})
    BY DEF Ratings
  <2>2. \A u \in Users : Append(base[u], c) \in Seq(Contests \union {0})
    BY <2>1
  <2>3. \A u \in Users : rating[u] \in Seq(Contests \union {0})
    BY DEF TypeOK, Ratings
  <2>4. QED
    BY <2>2, <2>3 DEF Store, Ratings
<1>2. batches' \in [Contests -> Nat]
  BY DEF Store, TypeOK
<1>3. testVisible' \subseteq Problems
  BY RatingAssumption DEF Store, TypeOK
<1>4. faults' \in 0..MaxFaults
  BY RatingAssumption DEF Store, TypeOK, Fault
<1>5. QED
  BY <1>1, <1>2, <1>3, <1>4

\* A settler in the middle of a settlement has a contest, and tickers do not rebuild.
LEMMA PlacedInit == Init => Placed
  BY DEF Init, Placed, Settling, Settlers

LEMMA PlacedStep == TypeOK /\ Placed /\ [Next]_vars => Placed'
<1> SUFFICES ASSUME TypeOK, Placed, [Next]_vars
             PROVE  Placed'
  OBVIOUS
<1> USE DEF Placed, GoTo, Settling
<1>1. CASE ContestEnds
  BY <1>1 DEF ContestEnds, threads
<1>2. ASSUME NEW t \in Tickers, ListEndedWithoutRating(t)
      PROVE  Placed'
  BY <1>2 DEF ListEndedWithoutRating, TypeOK
<1>3. ASSUME NEW t \in Settlers, Settle(t)
      PROVE  Placed'
  <2>1. CASE ReadContest(t)
    <3>1. PICK c \in Contests : \/ pc' = [pc EXCEPT ![t] = "read"] /\ cur' = [cur EXCEPT ![t] = c]
                               \/ UNCHANGED <<pc, cur>>
      BY <2>1 DEF ReadContest
    <3>2. CASE pc' = [pc EXCEPT ![t] = "read"] /\ cur' = [cur EXCEPT ![t] = c]
      BY <3>2 DEF TypeOK
    <3>3. CASE UNCHANGED <<pc, cur>>
      BY <3>3
    <3>4. QED
      BY <3>1, <3>2, <3>3
  <2>2. CASE MarkSettled(t)
    BY <2>2 DEF MarkSettled, TypeOK
  <2>3. CASE RankPlayers(t)
    BY <2>3 DEF RankPlayers, TypeOK
  <2>4. CASE ReadRatings(t)
    BY <2>4 DEF ReadRatings, TypeOK
  <2>5. CASE StoreRatings(t)
    BY <2>5 DEF StoreRatings, TypeOK
  <2>6. CASE SettlementFails(t)
    BY <2>6 DEF SettlementFails, TypeOK
  <2>7. CASE LoopEnds(t)
    BY <2>7 DEF LoopEnds, TypeOK
  <2>8. QED
    BY <1>3, <2>1, <2>2, <2>3, <2>4, <2>5, <2>6, <2>7 DEF Settle
<1>4. ASSUME NEW t \in Settlers, Crash(t)
      PROVE  Placed'
  BY <1>4 DEF Crash, TypeOK
<1>5. ASSUME NEW t \in Admins, RecomputeAllRatings(t)
      PROVE  Placed'
  <2>1. t \notin Tickers
    BY RatingAssumption
  <2>2. CASE ResetRatings(t)
    BY <2>1, <2>2 DEF ResetRatings, TypeOK
  <2>3. CASE WipeHistory(t)
    BY <2>1, <2>3 DEF WipeHistory, TypeOK
  <2>4. CASE ClearFlags(t)
    BY <2>1, <2>4 DEF ClearFlags, TypeOK
  <2>5. CASE ListContests(t)
    BY <2>1, <2>5 DEF ListContests, TypeOK
  <2>6. CASE RebuildFails(t)
    BY <2>1, <2>6 DEF RebuildFails, TypeOK
  <2>7. QED
    BY <1>5, <2>2, <2>3, <2>4, <2>5, <2>6 DEF RecomputeAllRatings
<1>6. ASSUME NEW u \in Users, SetRating(u)
      PROVE  Placed'
  BY <1>6 DEF SetRating, threads
<1>7. ASSUME NEW c \in Contests, DeleteContest(c)
      PROVE  Placed'
  BY <1>7 DEF DeleteContest, UnlinkProblems, DeleteHistory, DeleteRow, threads
<1>8. CASE UNCHANGED vars
  BY <1>8 DEF vars, threads
<1>9. QED
  BY <1>1, <1>2, <1>3, <1>4, <1>5, <1>6, <1>7, <1>8 DEF Next

LEMMA TypeStep == TypeOK /\ Placed /\ [Next]_vars => TypeOK'
<1> SUFFICES ASSUME TypeOK, Placed, [Next]_vars
             PROVE  TypeOK'
  OBVIOUS
<1> USE DEF TypeOK, GoTo, tables, threads, budgets, ghosts, Disturb
<1>1. CASE ContestEnds
  BY <1>1, RatingAssumption DEF ContestEnds
<1>2. ASSUME NEW t \in Tickers, ListEndedWithoutRating(t)
      PROVE  TypeOK'
  BY <1>2 DEF ListEndedWithoutRating, Ended, Settlers, Places
<1>3. ASSUME NEW t \in Settlers, Settle(t)
      PROVE  TypeOK'
  <2>1. CASE ReadContest(t)
    <3>1. PICK c \in Contests :
            /\ todo' = [todo EXCEPT ![t] = @ \ {c}]
            /\ \/ pc' = [pc EXCEPT ![t] = "read"] /\ cur' = [cur EXCEPT ![t] = c]
               \/ UNCHANGED <<pc, cur>>
      BY <2>1 DEF ReadContest
    <3>2. UNCHANGED <<ended, tables, snap, budgets, ghosts>>
      BY <2>1 DEF ReadContest
    <3>3. pc' \in [Settlers -> Places] /\ cur' \in [Settlers -> Contests \union {0}]
      BY <3>1 DEF Places, Settling
    <3>4. todo' \in [Settlers -> SUBSET Contests]
      BY <3>1
    <3>5. QED
      BY <3>2, <3>3, <3>4
  <2>2. CASE MarkSettled(t)
    BY <2>2 DEF MarkSettled, Places, Settling
  <2>3. CASE RankPlayers(t)
    BY <2>3 DEF RankPlayers, Places, Settling
  <2>4. CASE ReadRatings(t)
    BY <2>4 DEF ReadRatings, Places, Settling
  <2>5. CASE StoreRatings(t)
    <3>1. cur[t] \in Contests
      BY <2>5 DEF StoreRatings, Placed, Settling
    <3>2. snap[t] \in Ratings
      OBVIOUS
    <3>3. /\ rating' \in Ratings
          /\ batches' \in [Contests -> Nat]
          /\ testVisible' \subseteq Problems
          /\ faults' \in 0..MaxFaults
      <4>1. CASE SerialTx
        BY <2>5, <3>1, <4>1, StoreType DEF StoreRatings
      <4>2. CASE ~SerialTx
        BY <2>5, <3>1, <3>2, <4>2, StoreType DEF StoreRatings
      <4>3. QED
        BY <4>1, <4>2
    <3>4. QED
      BY <2>5, <3>3, NoChangesType DEF StoreRatings, Places
  <2>6. CASE SettlementFails(t)
    BY <2>6, NoChangesType, RatingAssumption DEF SettlementFails, Fault, Places
  <2>7. CASE LoopEnds(t)
    BY <2>7 DEF LoopEnds, Places
  <2>8. QED
    BY <1>3, <2>1, <2>2, <2>3, <2>4, <2>5, <2>6, <2>7 DEF Settle
<1>4. ASSUME NEW t \in Settlers, Crash(t)
      PROVE  TypeOK'
  BY <1>4, NoChangesType, RatingAssumption DEF Crash, Fault, Places
<1>5. ASSUME NEW t \in Admins, RecomputeAllRatings(t)
      PROVE  TypeOK'
  <2>1. CASE ResetRatings(t)
    <3>1. solo' \subseteq Admins
      BY <2>1 DEF ResetRatings
    <3>2. rebuilds' \in 0..MaxRebuilds
      BY <2>1, RatingAssumption DEF ResetRatings
    <3>3. QED
      BY <2>1, <3>1, <3>2, NoChangesType DEF ResetRatings, Places
  <2>2. CASE WipeHistory(t)
    BY <2>2 DEF WipeHistory, Places
  <2>3. CASE ClearFlags(t)
    BY <2>3 DEF ClearFlags, Places
  <2>4. CASE ListContests(t)
    BY <2>4 DEF ListContests, Ended, Places, Settlers
  <2>5. CASE RebuildFails(t)
    <3>1. faults' \in 0..MaxFaults
      BY <2>5, RatingAssumption DEF RebuildFails, Fault
    <3>2. pc' \in [Settlers -> Places]
      BY <2>5 DEF RebuildFails, Places
    <3>3. solo' \subseteq Admins
      BY <2>5 DEF RebuildFails
    <3>4. QED
      BY <2>5, <3>1, <3>2, <3>3 DEF RebuildFails
  <2>6. QED
    BY <1>5, <2>1, <2>2, <2>3, <2>4, <2>5 DEF RecomputeAllRatings
<1>6. ASSUME NEW u \in Users, SetRating(u)
      PROVE  TypeOK'
  <2>1. rating' \in Ratings
    <3>1. <<0>> \in Seq(Contests \union {0})
      OBVIOUS
    <3>2. QED
      BY <1>6, <3>1 DEF SetRating, Ratings
  <2>2. edits' \in 0..MaxEdits
    BY <1>6, RatingAssumption DEF SetRating
  <2>3. QED
    BY <1>6, <2>1, <2>2 DEF SetRating
<1>7. ASSUME NEW c \in Contests, DeleteContest(c)
      PROVE  TypeOK'
  <2>1. CASE UnlinkProblems(c)
    BY <2>1, RatingAssumption DEF UnlinkProblems
  <2>2. CASE DeleteHistory(c)
    BY <2>2 DEF DeleteHistory
  <2>3. CASE DeleteRow(c)
    BY <2>3 DEF DeleteRow
  <2>4. QED
    BY <1>7, <2>1, <2>2, <2>3 DEF DeleteContest
<1>8. CASE UNCHANGED vars
  BY <1>8 DEF vars
<1>9. QED
  BY <1>1, <1>2, <1>3, <1>4, <1>5, <1>6, <1>7, <1>8 DEF Next

(***************************************************************************)
(* Every reachable state is well typed.                                    *)
(***************************************************************************)
THEOREM TypeCorrect == Spec => []TypeOK
<1>1. Init => TypeOK /\ Placed
  BY TypeInit, PlacedInit
<1>2. TypeOK /\ Placed /\ [Next]_vars => (TypeOK /\ Placed)'
  BY TypeStep, PlacedStep
<1>3. QED
  BY <1>1, <1>2, PTL DEF Spec

-----------------------------------------------------------------------------
(* Ratings agree with their history while settlements do not overlap.      *)

\* A settler at work goes on.
LEMMA SeparateMove ==
    ASSUME TypeOK, Separate, NEW t \in Settlers, pc[t] # "idle",
           NEW place, place # "idle", GoTo(t, place), UNCHANGED ghosts
    PROVE  Separate'
<1>1. \A u \in Settlers : u # t => pc'[u] = pc[u]
  BY DEF GoTo, TypeOK
<1>2. pc'[t] # "idle"
  BY DEF GoTo, TypeOK
<1>3. \A u \in Settlers : pc'[u] # "idle" => pc[u] # "idle"
  BY <1>1
<1>4. \A u \in Settlers : Alone(u) => Alone(u)'
  BY <1>3 DEF Alone
<1>5. \A u \in Admins : u \in Settlers
  BY DEF Settlers
<1>6. solo \subseteq Settlers
  BY <1>5 DEF TypeOK
<1>7. tidy' = tidy /\ solo' = solo
  BY DEF ghosts
<1>8. tidy => \A u \in Admins : pc'[u] = "idle"
  BY <1>1, <1>5 DEF Separate
<1>9. tidy => \A u \in Settlers : pc'[u] # "idle" => Alone(u)'
  BY <1>3, <1>4 DEF Separate
<1>10. \A u \in solo : pc'[u] # "idle" /\ Alone(u)'
  BY <1>1, <1>2, <1>4, <1>6 DEF Separate
<1>11. QED
  BY <1>7, <1>8, <1>9, <1>10 DEF Separate

\* A settler stops.
LEMMA SeparateStop ==
    ASSUME TypeOK, Separate, NEW t \in Settlers, pc[t] # "idle",
           GoTo(t, "idle"), solo' = solo \ {t}, tidy' \in BOOLEAN,
           tidy' => tidy \/ t \in solo
    PROVE  Separate'
<1>1. /\ pc'[t] = "idle"
      /\ \A u \in Settlers : u # t => pc'[u] = pc[u]
  BY DEF GoTo, TypeOK
<1>2. \A u \in Settlers : pc'[u] # "idle" => pc[u] # "idle"
  BY <1>1
<1>3. \A u \in Settlers : Alone(u) => Alone(u)'
  BY <1>2 DEF Alone
<1>4. \A u \in Admins : u \in Settlers
  BY DEF Settlers
<1>5. solo \subseteq Settlers
  BY <1>4 DEF TypeOK
<1>6. \A u \in solo : u # t => pc'[u] # "idle" /\ Alone(u)'
  BY <1>1, <1>3, <1>5 DEF Separate
<1>7. CASE tidy
  BY <1>1, <1>2, <1>3, <1>4, <1>6, <1>7 DEF Separate
<1>8. CASE t \in solo
  <2>1. Alone(t)
    BY <1>8 DEF Separate
  <2>2. \A u \in Settlers : pc'[u] = "idle"
    BY <2>1, <1>1 DEF Alone
  <2>3. solo' = {}
    BY <2>2, <1>5, <1>6
  <2>4. QED
    BY <2>2, <2>3, <1>4 DEF Separate
<1>9. CASE ~tidy /\ t \notin solo
  BY <1>6, <1>9 DEF Separate
<1>10. QED
  BY <1>7, <1>8, <1>9

LEMMA SeparateStep == TypeOK /\ Separate /\ [Next]_vars => Separate'
<1> SUFFICES ASSUME TypeOK, Separate, [Next]_vars
             PROVE  Separate'
  OBVIOUS
<1>1. ASSUME UNCHANGED <<pc, ghosts>>
      PROVE  Separate'
  BY <1>1 DEF Separate, Alone, ghosts
<1>2. ASSUME UNCHANGED pc, Disturb
      PROVE  Separate'
  BY <1>2 DEF Separate, Disturb
<1>3. CASE ContestEnds
  BY <1>1, <1>3 DEF ContestEnds, threads
<1>4. ASSUME NEW t \in Tickers, ListEndedWithoutRating(t)
      PROVE  Separate'
  <2>1. t \in Settlers /\ t \notin Admins
    BY RatingAssumption DEF Settlers
  <2>2. /\ pc'[t] = "next"
        /\ \A u \in Settlers : u # t => pc'[u] = pc[u]
    BY <1>4, <2>1 DEF ListEndedWithoutRating, GoTo, TypeOK
  <2>3. solo' = {} /\ tidy' = (tidy /\ Alone(t))
    BY <1>4 DEF ListEndedWithoutRating
  <2>4. CASE tidy /\ Alone(t)
    <3>1. \A u \in Settlers : u # t => pc'[u] = "idle"
      BY <2>2, <2>4 DEF Alone
    <3>2. \A u \in Admins : u \in Settlers
      BY DEF Settlers
    <3>3. QED
      BY <2>1, <2>3, <3>1, <3>2 DEF Separate, Alone
  <2>5. CASE ~(tidy /\ Alone(t))
    BY <2>3, <2>5 DEF Separate
  <2>6. QED
    BY <2>4, <2>5
<1>5. ASSUME NEW t \in Settlers, Settle(t)
      PROVE  Separate'
  <2>1. CASE ReadContest(t)
    <3>1. PICK c \in Contests : GoTo(t, "read") \/ UNCHANGED pc
      BY <2>1 DEF ReadContest
    <3>2. QED
      BY <2>1, <3>1, <1>1, SeparateMove DEF ReadContest
  <2>2. CASE MarkSettled(t)
    BY <2>2, SeparateMove DEF MarkSettled
  <2>3. CASE RankPlayers(t)
    BY <2>3, SeparateMove DEF RankPlayers
  <2>4. CASE ReadRatings(t)
    BY <2>4, SeparateMove DEF ReadRatings
  <2>5. CASE StoreRatings(t)
    <3>1. pc[t] # "idle"
      BY <2>5 DEF StoreRatings
    <3>2. QED
      BY <2>5, <3>1, SeparateMove DEF StoreRatings
  <2>6. CASE SettlementFails(t)
    BY <2>6, SeparateMove DEF SettlementFails, Settling
  <2>7. CASE LoopEnds(t)
    BY <2>7, SeparateStop DEF LoopEnds, TypeOK
  <2>8. QED
    BY <1>5, <2>1, <2>2, <2>3, <2>4, <2>5, <2>6, <2>7 DEF Settle
<1>6. ASSUME NEW t \in Settlers, Crash(t)
      PROVE  Separate'
  BY <1>6, SeparateStop DEF Crash, TypeOK
<1>7. ASSUME NEW t \in Admins, RecomputeAllRatings(t)
      PROVE  Separate'
  <2>1. t \in Settlers
    BY DEF Settlers
  <2>2. CASE ResetRatings(t)
    <3>1. /\ pc'[t] = "reset"
          /\ \A u \in Settlers : u # t => pc'[u] = pc[u]
      BY <2>1, <2>2 DEF ResetRatings, GoTo, TypeOK
    <3>2. Alone(t) => Alone(t)'
      BY <3>1 DEF Alone
    <3>3. QED
      BY <2>2, <3>1, <3>2 DEF ResetRatings, Separate
  <2>3. CASE WipeHistory(t)
    BY <2>1, <2>3, SeparateMove DEF WipeHistory
  <2>4. CASE ClearFlags(t)
    BY <2>1, <2>4, SeparateMove DEF ClearFlags
  <2>5. CASE ListContests(t)
    BY <2>1, <2>5, SeparateMove DEF ListContests
  <2>6. CASE RebuildFails(t)
    BY <2>1, <2>6, SeparateStop DEF RebuildFails, TypeOK
  <2>7. QED
    BY <1>7, <2>2, <2>3, <2>4, <2>5, <2>6 DEF RecomputeAllRatings
<1>8. ASSUME NEW u \in Users, SetRating(u)
      PROVE  Separate'
  BY <1>2, <1>8 DEF SetRating, threads
<1>9. ASSUME NEW c \in Contests, DeleteContest(c)
      PROVE  Separate'
  BY <1>1, <1>2, <1>9
     DEF DeleteContest, UnlinkProblems, DeleteHistory, DeleteRow, threads
<1>10. CASE UNCHANGED vars
  BY <1>1, <1>10 DEF vars, threads
<1>11. QED
  BY <1>3, <1>4, <1>5, <1>6, <1>7, <1>8, <1>9, <1>10 DEF Next

\* A rebuild in solo is the only settler at work.
LEMMA SoloIsAlone ==
    ASSUME TypeOK, Separate, NEW t \in Settlers, pc[t] # "idle"
    PROVE  solo \subseteq {t}
  BY DEF Separate, Alone, TypeOK, Settlers

LEMMA RebuildingStep == TypeOK /\ Separate /\ Rebuilding /\ [Next]_vars => Rebuilding'
<1> SUFFICES ASSUME TypeOK, Separate, Rebuilding, [Next]_vars
             PROVE  Rebuilding'
  OBVIOUS
<1>1. ASSUME UNCHANGED <<pc, rating, batches, ghosts>>
      PROVE  Rebuilding'
  BY <1>1 DEF Rebuilding, ghosts
<1>2. ASSUME solo' = {}
      PROVE  Rebuilding'
  BY <1>2 DEF Rebuilding
<1>3. CASE ContestEnds
  BY <1>1, <1>3 DEF ContestEnds, tables, threads
<1>4. ASSUME NEW t \in Tickers, ListEndedWithoutRating(t)
      PROVE  Rebuilding'
  BY <1>2, <1>4 DEF ListEndedWithoutRating
<1>5. ASSUME NEW t \in Settlers, Settle(t)
      PROVE  Rebuilding'
  <2>1. pc[t] # "idle" /\ pc'[t] \notin {"reset", "wiped", "cleared"} /\ solo' \subseteq solo
    <3>1. CASE ReadContest(t)
      BY <3>1 DEF ReadContest, GoTo, TypeOK, ghosts
    <3>2. CASE MarkSettled(t) \/ RankPlayers(t) \/ ReadRatings(t)
      BY <3>2 DEF MarkSettled, RankPlayers, ReadRatings, GoTo, TypeOK, ghosts
    <3>3. CASE StoreRatings(t)
      BY <3>3 DEF StoreRatings, GoTo, TypeOK, ghosts
    <3>4. CASE SettlementFails(t) \/ LoopEnds(t)
      BY <3>4 DEF SettlementFails, LoopEnds, GoTo, TypeOK, ghosts, Settling
    <3>5. QED
      BY <1>5, <3>1, <3>2, <3>3, <3>4 DEF Settle
  <2>2. QED
    BY <2>1, SoloIsAlone DEF Rebuilding
<1>6. ASSUME NEW t \in Settlers, Crash(t)
      PROVE  Rebuilding'
  <2>1. solo \subseteq {t}
    BY <1>6, SoloIsAlone DEF Crash
  <2>2. QED
    BY <1>2, <1>6, <2>1 DEF Crash
<1>7. ASSUME NEW t \in Admins, RecomputeAllRatings(t)
      PROVE  Rebuilding'
  <2>1. t \in Settlers
    BY DEF Settlers
  <2>2. CASE ResetRatings(t)
    BY <2>1, <2>2 DEF ResetRatings, GoTo, TypeOK, Rebuilding
  <2>3. CASE WipeHistory(t)
    <3>1. solo \subseteq {t} /\ solo' = solo
      BY <2>1, <2>3, SoloIsAlone DEF WipeHistory, ghosts
    <3>2. QED
      BY <2>3, <3>1 DEF WipeHistory, Rebuilding
  <2>4. CASE ClearFlags(t)
    <3>1. solo \subseteq {t} /\ solo' = solo
      BY <2>1, <2>4, SoloIsAlone DEF ClearFlags, ghosts
    <3>2. QED
      BY <2>4, <3>1 DEF ClearFlags, Rebuilding
  <2>5. CASE ListContests(t)
    <3>1. solo \subseteq {t} /\ solo' = solo /\ pc'[t] = "next"
      BY <2>1, <2>5, SoloIsAlone DEF ListContests, ghosts, GoTo, TypeOK
    <3>2. QED
      BY <3>1 DEF Rebuilding
  <2>6. CASE RebuildFails(t)
    <3>1. solo \subseteq {t}
      BY <2>1, <2>6, SoloIsAlone DEF RebuildFails
    <3>2. QED
      BY <1>2, <2>6, <3>1 DEF RebuildFails
  <2>7. QED
    BY <1>7, <2>2, <2>3, <2>4, <2>5, <2>6 DEF RecomputeAllRatings
<1>8. ASSUME NEW u \in Users, SetRating(u)
      PROVE  Rebuilding'
  BY <1>2, <1>8 DEF SetRating, Disturb
<1>9. ASSUME NEW c \in Contests, DeleteContest(c)
      PROVE  Rebuilding'
  <2>1. CASE UnlinkProblems(c) \/ DeleteRow(c)
    BY <1>1, <2>1 DEF UnlinkProblems, DeleteRow, threads
  <2>2. CASE DeleteHistory(c) /\ batches[c] = 0
    BY <2>2 DEF DeleteHistory, Rebuilding, TypeOK, threads, ghosts
  <2>3. CASE DeleteHistory(c) /\ batches[c] # 0
    BY <1>2, <2>3 DEF DeleteHistory, Disturb
  <2>4. QED
    BY <1>9, <2>1, <2>2, <2>3 DEF DeleteContest
<1>10. CASE UNCHANGED vars
  BY <1>1, <1>10 DEF vars, tables, threads
<1>11. QED
  BY <1>3, <1>4, <1>5, <1>6, <1>7, <1>8, <1>9, <1>10 DEF Next

\* Storing a contest that has no history, over the ratings as they are, keeps ratings
\* and history consistent.
LEMMA StoreConsistent ==
    ASSUME TypeOK, Consistent, NEW c \in Contests, batches[c] = 0, settled[c],
           Store(c, rating), UNCHANGED settled
    PROVE  Consistent'
<1>1. \A d \in Contests : batches'[d] = IF d = c THEN 1 ELSE batches[d]
  BY DEF Store, TypeOK
<1>2. ASSUME NEW u \in Users
      PROVE  MatchesHistory(u)'
  <2>1. rating[u] \in Seq(Contests \union {0})
    BY DEF TypeOK, Ratings
  <2>2. MatchesHistory(u)
    BY DEF Consistent
  <2>3. CASE u \in Players[c]
    <3>1. rating'[u] = Append(rating[u], c)
      BY <2>3 DEF Store
    <3>2. \A i \in 1..Len(rating[u]) : rating[u][i] # c
      BY <2>2 DEF MatchesHistory, Entries
    <3>3. /\ Len(rating'[u]) = Len(rating[u]) + 1
          /\ rating'[u][Len(rating[u]) + 1] = c
          /\ \A i \in 1..Len(rating[u]) : rating'[u][i] = rating[u][i]
          /\ Len(rating[u]) \in Nat
      BY <2>1, <3>1
    <3>4. \A i \in 1..Len(rating'[u]) : i \in 1..Len(rating[u]) \/ i = Len(rating[u]) + 1
      BY <3>3
    <3>5. \A i, j \in 1..Len(rating'[u]) : rating'[u][i] = rating'[u][j] => i = j
      BY <2>2, <3>2, <3>3, <3>4 DEF MatchesHistory
    <3>6. Entries(rating'[u]) = Entries(rating[u]) \union {c}
      BY <3>3, <3>4 DEF Entries
    <3>7. Entries(rating'[u]) = {d \in Contests : batches'[d] > 0 /\ u \in Players[d]}
      BY <1>1, <2>2, <2>3, <3>6 DEF MatchesHistory
    <3>8. QED
      BY <3>5, <3>7 DEF MatchesHistory
  <2>4. CASE u \notin Players[c]
    <3>1. rating'[u] = rating[u]
      BY <2>4 DEF Store
    <3>2. Entries(rating'[u]) = {d \in Contests : batches'[d] > 0 /\ u \in Players[d]}
      BY <1>1, <2>2, <2>4, <3>1 DEF MatchesHistory
    <3>3. QED
      BY <2>2, <3>1, <3>2 DEF MatchesHistory
  <2>5. QED
    BY <2>3, <2>4
<1>3. \A d \in Contests : batches'[d] <= 1 /\ (batches'[d] = 1 => settled'[d])
  BY <1>1 DEF Consistent
<1>4. QED
  BY <1>2, <1>3 DEF Consistent

LEMMA UnsettledQuiet ==
    ASSUME Unsettled, UNCHANGED <<settled, rating, batches, threads, ghosts>>
    PROVE  Unsettled'
  BY DEF Unsettled, Healthy, Consistent, MatchesHistory, threads, ghosts

\* While the tables are healthy the settler at work is alone.
LEMMA HealthyAlone ==
    ASSUME TypeOK, Separate, Healthy, NEW t \in Settlers, pc[t] # "idle"
    PROVE  Alone(t)
  BY SoloIsAlone DEF Separate, Healthy

\* A step of the only settler at work, which leaves no settlement unfinished.
LEMMA UnsettledDone ==
    ASSUME TypeOK, NEW t \in Settlers, NEW place, Alone(t), GoTo(t, place),
           place \notin Settling, Consistent'
    PROVE  Unsettled'
<1>1. pc'[t] \notin Settling
  BY DEF GoTo, TypeOK
<1>2. \A u \in Settlers : u # t => pc'[u] = "idle"
  BY DEF GoTo, TypeOK, Alone
<1>3. \A u \in Settlers : pc'[u] \notin Settling
  BY <1>1, <1>2 DEF Settling
<1>4. QED
  BY <1>3 DEF Unsettled

\* The tables were healthy before a settlement's step if they are after it.
LEMMA HealthyBefore ==
    ASSUME TypeOK, Separate, NEW t \in Settlers, pc[t] \in {"next"} \union Settling,
           solo' \subseteq solo, tidy' => tidy \/ t \in solo, Healthy'
    PROVE  Healthy /\ Alone(t)
<1>1. pc[t] # "idle"
  BY DEF Settling
<1>2. solo \subseteq {t}
  BY <1>1, SoloIsAlone
<1>3. Healthy
  BY <1>2 DEF Healthy
<1>4. QED
  BY <1>1, <1>3, HealthyAlone

LEMMA SettleUnsettled ==
    ASSUME TypeOK, Placed, Separate, Unsettled, NEW t \in Settlers, Settle(t)
    PROVE  Unsettled'
<1> SUFFICES ASSUME Healthy'
             PROVE  Unsettled'
  BY DEF Unsettled
<1>1. /\ pc[t] \in {"next"} \union Settling
      /\ solo' \subseteq solo
      /\ tidy' => tidy \/ t \in solo
  <2>1. CASE ReadContest(t)
    BY <2>1 DEF ReadContest, ghosts
  <2>2. CASE MarkSettled(t) \/ RankPlayers(t) \/ ReadRatings(t)
    BY <2>2 DEF MarkSettled, RankPlayers, ReadRatings, Settling, ghosts
  <2>3. CASE StoreRatings(t)
    BY <2>3 DEF StoreRatings, Settling, ghosts
  <2>4. CASE SettlementFails(t)
    BY <2>4 DEF SettlementFails, ghosts
  <2>5. CASE LoopEnds(t)
    BY <2>5 DEF LoopEnds
  <2>6. QED
    BY <2>1, <2>2, <2>3, <2>4, <2>5 DEF Settle
<1>2. Healthy /\ Alone(t)
  BY <1>1, HealthyBefore
<1>3. Consistent
  BY <1>2 DEF Unsettled
<1>4. \A u \in Settlers : u # t => pc[u] \notin Settling
  BY <1>2 DEF Alone, Settling
<1>5. CASE ReadContest(t)
  <2>1. PICK c \in Contests :
          \/ /\ pc' = [pc EXCEPT ![t] = "read"]
             /\ cur' = [cur EXCEPT ![t] = c]
             /\ ~settled[c]
          \/ UNCHANGED <<pc, cur>>
    BY <1>5 DEF ReadContest, GoTo
  <2>2. /\ UNCHANGED <<settled, rating, batches, snap>>
        /\ Consistent'
    BY <1>3, <1>5 DEF ReadContest, tables, Consistent, MatchesHistory
  <2>3. CASE UNCHANGED <<pc, cur>>
    BY <1>2, <2>2, <2>3 DEF Unsettled
  <2>4. CASE /\ pc' = [pc EXCEPT ![t] = "read"]
             /\ cur' = [cur EXCEPT ![t] = c]
             /\ ~settled[c]
    <3>1. batches[c] = 0
      BY <1>3, <2>4 DEF Consistent, TypeOK
    <3>2. pc'[t] = "read" /\ cur'[t] = c
      BY <2>4 DEF TypeOK
    <3>3. \A u \in Settlers : u # t => pc'[u] \notin Settling
      BY <1>4, <2>4 DEF TypeOK
    <3>4. QED
      BY <2>2, <3>1, <3>2, <3>3 DEF Unsettled
  <2>5. QED
    BY <2>1, <2>3, <2>4
<1>6. CASE MarkSettled(t)
  <2>1. cur[t] \in Contests
    BY <1>6 DEF MarkSettled, Placed, Settling
  <2>2. /\ pc'[t] = "marked"
        /\ \A u \in Settlers : u # t => pc'[u] \notin Settling
    BY <1>4, <1>6 DEF MarkSettled, GoTo, TypeOK
  <2>3. /\ settled'[cur[t]]
        /\ \A c \in Contests : settled[c] => settled'[c]
    BY <1>6, <2>1 DEF MarkSettled, TypeOK
  <2>4. UNCHANGED <<rating, batches, cur, snap>>
    BY <1>6 DEF MarkSettled
  <2>5. Consistent'
    BY <1>3, <2>3, <2>4 DEF Consistent, MatchesHistory
  <2>6. batches[cur[t]] = 0
    BY <1>2, <1>6 DEF MarkSettled, Unsettled, Settling
  <2>7. QED
    BY <2>2, <2>3, <2>4, <2>5, <2>6 DEF Unsettled
<1>7. CASE RankPlayers(t)
  <2>1. /\ pc'[t] \in {"ranked", "next"}
        /\ \A u \in Settlers : u # t => pc'[u] \notin Settling
    BY <1>4, <1>7 DEF RankPlayers, GoTo, TypeOK
  <2>2. UNCHANGED <<settled, rating, batches, cur, snap>>
    BY <1>7 DEF RankPlayers, tables
  <2>3. batches[cur[t]] = 0 /\ settled[cur[t]]
    BY <1>2, <1>7 DEF RankPlayers, Unsettled, Settling
  <2>4. Consistent'
    BY <1>3, <2>2 DEF Consistent, MatchesHistory
  <2>5. QED
    BY <2>1, <2>2, <2>3, <2>4 DEF Unsettled
<1>8. CASE ReadRatings(t)
  <2>1. /\ pc'[t] = "computed"
        /\ snap'[t] = rating
        /\ \A u \in Settlers : u # t => pc'[u] \notin Settling
    BY <1>4, <1>8 DEF ReadRatings, GoTo, TypeOK
  <2>2. UNCHANGED <<settled, rating, batches, cur>>
    BY <1>8 DEF ReadRatings, tables
  <2>3. batches[cur[t]] = 0 /\ settled[cur[t]]
    BY <1>2, <1>8 DEF ReadRatings, Unsettled, Settling
  <2>4. Consistent'
    BY <1>3, <2>2 DEF Consistent, MatchesHistory
  <2>5. QED
    BY <2>1, <2>2, <2>3, <2>4 DEF Unsettled
<1>9. CASE StoreRatings(t)
  <2>1. pc[t] \in Settling \ {"read"}
    BY <1>9 DEF StoreRatings, Settling
  <2>2. cur[t] \in Contests /\ batches[cur[t]] = 0 /\ settled[cur[t]]
    BY <1>2, <2>1 DEF Placed, Unsettled
  <2>3. ~SerialTx => snap[t] = rating
    BY <1>2, <1>9, <2>1 DEF StoreRatings, Unsettled
  <2>4. Store(cur[t], rating) /\ UNCHANGED settled
    BY <1>9, <2>3 DEF StoreRatings
  <2>5. Consistent'
    BY <1>3, <2>2, <2>4, StoreConsistent
  <2>6. QED
    BY <1>2, <1>9, <2>5, UnsettledDone DEF StoreRatings, Settling
<1>10. CASE SettlementFails(t)
  <2>1. Consistent'
    BY <1>3, <1>10 DEF SettlementFails, tables, Consistent, MatchesHistory
  <2>2. QED
    BY <1>2, <1>10, <2>1, UnsettledDone DEF SettlementFails, Settling
<1>11. CASE LoopEnds(t)
  <2>1. Consistent'
    BY <1>3, <1>11 DEF LoopEnds, tables, Consistent, MatchesHistory
  <2>2. QED
    BY <1>2, <1>11, <2>1, UnsettledDone DEF LoopEnds, Settling
<1>12. QED
  BY <1>5, <1>6, <1>7, <1>8, <1>9, <1>10, <1>11 DEF Settle

LEMMA RebuildUnsettled ==
    ASSUME TypeOK, Separate, Rebuilding, Unsettled, NEW t \in Admins, RecomputeAllRatings(t)
    PROVE  Unsettled'
<1>1. t \in Settlers
  BY DEF Settlers
<1>2. ASSUME pc[t] # "idle", UNCHANGED tidy, solo' \subseteq solo,
             pc'[t] \notin {"next"} \union Settling
      PROVE  ~Healthy'
  <2>1. solo \subseteq {t}
    BY <1>1, <1>2, SoloIsAlone
  <2>2. ~tidy
    BY <1>2 DEF Separate
  <2>3. QED
    BY <1>2, <2>1, <2>2 DEF Healthy
<1>3. CASE ResetRatings(t)
  <2>1. pc'[t] = "reset" /\ solo' \subseteq {t} /\ tidy' = FALSE
    BY <1>1, <1>3 DEF ResetRatings, GoTo, TypeOK
  <2>2. ~Healthy'
    BY <2>1 DEF Healthy, Settling
  <2>3. QED
    BY <2>2 DEF Unsettled
<1>4. CASE WipeHistory(t) \/ ClearFlags(t) \/ RebuildFails(t)
  <2>1. /\ pc[t] # "idle"
        /\ UNCHANGED tidy
        /\ solo' \subseteq solo
        /\ pc'[t] \in {"wiped", "cleared", "idle"}
    BY <1>1, <1>4 DEF WipeHistory, ClearFlags, RebuildFails, GoTo, TypeOK, ghosts
  <2>2. ~Healthy'
    BY <1>2, <2>1 DEF Settling
  <2>3. QED
    BY <2>2 DEF Unsettled
<1>5. CASE ListContests(t)
  <2>1. solo \subseteq {t} /\ ~tidy
    BY <1>1, <1>5, SoloIsAlone DEF ListContests, Separate
  <2>2. solo' = solo /\ tidy' = tidy /\ UNCHANGED <<rating, batches, settled>>
    BY <1>5 DEF ListContests, ghosts, tables
  <2>3. CASE t \in solo
    <3>1. /\ rating = NoChanges
          /\ \A c \in Contests : batches[c] = 0
          /\ Alone(t)
      BY <1>5, <2>3 DEF ListContests, Rebuilding, Separate
    <3>2. ASSUME NEW u \in Users
          PROVE  MatchesHistory(u)
      <4>1. rating[u] = <<>> /\ Len(rating[u]) = 0
        BY <3>1 DEF NoChanges
      <4>2. Entries(rating[u]) = {}
        BY <4>1 DEF Entries
      <4>3. QED
        BY <3>1, <4>1, <4>2 DEF MatchesHistory
    <3>3. Consistent
      BY <3>1, <3>2 DEF Consistent
    <3>4. Consistent'
      BY <2>2, <3>3 DEF Consistent, MatchesHistory
    <3>5. QED
      BY <1>1, <1>5, <3>1, <3>4, UnsettledDone DEF ListContests, Settling
  <2>4. CASE t \notin solo
    BY <2>1, <2>2, <2>4 DEF Unsettled, Healthy
  <2>5. QED
    BY <2>3, <2>4
<1>6. QED
  BY <1>3, <1>4, <1>5 DEF RecomputeAllRatings

LEMMA UnsettledStep ==
    TypeOK /\ TidyInv /\ [Next]_vars => Unsettled'
<1> SUFFICES ASSUME TypeOK, Placed, Separate, Rebuilding, Unsettled, [Next]_vars
             PROVE  Unsettled'
  BY DEF TidyInv
<1>1. ASSUME Disturb
      PROVE  Unsettled'
  BY <1>1 DEF Disturb, Unsettled, Healthy
<1>2. CASE ContestEnds
  BY <1>2, UnsettledQuiet DEF ContestEnds, tables
<1>3. ASSUME NEW t \in Tickers, ListEndedWithoutRating(t)
      PROVE  Unsettled'
  <2>1. t \in Settlers
    BY DEF Settlers
  <2>2. solo' = {} /\ tidy' = (tidy /\ Alone(t)) /\ UNCHANGED <<settled, rating, batches>>
    BY <1>3 DEF ListEndedWithoutRating, tables
  <2>3. CASE tidy /\ Alone(t)
    <3>1. Consistent
      BY <2>3 DEF Unsettled, Healthy
    <3>2. Consistent'
      BY <2>2, <3>1 DEF Consistent, MatchesHistory
    <3>3. QED
      BY <1>3, <2>1, <2>3, <3>2, UnsettledDone DEF ListEndedWithoutRating, Settling
  <2>4. CASE ~(tidy /\ Alone(t))
    BY <2>2, <2>4 DEF Unsettled, Healthy
  <2>5. QED
    BY <2>3, <2>4
<1>4. ASSUME NEW t \in Settlers, Settle(t)
      PROVE  Unsettled'
  BY <1>4, SettleUnsettled
<1>5. ASSUME NEW t \in Settlers, Crash(t)
      PROVE  Unsettled'
  <2>1. solo' = {} /\ tidy' = tidy
    BY <1>5, SoloIsAlone DEF Crash
  <2>2. CASE tidy
    <3>1. Consistent /\ Alone(t)
      BY <1>5, <2>2 DEF Unsettled, Healthy, Separate, Crash
    <3>2. Consistent'
      BY <1>5, <3>1 DEF Crash, tables, Consistent, MatchesHistory
    <3>3. QED
      BY <1>5, <3>1, <3>2, UnsettledDone DEF Crash, Settling
  <2>3. CASE ~tidy
    BY <2>1, <2>3 DEF Unsettled, Healthy
  <2>4. QED
    BY <2>2, <2>3
<1>6. ASSUME NEW t \in Admins, RecomputeAllRatings(t)
      PROVE  Unsettled'
  BY <1>6, RebuildUnsettled
<1>7. ASSUME NEW u \in Users, SetRating(u)
      PROVE  Unsettled'
  BY <1>1, <1>7 DEF SetRating
<1>8. ASSUME NEW c \in Contests, DeleteContest(c)
      PROVE  Unsettled'
  <2>1. CASE UnlinkProblems(c) \/ DeleteRow(c)
    BY <2>1, UnsettledQuiet DEF UnlinkProblems, DeleteRow
  <2>2. CASE DeleteHistory(c) /\ batches[c] = 0
    <3>1. batches' = batches
      BY <2>2 DEF DeleteHistory, TypeOK
    <3>2. QED
      BY <2>2, <3>1, UnsettledQuiet DEF DeleteHistory
  <2>3. CASE DeleteHistory(c) /\ batches[c] # 0
    BY <1>1, <2>3 DEF DeleteHistory
  <2>4. QED
    BY <1>8, <2>1, <2>2, <2>3 DEF DeleteContest
<1>9. CASE UNCHANGED vars
  BY <1>9, UnsettledQuiet DEF vars, tables
<1>10. QED
  BY <1>2, <1>3, <1>4, <1>5, <1>6, <1>7, <1>8, <1>9 DEF Next

LEMMA TidyInit == Init => TidyInv
<1> SUFFICES ASSUME Init
             PROVE  TidyInv
  OBVIOUS
<1>1. ASSUME NEW u \in Users
      PROVE  MatchesHistory(u)
  <2>1. rating[u] = <<>> /\ Len(rating[u]) = 0
    BY DEF Init, NoChanges
  <2>2. Entries(rating[u]) = {}
    BY <2>1 DEF Entries
  <2>3. QED
    BY <2>1, <2>2 DEF Init, MatchesHistory
<1>2. Consistent
  BY <1>1 DEF Init, Consistent
<1>3. Placed
  BY PlacedInit
<1>4. Separate /\ Rebuilding
  BY DEF Init, Separate, Rebuilding, Settlers
<1>5. Unsettled
  BY <1>2 DEF Init, Unsettled, Settling
<1>6. QED
  BY <1>3, <1>4, <1>5 DEF TidyInv

(***************************************************************************)
(* While no settlement overlaps another one or a rebuild, contests are     *)
(* settled at most once and ratings agree with their history, whatever     *)
(* fails or crashes; a rebuild that is left alone restores this.           *)
(***************************************************************************)
THEOREM TidyRatingsAlways == Spec => []TidyRatings
<1>1. Init => TypeOK /\ TidyInv
  BY TypeInit, TidyInit
<1>2. TypeOK /\ TidyInv /\ [Next]_vars => (TypeOK /\ TidyInv)'
  BY TypeStep, PlacedStep, SeparateStep, RebuildingStep, UnsettledStep DEF TidyInv
<1>3. TidyInv => TidyRatings
  BY DEF TidyInv, Unsettled, Healthy, TidyRatings
<1>4. QED
  BY <1>1, <1>2, <1>3, PTL DEF Spec

-----------------------------------------------------------------------------
(* Until somebody rebuilds, the flag is set before anything is stored.     *)

LEMMA RebuildsGrow ==
    ASSUME TypeOK, [Next]_vars
    PROVE  rebuilds' = rebuilds \/ rebuilds' = rebuilds + 1
<1>1. CASE \E t \in Settlers : Settle(t) \/ Crash(t)
  BY <1>1 DEF Settle, Crash, ReadContest, MarkSettled, RankPlayers, ReadRatings,
     StoreRatings, SettlementFails, LoopEnds, budgets
<1>2. CASE \E t \in Admins : RecomputeAllRatings(t)
  BY <1>2 DEF RecomputeAllRatings, ResetRatings, WipeHistory, ClearFlags, ListContests,
     RebuildFails, budgets
<1>3. CASE \E c \in Contests : DeleteContest(c)
  BY <1>3 DEF DeleteContest, UnlinkProblems, DeleteHistory, DeleteRow, budgets
<1>4. CASE ContestEnds \/ (\E t \in Tickers : ListEndedWithoutRating(t))
           \/ (\E u \in Users : SetRating(u)) \/ UNCHANGED vars
  BY <1>4 DEF ContestEnds, ListEndedWithoutRating, SetRating, vars, budgets
<1>5. QED
  BY <1>1, <1>2, <1>3, <1>4 DEF Next

LEMMA FlagsStep ==
    ASSUME TypeOK, Placed, FlagsFirst, [Next]_vars, rebuilds' = rebuilds
    PROVE  FlagsFirst'
<1>1. ASSUME UNCHANGED <<settled, batches, pc, cur>>
      PROVE  FlagsFirst'
  BY <1>1 DEF FlagsFirst
<1>2. ASSUME UNCHANGED <<settled, batches>>, NEW t \in Tickers, NEW place,
             GoTo(t, place), place \notin Settling \ {"read"},
             \A u \in Settlers \ {t} : cur'[u] = cur[u]
      PROVE  FlagsFirst'
  BY <1>2, RatingAssumption DEF FlagsFirst, GoTo, TypeOK, Settlers
<1>3. ASSUME NEW t \in Settlers, Settle(t)
      PROVE  FlagsFirst'
  <2>0. t \in Tickers /\ t \notin Admins
    BY <1>3, RatingAssumption DEF Settle, ReadContest, MarkSettled, RankPlayers, ReadRatings,
       StoreRatings, SettlementFails, LoopEnds, FlagsFirst, Settlers, Settling
  <2>1. CASE ReadContest(t)
    <3>1. PICK c \in Contests : \/ GoTo(t, "read") /\ cur' = [cur EXCEPT ![t] = c]
                               \/ UNCHANGED <<pc, cur>>
      BY <2>1 DEF ReadContest
    <3>2. UNCHANGED <<settled, batches>>
      BY <2>1 DEF ReadContest, tables
    <3>3. CASE GoTo(t, "read") /\ cur' = [cur EXCEPT ![t] = c]
      BY <1>2, <2>0, <3>2, <3>3 DEF TypeOK, Settling
    <3>4. QED
      BY <1>1, <3>1, <3>2, <3>3
  <2>2. CASE MarkSettled(t)
    BY <2>0, <2>2 DEF MarkSettled, FlagsFirst, GoTo, TypeOK, Placed, Settling
  <2>3. CASE RankPlayers(t)
    BY <2>0, <2>3 DEF RankPlayers, tables, FlagsFirst, GoTo, TypeOK, Settling
  <2>4. CASE ReadRatings(t)
    BY <2>0, <2>4 DEF ReadRatings, tables, FlagsFirst, GoTo, TypeOK, Settling
  <2>5. CASE StoreRatings(t)
    <3>1. cur[t] \in Contests /\ settled[cur[t]]
      BY <2>5 DEF StoreRatings, Placed, FlagsFirst, Settling
    <3>2. \A c \in Contests : batches'[c] > 0 => batches[c] > 0 \/ c = cur[t]
      BY <2>5 DEF StoreRatings, Store, TypeOK
    <3>3. UNCHANGED <<settled, cur>> /\ pc' = [pc EXCEPT ![t] = "next"]
      BY <2>5 DEF StoreRatings, GoTo
    <3>4. QED
      BY <2>0, <3>1, <3>2, <3>3 DEF FlagsFirst, TypeOK, Settling
  <2>6. CASE SettlementFails(t)
    BY <1>2, <2>0, <2>6 DEF SettlementFails, tables, Settling
  <2>7. CASE LoopEnds(t)
    BY <1>2, <2>0, <2>7 DEF LoopEnds, tables, Settling, TypeOK
  <2>8. QED
    BY <1>3, <2>1, <2>2, <2>3, <2>4, <2>5, <2>6, <2>7 DEF Settle
<1>4. ASSUME NEW t \in Tickers, ListEndedWithoutRating(t)
      PROVE  FlagsFirst'
  BY <1>2, <1>4 DEF ListEndedWithoutRating, tables, Settlers, Settling
<1>5. ASSUME NEW t \in Settlers, Crash(t)
      PROVE  FlagsFirst'
  BY <1>2, <1>5, RatingAssumption DEF FlagsFirst, Settlers, Crash, tables, Settling, TypeOK
<1>6. ASSUME NEW c \in Contests, DeleteContest(c)
      PROVE  FlagsFirst'
  <2>1. CASE UnlinkProblems(c) \/ DeleteRow(c)
    BY <1>1, <2>1 DEF UnlinkProblems, DeleteRow, threads
  <2>2. CASE DeleteHistory(c)
    BY <2>2 DEF DeleteHistory, threads, FlagsFirst, TypeOK
  <2>3. QED
    BY <1>6, <2>1, <2>2 DEF DeleteContest
<1>7. CASE ContestEnds \/ (\E u \in Users : SetRating(u)) \/ UNCHANGED vars
  BY <1>1, <1>7 DEF ContestEnds, SetRating, vars, tables, threads
<1>8. ASSUME NEW t \in Admins
      PROVE  ~RecomputeAllRatings(t)
  BY <1>8 DEF RecomputeAllRatings, ResetRatings, WipeHistory, ClearFlags,
     ListContests, RebuildFails, FlagsFirst, TypeOK
<1>9. QED
  BY <1>3, <1>4, <1>5, <1>6, <1>7, <1>8 DEF Next

(***************************************************************************)
(* Until somebody rebuilds, a contest with history is flagged as settled,  *)
(* for any number of tickers and either kind of transaction.               *)
(***************************************************************************)
THEOREM FlaggedBeforeRatedAlways == Spec => []FlaggedBeforeRated
<1>1. Init => TypeOK /\ Placed /\ FlaggedFirst
  BY TypeInit, PlacedInit, RatingAssumption
     DEF Init, FlaggedFirst, FlagsFirst, Settling, Settlers
<1>2. TypeOK /\ Placed /\ FlaggedFirst /\ [Next]_vars => (TypeOK /\ Placed /\ FlaggedFirst)'
  <2>1. TypeOK /\ [Next]_vars /\ rebuilds' = 0 => rebuilds = 0 /\ rebuilds' = rebuilds
    BY RebuildsGrow DEF TypeOK
  <2>2. QED
    BY <2>1, TypeStep, PlacedStep, FlagsStep DEF FlaggedFirst
<1>3. FlaggedFirst => FlaggedBeforeRated
  BY DEF FlaggedFirst, FlagsFirst, FlaggedBeforeRated
<1>4. QED
  BY <1>1, <1>2, <1>3, PTL DEF Spec

-----------------------------------------------------------------------------
(* Nothing is settled, rated or shown before its contest has ended.        *)

\* The problems of the contests that have ended.
Due == UNION {Linked[c] : c \in Ended}

LEMMA NoEntries == Entries(<<>>) = {}
  BY DEF Entries

LEMMA AppendEntries ==
    ASSUME NEW S, NEW seq \in Seq(S), NEW e \in S
    PROVE  Entries(Append(seq, e)) = Entries(seq) \union {e}
<1>1. /\ Len(Append(seq, e)) = Len(seq) + 1
      /\ Append(seq, e)[Len(seq) + 1] = e
      /\ \A i \in 1..Len(seq) : Append(seq, e)[i] = seq[i]
      /\ Len(seq) \in Nat
  OBVIOUS
<1>2. \A i \in 1..Len(Append(seq, e)) : i \in 1..Len(seq) \/ i = Len(seq) + 1
  BY <1>1
<1>3. QED
  BY <1>1, <1>2 DEF Entries

\* What a step may do to the tables: contests only go on ending, and what is new belongs
\* to contests that have ended.
LEMMA EarlyTables ==
    ASSUME TypeOK, NothingEarly, Ended \subseteq Ended',
           \A c \in Contests : settled'[c] => settled[c] \/ c \in Ended',
           \A c \in Contests : batches'[c] = 0 \/ batches'[c] = batches[c] \/ c \in Ended',
           testVisible' \subseteq testVisible \union Due',
           \A u \in Users : Entries(rating'[u]) \subseteq Ended' \union {0}
    PROVE  NothingEarly'
<1>1. \A c \in Contests : c # 0
  BY DEF Contests
<1>2. testVisible \subseteq Due
  BY DEF NothingEarly, Due, Ended
<1>3. Due \subseteq Due'
  BY DEF Due
<1>4. testVisible' \subseteq Due'
  BY <1>2, <1>3
<1>5. \A p \in testVisible' : \E c \in Ended' : p \in Linked[c]
  BY <1>4 DEF Due
<1>6. \A c \in Ended' : c \in Contests /\ c <= ended'
  BY DEF Ended
<1>7. \A p \in testVisible' : \E c \in Contests : c <= ended' /\ p \in Linked[c]
  BY <1>5, <1>6
<1>8. \A c \in Contests : c <= ended' \/ ( ~settled'[c] /\ batches'[c] = 0
                             /\ \A u \in Users : c \notin Entries(rating'[u]))
  BY <1>1 DEF NothingEarly, Ended
<1>9. QED
  BY <1>7, <1>8 DEF NothingEarly

\* A step of one settler, or of none, keeps the others at contests that have ended.
LEMMA WorksOnEndedStep ==
    ASSUME TypeOK, WorksOnEnded, UNCHANGED ended, NEW t \in Settlers,
           \A u \in Users : Entries(rating'[u]) \subseteq Ended \union {0},
           \A x \in Settlers \ {t} :
                pc'[x] = pc[x] /\ cur'[x] = cur[x] /\ todo'[x] = todo[x] /\ snap'[x] = snap[x],
           todo'[t] \subseteq Ended,
           pc'[t] \in Settling => cur'[t] \in Ended,
           \A u \in Users : Entries(snap'[t][u]) \subseteq Ended \union {0}
    PROVE  WorksOnEnded'
<1>1. Ended' = Ended
  BY DEF Ended
<1>2. QED
  BY <1>1 DEF WorksOnEnded

LEMMA EarlySettle ==
    ASSUME TypeOK, EarlyInv, NEW t \in Settlers, Settle(t)
    PROVE  EarlyInv'
<1>1. NothingEarly /\ WorksOnEnded
  BY DEF EarlyInv
<1>2. /\ todo[t] \subseteq Ended
      /\ pc[t] \in Settling => cur[t] \in Ended
      /\ \A u \in Users : Entries(snap[t][u]) \subseteq Ended \union {0}
      /\ \A u \in Users : Entries(rating[u]) \subseteq Ended \union {0}
  BY <1>1 DEF WorksOnEnded
<1>3. UNCHANGED ended /\ Ended' = Ended
  BY DEF Settle, ReadContest, MarkSettled, RankPlayers, ReadRatings, StoreRatings,
         SettlementFails, LoopEnds, Ended
<1>4. \A x \in Settlers \ {t} :
        pc'[x] = pc[x] /\ cur'[x] = cur[x] /\ todo'[x] = todo[x] /\ snap'[x] = snap[x]
  BY DEF Settle, ReadContest, MarkSettled, RankPlayers, ReadRatings, StoreRatings,
         SettlementFails, LoopEnds, GoTo, TypeOK
<1>5. \A u \in Users : Entries(NoChanges[u]) = {}
  BY NoEntries DEF NoChanges
<1>6. CASE ReadContest(t)
  <2>1. UNCHANGED <<settled, rating, batches, testVisible, snap>>
    BY <1>6 DEF ReadContest, tables
  <2>2. todo'[t] \subseteq Ended
    BY <1>2, <1>6 DEF ReadContest, TypeOK
  <2>3. pc'[t] \in Settling => cur'[t] \in Ended
    BY <1>6 DEF ReadContest, GoTo, TypeOK, Settling
  <2>4. WorksOnEnded'
    BY <1>1, <1>2, <1>3, <1>4, <2>1, <2>2, <2>3, WorksOnEndedStep
  <2>5. NothingEarly'
    BY <1>1, <1>2, <1>3, <2>1, EarlyTables
  <2>6. QED
    BY <2>4, <2>5 DEF EarlyInv
<1>7. CASE MarkSettled(t)
  <2>1. UNCHANGED <<rating, batches, testVisible, cur, todo, snap>>
    BY <1>7 DEF MarkSettled
  <2>2. cur[t] \in Ended
    BY <1>2, <1>7 DEF MarkSettled, Settling
  <2>3. \A c \in Contests : settled'[c] => settled[c] \/ c \in Ended
    BY <1>7, <2>2 DEF MarkSettled, TypeOK
  <2>4. WorksOnEnded'
    BY <1>1, <1>2, <1>3, <1>4, <2>1, <2>2, WorksOnEndedStep
  <2>5. NothingEarly'
    BY <1>1, <1>2, <1>3, <2>1, <2>3, EarlyTables
  <2>6. QED
    BY <2>4, <2>5 DEF EarlyInv
<1>8. CASE RankPlayers(t) \/ LoopEnds(t) \/ SettlementFails(t) \/ ReadRatings(t)
  <2>1. UNCHANGED <<settled, rating, batches, testVisible, todo>>
    BY <1>8 DEF RankPlayers, LoopEnds, SettlementFails, ReadRatings, tables
  <2>2. pc'[t] \in Settling => cur'[t] \in Ended
    BY <1>2, <1>8 DEF RankPlayers, LoopEnds, SettlementFails, ReadRatings, GoTo, TypeOK,
                      Settling
  <2>3. \A u \in Users : Entries(snap'[t][u]) \subseteq Ended \union {0}
    <3>1. CASE RankPlayers(t) \/ LoopEnds(t)
      BY <1>2, <3>1 DEF RankPlayers, LoopEnds
    <3>2. CASE SettlementFails(t)
      <4>1. snap'[t] = NoChanges
        BY <3>2 DEF SettlementFails, TypeOK
      <4>2. QED
        BY <1>5, <4>1
    <3>3. CASE ReadRatings(t)
      <4>1. snap'[t] = rating
        BY <3>3 DEF ReadRatings, TypeOK
      <4>2. QED
        BY <1>2, <4>1
    <3>4. QED
      BY <1>8, <3>1, <3>2, <3>3
  <2>4. WorksOnEnded'
    BY <1>1, <1>2, <1>3, <1>4, <2>1, <2>2, <2>3, WorksOnEndedStep
  <2>5. NothingEarly'
    BY <1>1, <1>2, <1>3, <2>1, EarlyTables
  <2>6. QED
    BY <2>4, <2>5 DEF EarlyInv
<1>9. CASE StoreRatings(t)
  <2> DEFINE base == IF SerialTx THEN rating ELSE snap[t]
  <2>1. cur[t] \in Ended
    BY <1>2, <1>9 DEF StoreRatings, Settling
  <2>2. /\ Store(cur[t], base)
        /\ UNCHANGED <<settled, cur, todo>>
        /\ pc'[t] = "next"
        /\ snap'[t] = NoChanges
    BY <1>9 DEF StoreRatings, GoTo, TypeOK
  <2>3. cur[t] \in Contests
    BY <2>1 DEF Ended
  <2>4. ASSUME NEW u \in Users
        PROVE  Entries(rating'[u]) \subseteq Ended \union {0}
    <3>1. CASE u \in Players[cur[t]]
      <4>1. rating'[u] = Append(base[u], cur[t])
        BY <2>2, <3>1 DEF Store
      <4>2. base[u] \in Seq(Contests \union {0})
        BY DEF TypeOK, Ratings
      <4>3. Entries(rating'[u]) = Entries(base[u]) \union {cur[t]}
        BY <2>3, <4>1, <4>2, AppendEntries
      <4>4. Entries(base[u]) \subseteq Ended \union {0}
        BY <1>2
      <4>5. QED
        BY <2>1, <4>3, <4>4
    <3>2. CASE u \notin Players[cur[t]]
      <4>1. rating'[u] = rating[u]
        BY <2>2, <3>2 DEF Store
      <4>2. QED
        BY <1>2, <4>1
    <3>3. QED
      BY <3>1, <3>2
  <2>5. \A c \in Contests : batches'[c] = batches[c] \/ c \in Ended
    BY <2>1, <2>2 DEF Store, TypeOK
  <2>6. testVisible' \subseteq testVisible \union Due'
    BY <1>3, <2>1, <2>2 DEF Store, Due
  <2>7. \A u \in Users : Entries(snap'[t][u]) \subseteq Ended \union {0}
    BY <1>5, <2>2
  <2>8. WorksOnEnded'
    BY <1>1, <1>2, <1>3, <1>4, <2>2, <2>4, <2>7, WorksOnEndedStep DEF Settling
  <2>9. NothingEarly'
    BY <1>1, <1>3, <2>2, <2>4, <2>5, <2>6, EarlyTables
  <2>10. QED
    BY <2>8, <2>9 DEF EarlyInv
<1>10. QED
  BY <1>6, <1>7, <1>8, <1>9 DEF Settle

LEMMA EarlyStep == TypeOK /\ EarlyInv /\ [Next]_vars => EarlyInv'
<1> SUFFICES ASSUME TypeOK, EarlyInv, [Next]_vars
             PROVE  EarlyInv'
  OBVIOUS
<1>1. NothingEarly /\ WorksOnEnded
  BY DEF EarlyInv
<1>2. \A u \in Users : Entries(rating[u]) \subseteq Ended \union {0}
  BY <1>1 DEF WorksOnEnded
<1>3. Entries(<<0>>) = {0}
  BY DEF Entries
<1>4. \A u \in Users : Entries(NoChanges[u]) = {}
  BY NoEntries DEF NoChanges
<1>5. CASE ContestEnds
  <2>1. UNCHANGED <<tables, pc, cur, todo, snap>>
    BY <1>5 DEF ContestEnds, threads
  <2>2. Ended \subseteq Ended'
    BY <1>5 DEF ContestEnds, Ended, TypeOK, Contests
  <2>3. WorksOnEnded'
    <3>1. \A u \in Users : Entries(rating'[u]) \subseteq Ended' \union {0}
      BY <1>2, <2>1, <2>2 DEF tables
    <3>2. ASSUME NEW x \in Settlers
          PROVE  /\ todo'[x] \subseteq Ended'
                 /\ pc'[x] \in Settling => cur'[x] \in Ended'
                 /\ \A u \in Users : Entries(snap'[x][u]) \subseteq Ended' \union {0}
      BY <1>1, <2>1, <2>2 DEF WorksOnEnded
    <3>3. QED
      BY <3>1, <3>2 DEF WorksOnEnded
  <2>4. NothingEarly'
    BY <1>1, <1>2, <2>1, <2>2, EarlyTables DEF tables
  <2>5. QED
    BY <2>3, <2>4 DEF EarlyInv
<1>6. ASSUME NEW t \in Tickers, ListEndedWithoutRating(t)
      PROVE  EarlyInv'
  <2>1. t \in Settlers
    BY DEF Settlers
  <2>2. UNCHANGED <<ended, settled, rating, batches, testVisible, cur, snap>> /\ Ended' = Ended
    BY <1>6 DEF ListEndedWithoutRating, tables, Ended
  <2>3. /\ todo'[t] \subseteq Ended
        /\ pc'[t] = "next"
        /\ \A x \in Settlers \ {t} : pc'[x] = pc[x] /\ todo'[x] = todo[x]
    BY <1>6, <2>1 DEF ListEndedWithoutRating, GoTo, TypeOK
  <2>4. \A u \in Users : Entries(snap[t][u]) \subseteq Ended \union {0}
    BY <1>1, <2>1 DEF WorksOnEnded
  <2>5. WorksOnEnded'
    BY <1>1, <1>2, <2>1, <2>2, <2>3, <2>4, WorksOnEndedStep DEF Settling
  <2>6. NothingEarly'
    BY <1>1, <1>2, <2>2, EarlyTables
  <2>7. QED
    BY <2>5, <2>6 DEF EarlyInv
<1>7. ASSUME NEW t \in Settlers, Settle(t)
      PROVE  EarlyInv'
  BY <1>7, EarlySettle
<1>8. ASSUME NEW t \in Settlers, Crash(t)
      PROVE  EarlyInv'
  <2>1. UNCHANGED <<ended, settled, rating, batches, testVisible>> /\ Ended' = Ended
    BY <1>8 DEF Crash, tables, Ended
  <2>2. /\ todo'[t] = {} /\ pc'[t] = "idle" /\ snap'[t] = NoChanges
        /\ \A x \in Settlers \ {t} :
             pc'[x] = pc[x] /\ cur'[x] = cur[x] /\ todo'[x] = todo[x] /\ snap'[x] = snap[x]
    BY <1>8 DEF Crash, GoTo, TypeOK
  <2>3. WorksOnEnded'
    BY <1>1, <1>2, <1>4, <2>1, <2>2, WorksOnEndedStep DEF Settling
  <2>4. NothingEarly'
    BY <1>1, <1>2, <2>1, EarlyTables
  <2>5. QED
    BY <2>3, <2>4 DEF EarlyInv
<1>9. ASSUME NEW t \in Admins, RecomputeAllRatings(t)
      PROVE  EarlyInv'
  <2>1. t \in Settlers
    BY DEF Settlers
  <2>2. UNCHANGED <<ended, testVisible, cur, snap>> /\ Ended' = Ended
    BY <1>9 DEF RecomputeAllRatings, ResetRatings, WipeHistory, ClearFlags, ListContests,
                RebuildFails, tables, Ended
  <2>3. rating' = rating \/ rating' = NoChanges
    BY <1>9 DEF RecomputeAllRatings, ResetRatings, WipeHistory, ClearFlags, ListContests,
                RebuildFails, tables
  <2>4. \A u \in Users : Entries(rating'[u]) \subseteq Ended \union {0}
    BY <1>2, <1>4, <2>3
  <2>5. /\ \A c \in Contests : settled'[c] => settled[c]
        /\ \A c \in Contests : batches'[c] = 0 \/ batches'[c] = batches[c]
    BY <1>9 DEF RecomputeAllRatings, ResetRatings, WipeHistory, ClearFlags, ListContests,
                RebuildFails, tables
  <2>6. /\ todo'[t] \subseteq Ended
        /\ pc'[t] \notin Settling
        /\ \A x \in Settlers \ {t} : pc'[x] = pc[x] /\ todo'[x] = todo[x]
    BY <1>1, <1>9, <2>1 DEF RecomputeAllRatings, ResetRatings, WipeHistory, ClearFlags,
            ListContests, RebuildFails, GoTo, TypeOK, WorksOnEnded, Settling
  <2>7. \A u \in Users : Entries(snap[t][u]) \subseteq Ended \union {0}
    BY <1>1, <2>1 DEF WorksOnEnded
  <2>8. WorksOnEnded'
    BY <1>1, <2>1, <2>2, <2>4, <2>6, <2>7, WorksOnEndedStep
  <2>9. NothingEarly'
    BY <1>1, <2>2, <2>4, <2>5, EarlyTables
  <2>10. QED
    BY <2>8, <2>9 DEF EarlyInv
<1>10. ASSUME UNCHANGED <<ended, settled, testVisible, pc, cur, todo, snap>>,
              \A c \in Contests : batches'[c] = 0 \/ batches'[c] = batches[c],
              \A u \in Users : Entries(rating'[u]) \subseteq Ended \union {0}
      PROVE  EarlyInv'
  <2>1. Ended' = Ended
    BY <1>10 DEF Ended
  <2>2. WorksOnEnded'
    BY <1>1, <1>10, <2>1 DEF WorksOnEnded
  <2>3. NothingEarly'
    BY <1>1, <1>10, <2>1, EarlyTables
  <2>4. QED
    BY <2>2, <2>3 DEF EarlyInv
<1>11. ASSUME NEW v \in Users, SetRating(v)
      PROVE  EarlyInv'
  <2>1. \A u \in Users : rating'[u] = rating[u] \/ rating'[u] = <<0>>
    BY <1>11 DEF SetRating, TypeOK, Ratings
  <2>2. \A u \in Users : Entries(rating'[u]) \subseteq Ended \union {0}
    BY <1>2, <1>3, <2>1
  <2>3. QED
    BY <1>10, <1>11, <2>2 DEF SetRating, threads
<1>12. ASSUME NEW c \in Contests, DeleteContest(c)
      PROVE  EarlyInv'
  <2>1. \A d \in Contests : batches'[d] = 0 \/ batches'[d] = batches[d]
    BY <1>12 DEF DeleteContest, UnlinkProblems, DeleteHistory, DeleteRow, TypeOK
  <2>2. UNCHANGED <<ended, settled, rating, testVisible, threads>>
    BY <1>12 DEF DeleteContest, UnlinkProblems, DeleteHistory, DeleteRow
  <2>3. QED
    BY <1>2, <1>10, <2>1, <2>2 DEF threads
<1>13. CASE UNCHANGED vars
  BY <1>2, <1>10, <1>13 DEF vars, tables, threads
<1>14. QED
  BY <1>5, <1>6, <1>7, <1>8, <1>9, <1>11, <1>12, <1>13 DEF Next

(***************************************************************************)
(* Nothing is settled or rated before its contest has ended, and no        *)
(* problem shows its tests before one of its contests has, for any number  *)
(* of contests that share problems in any way and any numbers of tickers   *)
(* and rebuilds that overlap, fail and crash.                              *)
(***************************************************************************)
THEOREM NothingEarlyAlways == Spec => []NothingEarly
<1>1. Init => TypeOK /\ Placed /\ EarlyInv
  <2> SUFFICES ASSUME Init
               PROVE  EarlyInv
    BY TypeInit, PlacedInit
  <2>1. \A u \in Users : Entries(NoChanges[u]) = {}
    BY NoEntries DEF NoChanges
  <2>2. WorksOnEnded
    BY <2>1 DEF Init, WorksOnEnded, Settling
  <2>3. NothingEarly
    BY <2>1, RatingAssumption DEF Init, NothingEarly, Contests
  <2>4. QED
    BY <2>2, <2>3 DEF EarlyInv
<1>2. TypeOK /\ Placed /\ EarlyInv /\ [Next]_vars => (TypeOK /\ Placed /\ EarlyInv)'
  BY TypeStep, PlacedStep, EarlyStep
<1>3. EarlyInv => NothingEarly
  BY DEF EarlyInv
<1>4. QED
  BY <1>1, <1>2, <1>3, PTL DEF Spec

-----------------------------------------------------------------------------
(* A rebuild left alone applies the contests in the order they ended in.   *)

\* Appending what comes after every entry keeps a sequence in order.
LEMMA AppendInOrder ==
    ASSUME NEW seq \in Seq(Contests \union {0}), NEW c \in Contests,
           InOrder(seq), \A e \in Entries(seq) : e < c
    PROVE  InOrder(Append(seq, c))
<1>1. /\ Len(Append(seq, c)) = Len(seq) + 1
      /\ Append(seq, c)[Len(seq) + 1] = c
      /\ \A i \in 1..Len(seq) : Append(seq, c)[i] = seq[i]
      /\ Len(seq) \in Nat
  OBVIOUS
<1>2. \A i \in 1..Len(seq) : seq[i] < c
  BY DEF Entries
<1>3. ASSUME NEW i \in 1..Len(Append(seq, c)), NEW j \in 1..Len(Append(seq, c)), i < j
      PROVE  Append(seq, c)[i] < Append(seq, c)[j]
  <2>1. i \in 1..Len(seq)
    BY <1>1, <1>3
  <2>2. CASE j \in 1..Len(seq)
    BY <1>1, <1>3, <2>1, <2>2 DEF InOrder
  <2>3. CASE j = Len(seq) + 1
    BY <1>1, <1>2, <2>1, <2>3
  <2>4. QED
    BY <1>1, <2>2, <2>3
<1>4. QED
  BY <1>3 DEF InOrder

\* A step that leaves the ratings and a rebuild alone.
LEMMA OrderQuiet ==
    ASSUME OrderInv, UNCHANGED <<rating, pc, cur, todo>>, solo' \subseteq solo
    PROVE  OrderInv'
  BY DEF OrderInv, AppliesInOrder, AllBefore

LEMMA OrderSettle ==
    ASSUME TypeOK, TidyInv, OrderInv, NEW t \in solo, Settle(t), t \in solo'
    PROVE  AppliesInOrder(t)'
<1>1. t \in Settlers
  BY DEF TypeOK, Settlers
<1>2. AppliesInOrder(t)
  BY DEF OrderInv
<1>3. \A c \in Contests : c \in Nat
  BY DEF Contests
<1>4. todo[t] \subseteq Contests
  BY <1>1 DEF TypeOK
<1>5. \A u \in Users : rating[u] \in Seq(Contests \union {0})
  BY DEF TypeOK, Ratings
<1>6. \A u \in Users : \A e \in Entries(rating[u]) : e \in Contests \union {0}
  BY <1>5 DEF Entries
<1>7. CASE ReadContest(t)
  <2>1. PICK c \in Contests :
          /\ InTurn(t, c)
          /\ todo' = [todo EXCEPT ![t] = @ \ {c}]
          /\ \/ GoTo(t, "read") /\ cur' = [cur EXCEPT ![t] = c]
             \/ UNCHANGED <<pc, cur>>
    BY <1>7 DEF ReadContest
  <2>2. pc[t] = "next" /\ UNCHANGED rating
    BY <1>7 DEF ReadContest, tables
  <2>3. \A d \in todo[t] : AllBefore(d)
    BY <1>2, <2>2 DEF AppliesInOrder
  <2>4. c \in todo[t] /\ AllBefore(c)
    BY <2>1, <2>3 DEF InTurn
  <2>5. t \in Admins
    BY DEF TypeOK
  <2>6. \A d \in todo[t] \ {c} : c < d
    BY <1>3, <1>4, <2>1, <2>5 DEF InTurn
  <2>7. todo'[t] = todo[t] \ {c}
    BY <1>1, <2>1 DEF TypeOK
  <2>8. pc'[t] = "next" \/ (pc'[t] = "read" /\ cur'[t] = c)
    BY <1>1, <2>1, <2>2 DEF GoTo, TypeOK
  <2>9. \A u \in Users : InOrder(rating[u])
    BY <1>2, <2>2 DEF AppliesInOrder
  <2>10. (\A d \in todo'[t] : AllBefore(d)') /\ AllBefore(c)'
    BY <2>2, <2>3, <2>4, <2>7 DEF AllBefore
  <2>11. QED
    BY <2>2, <2>6, <2>7, <2>8, <2>9, <2>10 DEF AppliesInOrder, Settling
<1>8. CASE MarkSettled(t) \/ RankPlayers(t) \/ ReadRatings(t) \/ SettlementFails(t)
  <2>1. UNCHANGED <<rating, cur, todo>>
    BY <1>8 DEF MarkSettled, RankPlayers, ReadRatings, SettlementFails, tables
  <2>2. pc[t] \in Settling /\ pc'[t] \in {"next"} \union Settling
    BY <1>1, <1>8 DEF MarkSettled, RankPlayers, ReadRatings, SettlementFails, Settling,
                      GoTo, TypeOK
  <2>3. QED
    BY <1>2, <2>1, <2>2 DEF AppliesInOrder, AllBefore
<1>9. CASE StoreRatings(t)
  <2>1. pc[t] \in Settling
    BY <1>9 DEF StoreRatings, Settling
  <2>2. pc'[t] = "next" /\ UNCHANGED todo
    BY <1>1, <1>9 DEF StoreRatings, GoTo, TypeOK
  <2>3. cur[t] \in Contests
    BY <1>1, <2>1 DEF TidyInv, Placed
  <2>4. ~SerialTx => snap[t] = rating
    <3>1. Healthy
      BY <2>1 DEF Healthy
    <3>2. QED
      BY <1>1, <1>9, <2>1, <3>1 DEF TidyInv, Unsettled, StoreRatings
  <2>5. Store(cur[t], rating)
    BY <1>9, <2>4 DEF StoreRatings
  <2>6. /\ \A u \in Users : InOrder(rating[u])
        /\ \A c \in todo[t] : AllBefore(c) /\ cur[t] < c
        /\ AllBefore(cur[t])
    BY <1>2, <2>1 DEF AppliesInOrder
  <2>7. ASSUME NEW u \in Users
        PROVE  InOrder(rating'[u]) /\ Entries(rating'[u]) \subseteq Entries(rating[u]) \union {cur[t]}
    <3>1. CASE u \in Players[cur[t]]
      <4>1. rating'[u] = Append(rating[u], cur[t])
        BY <2>5, <3>1 DEF Store
      <4>2. \A e \in Entries(rating[u]) : e < cur[t]
        BY <2>6 DEF AllBefore
      <4>3. InOrder(rating'[u])
        BY <1>5, <2>3, <2>6, <4>1, <4>2, AppendInOrder
      <4>4. Entries(rating'[u]) = Entries(rating[u]) \union {cur[t]}
        BY <1>5, <2>3, <4>1, AppendEntries
      <4>5. QED
        BY <4>3, <4>4
    <3>2. CASE u \notin Players[cur[t]]
      <4>1. rating'[u] = rating[u]
        BY <2>5, <3>2 DEF Store
      <4>2. QED
        BY <2>6, <4>1
    <3>3. QED
      BY <3>1, <3>2
  <2>8. \A c \in todo[t] : AllBefore(c)'
    BY <2>6, <2>7 DEF AllBefore
  <2>9. QED
    BY <2>2, <2>7, <2>8 DEF AppliesInOrder, Settling
<1>10. CASE LoopEnds(t)
  BY <1>10 DEF LoopEnds
<1>11. QED
  BY <1>7, <1>8, <1>9, <1>10 DEF Settle

LEMMA OrderRebuild ==
    ASSUME TypeOK, TidyInv, OrderInv, NEW t \in Admins, RecomputeAllRatings(t)
    PROVE  OrderInv'
<1>1. t \in Settlers
  BY DEF Settlers
<1>2. solo' \subseteq {t}
  <2>1. CASE ResetRatings(t)
    BY <2>1 DEF ResetRatings
  <2>2. CASE ~ResetRatings(t)
    <3>1. pc[t] # "idle" /\ solo' \subseteq solo
      BY <2>2 DEF RecomputeAllRatings, WipeHistory, ClearFlags, ListContests, RebuildFails,
                  ghosts
    <3>2. QED
      BY <1>1, <3>1, SoloIsAlone DEF TidyInv
  <2>3. QED
    BY <2>1, <2>2
<1>3. CASE ResetRatings(t) \/ WipeHistory(t) \/ ClearFlags(t) \/ RebuildFails(t)
  <2>1. pc'[t] \notin {"next"} \union Settling
    BY <1>1, <1>3 DEF ResetRatings, WipeHistory, ClearFlags, RebuildFails, GoTo, TypeOK,
                      Settling
  <2>2. QED
    BY <1>2, <2>1 DEF OrderInv, AppliesInOrder
<1>4. CASE ListContests(t)
  <2>1. pc[t] = "cleared" /\ UNCHANGED <<rating, solo>> /\ pc'[t] = "next"
    BY <1>1, <1>4 DEF ListContests, tables, ghosts, GoTo, TypeOK
  <2>2. CASE t \in solo
    <3>1. rating' = NoChanges
      BY <2>1, <2>2 DEF TidyInv, Rebuilding
    <3>2. \A u \in Users : Entries(rating'[u]) = {} /\ InOrder(rating'[u])
      BY <3>1, NoEntries DEF NoChanges, InOrder
    <3>3. QED
      BY <1>2, <2>1, <3>2 DEF OrderInv, AppliesInOrder, AllBefore, Settling
  <2>3. CASE t \notin solo
    BY <1>2, <2>1, <2>3 DEF OrderInv
  <2>4. QED
    BY <2>2, <2>3
<1>5. QED
  BY <1>3, <1>4 DEF RecomputeAllRatings

LEMMA OrderStep == TypeOK /\ TidyInv /\ OrderInv /\ [Next]_vars => OrderInv'
<1> SUFFICES ASSUME TypeOK, TidyInv, OrderInv, [Next]_vars
             PROVE  OrderInv'
  OBVIOUS
<1>1. ASSUME solo' = {}
      PROVE  OrderInv'
  BY <1>1 DEF OrderInv
<1>2. CASE ContestEnds
  BY <1>2, OrderQuiet DEF ContestEnds, tables, threads, ghosts
<1>3. ASSUME NEW t \in Tickers, ListEndedWithoutRating(t)
      PROVE  OrderInv'
  BY <1>1, <1>3 DEF ListEndedWithoutRating
<1>4. ASSUME NEW t \in Settlers, Settle(t)
      PROVE  OrderInv'
  <2>1. pc[t] # "idle" /\ solo' \subseteq solo
    BY <1>4 DEF Settle, ReadContest, MarkSettled, RankPlayers, ReadRatings, StoreRatings,
                SettlementFails, LoopEnds, Settling, ghosts
  <2>2. solo \subseteq {t}
    BY <2>1, SoloIsAlone DEF TidyInv
  <2>3. QED
    BY <1>4, <2>1, <2>2, OrderSettle DEF OrderInv
<1>5. ASSUME NEW t \in Settlers, Crash(t)
      PROVE  OrderInv'
  <2>1. solo \subseteq {t}
    BY <1>5, SoloIsAlone DEF Crash, TidyInv
  <2>2. QED
    BY <1>1, <1>5, <2>1 DEF Crash
<1>6. ASSUME NEW t \in Admins, RecomputeAllRatings(t)
      PROVE  OrderInv'
  BY <1>6, OrderRebuild
<1>7. ASSUME NEW u \in Users, SetRating(u)
      PROVE  OrderInv'
  BY <1>1, <1>7 DEF SetRating, Disturb
<1>8. ASSUME NEW c \in Contests, DeleteContest(c)
      PROVE  OrderInv'
  <2>1. UNCHANGED <<rating, pc, cur, todo>> /\ solo' \subseteq solo
    BY <1>8 DEF DeleteContest, UnlinkProblems, DeleteHistory, DeleteRow, threads, ghosts,
                Disturb
  <2>2. QED
    BY <2>1, OrderQuiet
<1>9. CASE UNCHANGED vars
  BY <1>9, OrderQuiet DEF vars, tables, threads, ghosts
<1>10. QED
  BY <1>2, <1>3, <1>4, <1>5, <1>6, <1>7, <1>8, <1>9 DEF Next

(***************************************************************************)
(* When a rebuild that is left alone ends, every user's rating includes    *)
(* the contests in the order in which they ended, whichever settlements of *)
(* it have failed, and whatever the tickers have done before.              *)
(***************************************************************************)
THEOREM RebuildIsChronological == Spec => Chronological
<1>1. Init => TypeOK /\ TidyInv /\ OrderInv
  BY TypeInit, TidyInit DEF Init, OrderInv
<1>2. TypeOK /\ TidyInv /\ OrderInv /\ [Next]_vars => (TypeOK /\ TidyInv /\ OrderInv)'
  BY TypeStep, PlacedStep, SeparateStep, RebuildingStep, UnsettledStep, OrderStep DEF TidyInv
<1>3. TypeOK /\ TidyInv /\ OrderInv =>
        [\A t \in solo : LoopEnds(t) =>
            \A u \in Users : \A i, j \in 1..Len(rating[u]) :
                i < j => rating[u][i] < rating[u][j]]_vars
  <2> SUFFICES ASSUME OrderInv, NEW t \in solo, LoopEnds(t), NEW u \in Users
               PROVE  InOrder(rating[u])
    BY DEF InOrder
  <2>1. AppliesInOrder(t) /\ pc[t] = "next"
    BY DEF OrderInv, LoopEnds
  <2>2. QED
    BY <2>1 DEF AppliesInOrder
<1>4. QED
  BY <1>1, <1>2, <1>3, PTL DEF Spec, Chronological
=============================================================================
