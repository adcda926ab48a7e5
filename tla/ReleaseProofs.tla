---------------------------- MODULE ReleaseProofs ----------------------------
(***************************************************************************)
(* Theorems about Release, for any tasks, versions and interval.           *)
(*                                                                         *)
(* The four safety properties compare the history of checks with the       *)
(* store.  What makes them inductive: a kept check time is at most the     *)
(* one in the store, the tasks listed up to a check that kept its time     *)
(* were done by then, the store's check time is that of some check, and    *)
(* the running check has listed all that was done since the last time,     *)
(* but for what a chat has saved again.                                    *)
(***************************************************************************)
EXTENDS Release, TLAPS

Checked == 1..Len(checks)

\* From the list on, the last of `checks` is the running one.
Running ==
  /\ step \in {"stamp", "ask", "snapshot", "document", "record"} => Len(checks) > 0
  /\ step = "stamp" => /\ checks[Len(checks)].stamp = 0
                       /\ \A t \in Task \ resaved : doneAt[t] > lastCheck =>
                            <<t, doneAt[t]>> \in checks[Len(checks)].listed
  /\ step \in {"document", "record"} => snap[version] = Len(checks)
  /\ step = "record" => doc[version] = Len(checks)

\* What a check listed was done by then, and by the time any later check kept.
ListedByThen ==
  /\ \A k \in Checked : \A found \in checks[k].listed : found[2] <= now
  /\ \A i, k \in Checked : i <= k /\ checks[k].stamp # 0 =>
       \A found \in checks[i].listed : found[2] <= checks[k].stamp

\* The store has the time of a check, and of none before it.
LastIsKept ==
  /\ \A k \in Checked : checks[k].stamp <= lastCheck
  /\ lastCheck # 0 => \E k \in Checked : checks[k].stamp = lastCheck

\* While its reset was written, the counter is at most the tasks there were since.
CountedTasks ==
  noted => (IF step = "count" THEN count + 1 ELSE count) <= since

IInv == /\ TypeOK /\ RecordsFollowTheFiles /\ NoTaskListedTwice /\ OnlyTheSecondOfACheckIsLost
        /\ Running /\ ListedByThen /\ LastIsKept /\ CountedTasks

-----------------------------------------------------------------------------

\* What a check is made of.
LEMMA CheckTypes ==
  ASSUME TypeOK
  PROVE  \A k \in Checked : /\ checks[k] \in Check
                            /\ checks[k].listed \subseteq Task \X Nat /\ checks[k].stamp \in Nat
<1>1. \A k \in Checked : checks[k] \in Check
  BY DEF TypeOK, Checked
<1> QED BY <1>1 DEF Check

\* Nothing is done and nothing checked at first.
LEMMA InitIInv == Init => IInv
<1> SUFFICES ASSUME Init PROVE IInv
  OBVIOUS
<1> USE DEF Init
<1>1. Len(checks) = 0 /\ checks \in Seq(Check)
  OBVIOUS
<1>2. TypeOK
  BY <1>1, IntervalAssumption DEF TypeOK, Steps
<1>3. RecordsFollowTheFiles
  BY DEF RecordsFollowTheFiles
<1>4. Checked = {}
  BY <1>1 DEF Checked
<1>5. NoTaskListedTwice /\ OnlyTheSecondOfACheckIsLost
  BY <1>1 DEF NoTaskListedTwice, OnlyTheSecondOfACheckIsLost
<1>6. Running /\ ListedByThen /\ LastIsKept /\ CountedTasks
  BY <1>4 DEF Running, ListedByThen, LastIsKept, CountedTasks
<1> QED BY <1>2, <1>3, <1>5, <1>6 DEF IInv

-----------------------------------------------------------------------------

\* A task that is done now, or again: if the check time is this second already, it is one
\* that is lost, unless it is a chat that saved it.
LEMMA SavesIInv ==
  ASSUME IInv, NEW t \in Task, Finish(t) \/ ChatSaves(t)
  PROVE  IInv'
<1> USE DEF IInv
<1>0. PICK second \in 0..now :
        /\ doneAt' = [doneAt EXCEPT ![t] = second]
        /\ second = now \/ t \in resaved'
  BY DEF Finish, ChatSaves, TypeOK
<1>1. /\ UNCHANGED <<now, count, lastCheck, release, checks, noted>>
      /\ resaved' \in {resaved, resaved \cup {t}}
      /\ (step = "work" /\ step' = "count" /\ since' = since + 1) \/ UNCHANGED <<step, since>>
  BY DEF Finish, ChatSaves
<1>2. TypeOK'
  BY <1>0, <1>1 DEF TypeOK, Steps, release
<1>3. RecordsFollowTheFiles' /\ NoTaskListedTwice'
  BY <1>1 DEF RecordsFollowTheFiles, NoTaskListedTwice, release
<1>4. OnlyTheSecondOfACheckIsLost'
  <2> SUFFICES ASSUME NEW u \in Task, u \notin resaved', doneAt'[u] \in 1..lastCheck
               PROVE  \E k \in Checked : \/ <<u, doneAt'[u]>> \in checks[k].listed
                                         \/ checks[k].stamp = doneAt'[u]
    BY <1>1 DEF OnlyTheSecondOfACheckIsLost, Checked
  <2>1. CASE u = t
    <3>1. doneAt'[u] = now /\ lastCheck = now /\ now # 0
      BY <1>0, <2>1 DEF TypeOK
    <3> QED BY <3>1 DEF LastIsKept
  <2>2. CASE u # t
    BY <1>0, <1>1, <2>2 DEF OnlyTheSecondOfACheckIsLost, TypeOK, Checked
  <2> QED BY <2>1, <2>2
<1>5. Running'
  <2>1. \A u \in Task \ resaved' : u \in Task \ resaved /\ (u # t => doneAt'[u] = doneAt[u])
    BY <1>0, <1>1 DEF TypeOK
  <2>2. step = "stamp" => t \in resaved'
    BY DEF Finish, ChatSaves
  <2> QED BY <1>1, <2>1, <2>2 DEF Running, release
<1>6. ListedByThen' /\ LastIsKept'
  BY <1>1 DEF ListedByThen, LastIsKept, Checked
<1>7. CountedTasks'
  BY <1>1 DEF CountedTasks, TypeOK
<1> QED BY <1>2, <1>3, <1>4, <1>5, <1>6, <1>7

\* What a check lists is later than every time kept, and so in no list before the
\* last of those.
LEMMA ListDoneIInv == ASSUME IInv, ListDone PROVE IInv'
<1> USE DEF IInv, ListDone
<1> DEFINE n == Len(checks) + 1
<1>0. PICK second \in {lastCheck, 0} :
        checks' = Append(checks, [listed  |-> DoneSince(second),
                                  misread |-> second # lastCheck,
                                  stamp   |-> 0])
  OBVIOUS
<1>4. /\ second \in Nat /\ second <= lastCheck /\ DoneSince(second) \subseteq Task \X Nat
      /\ \A found \in DoneSince(second) : found[2] > second /\ found[2] <= now
      /\ \A t \in Task : doneAt[t] > lastCheck => <<t, doneAt[t]>> \in DoneSince(second)
  BY <1>0 DEF DoneSince, TypeOK
<1> HIDE DEF DoneSince
<1>1. /\ Len(checks') = n /\ n \in Nat /\ Len(checks) \in Nat /\ checks' \in Seq(Check)
      /\ \A k \in Checked : checks'[k] = checks[k]
      /\ checks'[n] = [listed |-> DoneSince(second), misread |-> second # lastCheck, stamp |-> 0]
  BY <1>0, <1>4 DEF TypeOK, Check, Checked
<1>2. TypeOK'
  BY <1>1 DEF TypeOK, Steps, store, release
<1>3. RecordsFollowTheFiles'
  BY DEF RecordsFollowTheFiles, release
<1>5. NoTaskListedTwice'
  <2> SUFFICES ASSUME NEW i \in 1..n, NEW j \in 1..n, i < j,
                      NEW found \in checks'[i].listed, found \in checks'[j].listed,
                      ~checks'[j].misread, NEW k \in i..(j - 1)
               PROVE  checks'[k].stamp = 0
    BY <1>1 DEF NoTaskListedTwice
  <2>1. i \in Checked /\ k \in Checked /\ i <= k
    BY <1>1 DEF Checked
  <2>2. CASE j = n
    <3>1. found \in checks[i].listed /\ found[2] > lastCheck
      <4>1. checks'[n].misread = (second # lastCheck) /\ checks'[n].listed = DoneSince(second)
        BY <1>1
      <4>2. second = lastCheck /\ found \in DoneSince(second)
        BY <2>2, <4>1
      <4> QED BY <1>1, <1>4, <2>1, <4>2
    <3>2. checks[k].stamp \in Nat /\ lastCheck \in Nat /\ found[2] \in Nat
      BY <1>1, <1>4, <2>1, <2>2, CheckTypes DEF TypeOK
    <3>3. checks[k].stamp <= lastCheck
      BY <2>1 DEF LastIsKept
    <3>4. checks[k].stamp # 0 => found[2] <= checks[k].stamp
      BY <2>1, <3>1 DEF ListedByThen
    <3> QED BY <1>1, <2>1, <3>1, <3>2, <3>3, <3>4
  <2>3. CASE j # n
    <3>1. j \in Checked /\ checks'[j] = checks[j] /\ checks'[i] = checks[i] /\ checks'[k] = checks[k]
      BY <1>1, <2>1, <2>3 DEF Checked
    <3>2. checks[i].listed \cap checks[j].listed # {}
      BY <3>1
    <3> QED BY <2>1, <3>1, <3>2 DEF NoTaskListedTwice, Checked
  <2> QED BY <2>2, <2>3
<1>6. OnlyTheSecondOfACheckIsLost'
  <2>1. \A k \in Checked : k \in 1..n
    BY <1>1 DEF Checked
  <2> QED BY <1>1, <2>1 DEF OnlyTheSecondOfACheckIsLost, Checked, store
<1>7. Running'
  BY <1>1, <1>4 DEF Running, store, release
<1>8. ListedByThen'
  <2>1. \A k \in 1..n : k \in Checked \/ k = n
    BY <1>1 DEF Checked
  <2>2. \A k \in 1..n : \A found \in checks'[k].listed : found[2] <= now
    BY <1>1, <1>4, <2>1 DEF ListedByThen
  <2>3. ASSUME NEW i \in 1..n, NEW k \in 1..n, i <= k, checks'[k].stamp # 0,
               NEW found \in checks'[i].listed
        PROVE  found[2] <= checks'[k].stamp
    <3>1. k \in Checked /\ i \in Checked
      BY <1>1, <2>1, <2>3 DEF Checked
    <3> QED BY <1>1, <2>3, <3>1 DEF ListedByThen
  <2> QED BY <1>1, <2>2, <2>3 DEF ListedByThen, Checked, store
<1>9. LastIsKept'
  <2>1. \A k \in 1..n : k \in Checked \/ k = n
    BY <1>1 DEF Checked
  <2>2. \A k \in 1..n : checks'[k].stamp <= lastCheck
    BY <1>1, <2>1 DEF LastIsKept, TypeOK
  <2>3. \A k \in Checked : k \in 1..n
    BY <1>1 DEF Checked
  <2>4. lastCheck # 0 => \E k \in 1..n : checks'[k].stamp = lastCheck
    BY <1>1, <2>3 DEF LastIsKept
  <2> QED BY <1>1, <2>2, <2>4 DEF LastIsKept, Checked, store
<1>10. CountedTasks'
  BY DEF CountedTasks, store
<1> QED BY <1>2, <1>3, <1>5, <1>6, <1>7, <1>8, <1>9, <1>10

\* The time that is kept is not before any task listed so far.
LEMMA StampIInv == ASSUME IInv, Stamp PROVE IInv'
<1> USE DEF IInv, Stamp
<1> DEFINE n == Len(checks)
<1>0. n \in Nat /\ n > 0 /\ n \in Checked /\ checks[n].stamp = 0 /\ now \in Nat /\ now # 0
  BY DEF Running, Checked, TypeOK
<1>1. CASE UNCHANGED <<lastCheck, checks>>
  <2>0. TypeOK'
    BY <1>1 DEF TypeOK, Steps, release
  <2>1. RecordsFollowTheFiles' /\ NoTaskListedTwice' /\ OnlyTheSecondOfACheckIsLost'
    BY <1>1 DEF RecordsFollowTheFiles, NoTaskListedTwice, OnlyTheSecondOfACheckIsLost, release
  <2>2. Running' /\ ListedByThen' /\ LastIsKept' /\ CountedTasks'
    BY <1>1, <1>0 DEF Running, ListedByThen, LastIsKept, CountedTasks, Checked, release
  <2> QED BY <2>0, <2>1, <2>2
<1>2. CASE lastCheck' = now /\ checks' = [checks EXCEPT ![Len(checks)].stamp = now]
  <2>1. /\ Len(checks') = n /\ checks' \in Seq(Check)
        /\ \A k \in Checked : /\ checks'[k].listed = checks[k].listed
                              /\ checks'[k].misread = checks[k].misread
                              /\ checks'[k].stamp = IF k = n THEN now ELSE checks[k].stamp
    <3>1. checks[n] \in Check /\ checks'[n] = [checks[n] EXCEPT !.stamp = now]
      <4>1. checks \in Seq(Check) /\ DOMAIN checks = Checked
        BY DEF TypeOK, Checked
      <4>2. checks[n] \in Check
        BY <1>0, CheckTypes
      <4> QED BY <1>0, <1>2, <4>1, <4>2
    <3>2. /\ checks'[n].listed = checks[n].listed /\ checks'[n].misread = checks[n].misread
          /\ checks'[n].stamp = now /\ checks'[n] \in Check
      BY <1>0, <3>1 DEF Check
    <3>3. \A k \in Checked : k # n => checks'[k] = checks[k]
      BY <1>0, <1>2 DEF TypeOK, Checked
    <3>4. Len(checks') = n /\ checks' \in Seq(Check)
      BY <1>0, <1>2, <3>1, <3>2 DEF TypeOK
    <3> QED BY <3>2, <3>3, <3>4
  <2>2. TypeOK'
    BY <1>2, <2>1 DEF TypeOK, Steps, release
  <2>3. RecordsFollowTheFiles'
    BY DEF RecordsFollowTheFiles, release
  <2>4. NoTaskListedTwice'
    <3> SUFFICES ASSUME NEW i \in Checked, NEW j \in Checked, i < j,
                        checks[i].listed \cap checks[j].listed # {}, ~checks[j].misread,
                        NEW k \in i..(j - 1)
                 PROVE  checks'[k].stamp = 0
      BY <2>1 DEF NoTaskListedTwice, Checked
    <3>1. k \in Checked /\ k # n
      BY <1>0 DEF Checked
    <3>2. checks[k].stamp = 0
      BY DEF NoTaskListedTwice, Checked
    <3> QED BY <2>1, <3>1, <3>2
  <2>5. OnlyTheSecondOfACheckIsLost'
    <3> SUFFICES ASSUME NEW t \in Task \ resaved, doneAt[t] \in 1..now
                 PROVE  \E k \in Checked : \/ <<t, doneAt[t]>> \in checks'[k].listed
                                           \/ checks'[k].stamp = doneAt[t]
      BY <1>2, <2>1 DEF OnlyTheSecondOfACheckIsLost, Checked
    <3>1. CASE doneAt[t] > lastCheck
      <4>1. <<t, doneAt[t]>> \in checks[n].listed
        BY <3>1, <1>0 DEF Running
      <4> QED BY <1>0, <2>1, <4>1
    <3>2. CASE ~(doneAt[t] > lastCheck)
      <4>0. doneAt[t] \in 1..lastCheck
        BY <3>2 DEF TypeOK
      <4>1. PICK k \in Checked : \/ <<t, doneAt[t]>> \in checks[k].listed
                                 \/ checks[k].stamp = doneAt[t]
        BY <4>0 DEF OnlyTheSecondOfACheckIsLost, Checked
      <4> QED BY <1>0, <2>1, <4>1
    <3> QED BY <3>1, <3>2
  <2>6. Running'
    BY <1>0, <2>1 DEF Running, release
  <2>7. ListedByThen'
    <3>1. \A i, k \in Checked : i <= k /\ checks'[k].stamp # 0 =>
            \A found \in checks[i].listed : found[2] <= checks'[k].stamp
      BY <1>0, <2>1 DEF ListedByThen
    <3> QED BY <2>1, <3>1 DEF ListedByThen, Checked
  <2>8. LastIsKept'
    <3>1. \A k \in Checked : checks[k].stamp \in Nat /\ checks[k].stamp <= now
      BY CheckTypes DEF TypeOK, LastIsKept
    <3> QED BY <1>0, <1>2, <2>1, <3>1 DEF LastIsKept, Checked
  <2>9. CountedTasks'
    BY DEF CountedTasks
  <2> QED BY <2>2, <2>3, <2>4, <2>5, <2>6, <2>7, <2>8, <2>9
<1> QED BY <1>1, <1>2

\* The remaining steps leave the store's times and the history of checks alone.
LEMMA OtherIInv ==
  ASSUME IInv,
         \/ CountOnly \/ BeginCheck \/ (\E v \in Version : Approve(v))
         \/ Snapshot \/ Document \/ Record \/ GiveUp \/ Crash \/ Tick
  PROVE  IInv'
<1> USE DEF IInv
<1> USE DEF CountOnly, BeginCheck, Approve, Snapshot, Document, Record, GiveUp, Crash, Tick
<1>0. UNCHANGED <<doneAt, lastCheck, checks, resaved>> /\ now <= now' /\ now' \in Nat
  BY DEF store, history, TypeOK
<1>1. TypeOK'
  <2>1. Len(checks) \in Nat
    BY DEF TypeOK
  <2>2. CASE CountOnly
    BY <2>2, IntervalAssumption DEF TypeOK, Steps, CountRead, release, history
  <2>6. CASE BeginCheck
    <3>1. noted' \in BOOLEAN
      BY <2>6
    <3>2. count' \in Nat /\ (releaseInterval > 0 => count' < releaseInterval)
      BY <2>6, IntervalAssumption DEF TypeOK
    <3> QED BY <2>6, <3>1, <3>2 DEF TypeOK, Steps, release
  <2>3. CASE (\E v \in Version : Approve(v)) \/ GiveUp \/ Crash
    BY <2>3 DEF TypeOK, Steps, store, release, history
  <2>4. CASE Snapshot \/ Document \/ Record
    <3>1. \A f \in [Version -> 0..Len(checks)] : WrittenBy(f) \in [Version -> 0..Len(checks)]
      <4> SUFFICES ASSUME NEW f \in [Version -> 0..Len(checks)]
                   PROVE  [f EXCEPT ![version] = Len(checks)] \in [Version -> 0..Len(checks)]
        BY DEF WrittenBy
      <4>1. Len(checks) \in 0..Len(checks)
        BY <2>1
      <4> QED BY <4>1
    <3> QED BY <2>1, <2>4, <3>1 DEF TypeOK, Steps, store, history
  <2>5. CASE Tick
    BY <2>5, IntervalAssumption DEF TypeOK, Steps, store, release, history
  <2> QED BY <2>2, <2>3, <2>4, <2>5, <2>6
<1>2. NoTaskListedTwice' /\ OnlyTheSecondOfACheckIsLost' /\ ListedByThen' /\ LastIsKept'
  <2>1. \A k \in Checked : \A found \in checks[k].listed : found[2] \in Nat
    BY CheckTypes
  <2>2. ListedByThen'
    BY <1>0, <2>1 DEF ListedByThen, Checked, TypeOK
  <2> QED BY <1>0, <2>2 DEF NoTaskListedTwice, OnlyTheSecondOfACheckIsLost, LastIsKept, Checked
<1>3. RecordsFollowTheFiles' /\ Running'
  <2>1. CASE Snapshot
    BY <2>1, <1>0 DEF TypeOK, RecordsFollowTheFiles, Running, WrittenBy, store, history
  <2>2. CASE Document
    BY <2>2, <1>0 DEF TypeOK, RecordsFollowTheFiles, Running, WrittenBy, store, history
  <2>3. CASE Record
    BY <2>3, <1>0 DEF TypeOK, RecordsFollowTheFiles, Running, WrittenBy, store, history
  <2>4. CASE CountOnly \/ BeginCheck \/ (\E v \in Version : Approve(v)) \/ GiveUp \/ Crash \/ Tick
    BY <2>4, <1>0 DEF RecordsFollowTheFiles, Running, release
  <2> QED BY <2>1, <2>2, <2>3, <2>4
<1>4. CountedTasks'
  <2>1. count \in Nat /\ since \in Nat
    BY DEF TypeOK
  <2>2. CASE CountOnly
    BY <2>1, <2>2 DEF CountedTasks, CountRead, history
  <2>3. CASE BeginCheck
    BY <2>1, <2>3 DEF CountedTasks
  <2>4. CASE ~CountOnly /\ ~BeginCheck
    <3>1. UNCHANGED <<count, since, noted>> /\ (step' = step \/ step' # "count")
      BY <2>4 DEF store, history
    <3> QED BY <2>1, <3>1 DEF CountedTasks
  <2> QED BY <2>2, <2>3, <2>4
<1> QED BY <1>1, <1>2, <1>3, <1>4

\* Every step keeps the invariant.
LEMMA StepIInv == IInv /\ [Next]_vars => IInv'
<1> SUFFICES ASSUME IInv, [Next]_vars
             PROVE  IInv'
  OBVIOUS
<1>1. CASE Next
  BY <1>1, SavesIInv, ListDoneIInv, StampIInv, OtherIInv DEF Next, CheckStep
<1>2. CASE UNCHANGED vars
  <2>0. TypeOK'
    BY <1>2 DEF IInv, vars, store, release, history, TypeOK
  <2>1. RecordsFollowTheFiles' /\ NoTaskListedTwice' /\ OnlyTheSecondOfACheckIsLost'
    BY <1>2 DEF IInv, vars, store, release, history, RecordsFollowTheFiles,
                NoTaskListedTwice, OnlyTheSecondOfACheckIsLost
  <2>2. Running' /\ ListedByThen' /\ LastIsKept' /\ CountedTasks'
    BY <1>2 DEF IInv, vars, store, release, history, Running, ListedByThen, LastIsKept,
                CountedTasks, Checked
  <2> QED BY <2>0, <2>1, <2>2 DEF IInv
<1> QED BY <1>1, <1>2

-----------------------------------------------------------------------------

\* The strengthening is an invariant.
THEOREM InductiveInvariant == Spec => []IInv
  BY InitIInv, StepIInv, PTL DEF Spec

\* Whatever fails and whenever the process is killed, two checks find the same save of a
\* task only if no check time was kept between them, or the second could not read it.
THEOREM NothingIsListedTwice == Spec => []NoTaskListedTwice
<1>1. IInv => NoTaskListedTwice
  BY DEF IInv
<1> QED BY InductiveInvariant, <1>1, PTL

\* Only tasks done in the second of a check, or saved again by a chat, are found by no
\* check and never will be.
THEOREM LostTasksAreOfACheckSecond == Spec => []OnlyTheSecondOfACheckIsLost
<1>1. IInv => OnlyTheSecondOfACheckIsLost
  BY DEF IInv
<1> QED BY InductiveInvariant, <1>1, PTL

\* A listed release has the files it was listed for, or newer ones of its version.
THEOREM ListedReleasesHaveFiles == Spec => []RecordsFollowTheFiles
<1>1. IInv => RecordsFollowTheFiles
  BY DEF IInv
<1> QED BY InductiveInvariant, <1>1, PTL

\* Two checks are releaseInterval done tasks apart, unless the write of the reset
\* counter failed.
THEOREM ChecksKeepTheInterval == Spec => ChecksAreApart
<1>1. IInv /\ [Next]_vars =>
        (step = "count" /\ step' = "list" => since >= releaseInterval \/ ~noted)
  <2> SUFFICES ASSUME IInv, [Next]_vars, step = "count", step' = "list", noted
               PROVE  since >= releaseInterval
    OBVIOUS
  <2>1. BeginCheck
    BY DEF Next, CheckStep, Finish, ChatSaves, CountOnly, ListDone, Stamp, Approve, Snapshot, Document,
           Record, GiveUp, Crash, Tick, vars
  <2>2. count + 1 <= since /\ count + 1 >= releaseInterval
    <3>1. PICK n \in CountRead : n + 1 >= releaseInterval
      BY <2>1 DEF BeginCheck, Due
    <3> QED BY <3>1, IntervalAssumption DEF CountRead, IInv, CountedTasks, TypeOK
  <2> QED BY <2>2, IntervalAssumption DEF IInv, TypeOK
<1>2. IInv /\ [Next]_vars =>
        [step = "count" /\ step' = "list" => since >= releaseInterval \/ ~noted]_vars
  BY <1>1
<1> QED BY InductiveInvariant, <1>2, PTL DEF Spec, ChecksAreApart
=============================================================================
