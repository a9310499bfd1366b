------------------------ MODULE CheckPublicationProofs ------------------------
(***************************************************************************)
(* Proofs about CheckPublication for any number of publishers and any      *)
(* number of publications.                                                 *)
(***************************************************************************)
EXTENDS CheckPublication, FiniteSetTheorems, SequenceTheorems, TLAPS

\* An update of well-typed rows is a well-typed row.
LEMMA WrittenType ==
    ASSUME NEW cur \in PubRow, NEW old \in PubRow, NEW new \in PubRow
    PROVE  Written(cur, old, new) \in PubRow
  BY DEF Written, Dirty, PubRow

\* The rows the steps of a publisher assign.
LEMMA PubRowTypes ==
    /\ NoPub \in PubRow
    /\ NewPub \in PubRow
    /\ \A old \in PubRow :
         /\ Marked(old) \in PubRow
         /\ \A status \in {"published"} \cup Failures :
              [old EXCEPT !.status = status] \in PubRow
         /\ \A c \in Nat :
              [old EXCEPT !.status = "published", !.check = c] \in PubRow
  <1>1. NoPub \in PubRow /\ NewPub \in PubRow
    BY DEF NoPub, NewPub, PubRow, NoCheck
  <1>2. ASSUME NEW old \in PubRow PROVE Marked(old) \in PubRow
    <2>1. old.attempts + 1 \in Nat
      BY DEF PubRow
    <2> QED
      BY <2>1 DEF Marked, PubRow
  <1>3. ASSUME NEW old \in PubRow,
               NEW status \in {"published"} \cup Failures
        PROVE  [old EXCEPT !.status = status] \in PubRow
    BY DEF PubRow, Failures
  <1>4. ASSUME NEW old \in PubRow, NEW c \in Nat
        PROVE  [old EXCEPT !.status = "published", !.check = c] \in PubRow
    BY DEF PubRow
  <1> QED
    BY <1>1, <1>2, <1>3, <1>4

\* What an executed request does to the Check Runs: each shows what it showed,
\* or what the request carries.
LEMMA ExecutedEffect ==
    ASSUME TypeOK, NEW check \in Nat, NEW shown \in Nat, check <= Len(checks),
           Executed(check, shown)
    PROVE  /\ checks' \in Seq(Nat)
           /\ check # NoCheck => Len(checks') = Len(checks) /\ checks'[check] = shown
           /\ check = NoCheck => /\ Len(checks') = Len(checks) + 1
                                 /\ checks'[Len(checks) + 1] = shown
           /\ Len(checks) \in Nat
           /\ \A c \in DOMAIN checks : checks'[c] \in {checks[c], shown}
           /\ \A c \in DOMAIN checks' : c \in DOMAIN checks \/ checks'[c] = shown
  <1>1. CASE check = NoCheck
    <2>1. checks' = Append(checks, shown)
      BY <1>1 DEF Executed
    <2> QED
      BY <1>1, <2>1 DEF TypeOK
  <1>2. CASE check # NoCheck
    <2>1. check \in DOMAIN checks
      BY <1>2 DEF NoCheck, TypeOK
    <2>2. checks' = [checks EXCEPT ![check] = shown]
      BY <1>2 DEF Executed
    <2> QED
      BY <1>2, <2>1, <2>2 DEF TypeOK
  <1> QED
    BY <1>1, <1>2

\* What a late request carries.
LEMMA LateTyped ==
    ASSUME TypeOK, NEW i \in DOMAIN late
    PROVE  late[i].check \in Nat /\ late[i].shown \in Nat
  <1> DEFINE R == [check : Nat, shown : Nat]
  <1>1. late \in Seq(R)
    BY DEF TypeOK
  <1>2. \A r \in R : r.check \in Nat /\ r.shown \in Nat
    OBVIOUS
  <1> HIDE DEF R
  <1>3. late[i] \in R
    BY <1>1, LenProperties
  <1> QED
    BY <1>2, <1>3

\* The late requests that are left when one has been executed.
LEMMA RemovedLate ==
    ASSUME TypeOK, NEW i \in DOMAIN late, late' = RemoveAt(late, i)
    PROVE  /\ late' \in Seq([check : Nat, shown : Nat])
           /\ Len(late') = Len(late) - 1 /\ Len(late) \in Nat
           /\ \A k \in DOMAIN late' : \E l \in DOMAIN late : late'[k] = late[l]
  <1> DEFINE R == [check : Nat, shown : Nat]
             n == Len(late)
             a == SubSeq(late, 1, i - 1)
             b == SubSeq(late, i + 1, n)
  <1>1. /\ late \in Seq(R) /\ n \in Nat /\ i \in 1 .. n
        /\ DOMAIN late = 1 .. n /\ \A l \in 1 .. n : late[l] \in R
    BY LenProperties DEF TypeOK
  <1> HIDE DEF R, n
  <1>2. /\ a \in Seq(R) /\ Len(a) = i - 1
        /\ \A k \in 1 .. i - 1 : a[k] = late[k]
    <2>1. \A l \in 1 .. i - 1 : late[l] \in R
      BY <1>1
    <2>2. /\ a \in Seq(R) /\ Len(a) = IF 1 <= i - 1 THEN i - 1 - 1 + 1 ELSE 0
          /\ \A k \in 1 .. i - 1 - 1 + 1 : a[k] = late[1 + k - 1]
      BY <1>1, <2>1, SubSeqProperties
    <2> QED
      BY <1>1, <2>2
  <1>3. /\ b \in Seq(R) /\ Len(b) = n - i
        /\ \A k \in 1 .. n - i : b[k] = late[i + k]
    <2>1. \A l \in i + 1 .. n : late[l] \in R
      BY <1>1
    <2>2. /\ b \in Seq(R)
          /\ Len(b) = IF i + 1 <= n THEN n - (i + 1) + 1 ELSE 0
          /\ \A k \in 1 .. n - (i + 1) + 1 : b[k] = late[i + 1 + k - 1]
      BY <1>1, <2>1, SubSeqProperties
    <2> QED
      BY <1>1, <2>2
  <1>4. late' = a \o b
    BY DEF RemoveAt, n
  <1> HIDE DEF a, b
  <1>5. /\ late' \in Seq(R) /\ Len(late') = i - 1 + (n - i)
        /\ \A k \in 1 .. i - 1 + (n - i) :
             late'[k] = IF k <= i - 1 THEN a[k] ELSE b[k - (i - 1)]
    BY <1>2, <1>3, <1>4, ConcatProperties
  <1>6. DOMAIN late' = 1 .. i - 1 + (n - i)
    BY <1>5, LenProperties
  <1>7. \A k \in DOMAIN late' : \E l \in DOMAIN late : late'[k] = late[l]
    <2> SUFFICES ASSUME NEW k \in 1 .. i - 1 + (n - i)
                 PROVE  \E l \in 1 .. n : late'[k] = late[l]
      BY <1>1, <1>6
    <2>1. CASE k <= i - 1
      BY <1>1, <1>2, <1>5, <2>1
    <2>2. CASE ~(k <= i - 1)
      <3>1. late'[k] = b[k - (i - 1)] /\ k - (i - 1) \in 1 .. n - i
        BY <1>1, <1>5, <2>2
      <3>2. late'[k] = late[i + (k - (i - 1))] /\ i + (k - (i - 1)) \in 1 .. n
        BY <1>1, <1>3, <2>2, <3>1
      <3> QED
        BY <3>2
    <2> QED
      BY <2>1, <2>2
  <1> QED
    BY <1>1, <1>5, <1>7 DEF R, n

-------------------------------------------------------------------------------
(* Types and Check Run IDs *)

IdInv == TypeOK /\ IdsExist

\* The invariant on IDs holds before the first publication.
LEMMA IdInit == Init => IdInv
  <1> SUFFICES ASSUME Init PROVE IdInv
    OBVIOUS
  <1>1. TypeOK
    <2>1. row \in PubRow /\ copy \in [Publishers -> PubRow]
      BY PubRowTypes DEF Init
    <2>2. checks \in Seq(Nat) /\ late \in Seq([check : Nat, shown : Nat])
      BY DEF Init
    <2>3. /\ connError \in Failures \cup {NoError}
          /\ conn \in [Publishers -> Failures \cup {NoError}]
          /\ alone \in [Publishers -> BOOLEAN]
      BY DEF Init
    <2>4. /\ version \in Nat /\ starts \in Nat /\ lates \in 0 .. MaxLate
          /\ content \in [Publishers -> Nat] /\ target \in [Publishers -> Nat]
      BY CheckAssumption DEF Init, NoCheck
    <2> QED
      BY <2>1, <2>2, <2>3, <2>4 DEF Init, TypeOK
  <1>2. IdsExist
    BY DEF Init, IdsExist, NoPub, NoCheck
  <1> QED
    BY <1>1, <1>2 DEF IdInv

\* Every step of a publisher and of GitHub keeps it.
LEMMA IdStep == IdInv /\ [Next]_vars => IdInv'
  <1> SUFFICES ASSUME IdInv, [Next]_vars PROVE IdInv'
    OBVIOUS
  <1>l. Len(checks) \in Nat /\ row.check \in Nat /\ row \in PubRow
    BY DEF IdInv, TypeOK, PubRow
  <1>p. \A p \in Publishers : /\ copy[p] \in PubRow /\ copy[p].check \in Nat
                              /\ target[p] \in Nat /\ copy[p].attempts \in Nat
    BY DEF IdInv, TypeOK, PubRow
  <1>e. ASSUME NEW p \in Publishers, Leave(p)
        PROVE  /\ pc' \in [Publishers -> {"idle", "fetch", "insert", "mark", "find",
                                           "send", "failed", "record"}]
               /\ copy' \in [Publishers -> PubRow]
               /\ conn' \in [Publishers -> Failures \cup {NoError}]
               /\ content' \in [Publishers -> Nat] /\ target' \in [Publishers -> Nat]
               /\ alone' \in [Publishers -> BOOLEAN]
               /\ \A q \in Publishers :
                    IF q = p
                    THEN pc'[q] = "idle" /\ copy'[q] = NoPub /\ target'[q] = NoCheck
                    ELSE pc'[q] = pc[q] /\ copy'[q] = copy[q] /\ target'[q] = target[q]
               /\ NoPub.check = NoCheck /\ NoPub.status = "absent" /\ NoCheck <= Len(checks)
    <2>1. NoPub \in PubRow /\ NoPub.check = NoCheck /\ NoPub.status = "absent"
      BY PubRowTypes DEF NoPub
    <2>2. NoCheck \in Nat /\ NoCheck <= Len(checks)
      BY <1>l DEF NoCheck
    <2> QED
      BY <1>e, <2>1, <2>2 DEF Leave, Goto, IdInv, TypeOK
  <1>1. ASSUME Reanalyze PROVE IdInv'
    BY <1>1 DEF Reanalyze, IdInv, TypeOK, IdsExist
  <1>2. ASSUME LateArrives PROVE IdInv'
    <2>1. PICK i \in DOMAIN late :
            Executed(late[i].check, late[i].shown) /\ late' = RemoveAt(late, i)
      BY <1>2 DEF LateArrives
    <2>2. /\ late[i].check \in Nat /\ late[i].shown \in Nat
          /\ late[i].check <= Len(checks)
      BY LateTyped DEF IdInv, IdsExist
    <2>3. checks' \in Seq(Nat) /\ Len(checks') \in Nat /\ Len(checks) <= Len(checks')
      BY <1>l, <2>1, <2>2, ExecutedEffect DEF IdInv
    <2>4. /\ late' \in Seq([check : Nat, shown : Nat])
          /\ \A k \in DOMAIN late' : \E l \in DOMAIN late : late'[k] = late[l]
      BY <2>1, RemovedLate DEF IdInv
    <2>5. TypeOK'
      BY <1>2, <2>3, <2>4 DEF LateArrives, IdInv, TypeOK
    <2>6. \A k \in DOMAIN late' : late'[k].check <= Len(checks')
      <3> SUFFICES ASSUME NEW k \in DOMAIN late' PROVE late'[k].check <= Len(checks')
        OBVIOUS
      <3>1. PICK l \in DOMAIN late : late'[k] = late[l]
        BY <2>4
      <3>2. late[l].check <= Len(checks) /\ late[l].check \in Nat
        BY LateTyped DEF IdInv, IdsExist
      <3> QED
        BY <1>l, <2>3, <3>1, <3>2
    <2>7. /\ row' = row /\ copy' = copy /\ target' = target /\ pc' = pc
          /\ row.check <= Len(checks')
          /\ \A p \in Publishers : copy[p].check <= Len(checks') /\ target[p] <= Len(checks')
      BY <1>l, <1>p, <1>2, <2>3 DEF LateArrives, IdInv, IdsExist
    <2>8. IdsExist'
      BY <2>6, <2>7 DEF IdInv, IdsExist
    <2> QED
      BY <2>5, <2>8 DEF IdInv
  <1>3. ASSUME NEW p \in Publishers, Begin(p) PROVE IdInv'
    BY <1>l, <1>3 DEF Begin, Goto, GitHubUnchanged, IdInv, TypeOK, IdsExist, NoCheck
  <1>4. ASSUME NEW p \in Publishers, Fetch(p) PROVE IdInv'
    BY <1>4 DEF Fetch, Goto, GitHubUnchanged, IdInv, TypeOK, IdsExist
  <1>5. ASSUME NEW p \in Publishers, Insert(p) PROVE IdInv'
    <2>1. row' \in PubRow /\ (row' = row \/ (row = NoPub /\ row' = NewPub))
      BY <1>5, <1>l, PubRowTypes DEF Insert
    <2>2. row = NoPub => row.check = NoCheck
      BY DEF NoPub
    <2>3. NewPub.check = NoCheck /\ NewPub.status = "pending"
      BY DEF NewPub, NoPub
    <2>4. TypeOK'
      BY <1>5, <2>1 DEF Insert, Goto, GitHubUnchanged, IdInv, TypeOK
    <2>5. copy' = [copy EXCEPT ![p] = row'] /\ target' = target /\ checks' = checks
            /\ pc' = [pc EXCEPT ![p] = "mark"] /\ late' = late
      BY <1>5 DEF Insert, Goto, GitHubUnchanged
    <2>6. IdsExist'
      BY <1>l, <1>p, <2>1, <2>2, <2>3, <2>5 DEF IdInv, TypeOK, IdsExist, NoCheck
    <2> QED
      BY <2>4, <2>6 DEF IdInv
  <1>6. ASSUME NEW p \in Publishers, Mark(p) PROVE IdInv'
    <2>1. /\ Marked(copy[p]) \in PubRow
          /\ Marked(copy[p]).check = copy[p].check
          /\ Marked(copy[p]).status = "publishing"
      <3>1. Marked(copy[p]) \in PubRow
        BY <1>p, PubRowTypes
      <3>2. /\ Marked(copy[p]).check = copy[p].check
            /\ Marked(copy[p]).status = "publishing"
        BY <1>p DEF Marked, PubRow
      <3> QED
        BY <3>1, <3>2
    <2>2. row' \in PubRow
      BY <1>6, <1>l, <1>p, <2>1, WrittenType DEF Mark
    <2>3. row'.check = row.check /\ (row'.status = "published" => row.status = "published")
      BY <1>6, <2>1 DEF Mark, Written, Dirty
    <2>4. TypeOK'
      BY <1>6, <1>p, <2>1, <2>2 DEF Mark, Goto, GitHubUnchanged, IdInv, TypeOK
    <2>5. /\ copy' = [copy EXCEPT ![p] = Marked(copy[p])]
          /\ target' = [target EXCEPT ![p] = copy[p].check] /\ checks' = checks
          /\ late' = late
          /\ pc'[p] # "record" /\ \A q \in Publishers \ {p} : pc'[q] = pc[q]
      BY <1>6 DEF Mark, Goto, GitHubUnchanged, IdInv, TypeOK
    <2>6. IdsExist'
      BY <1>l, <1>p, <2>1, <2>3, <2>5 DEF IdInv, TypeOK, IdsExist
    <2> QED
      BY <2>4, <2>6 DEF IdInv
  <1>7. ASSUME NEW p \in Publishers, Find(p) PROVE IdInv'
    <2>1. target' = target \/ \E c \in DOMAIN checks : target' = [target EXCEPT ![p] = c]
      BY <1>7 DEF Find
    <2>2. \A c \in DOMAIN checks : c \in Nat /\ c <= Len(checks)
      BY <1>l DEF IdInv, TypeOK
    <2>3. TypeOK'
      BY <1>7, <2>1, <2>2 DEF Find, Goto, GitHubUnchanged, IdInv, TypeOK
    <2>4. /\ row' = row /\ copy' = copy /\ checks' = checks /\ late' = late
          /\ pc' = [pc EXCEPT ![p] = "send"]
      BY <1>7 DEF Find, Goto, GitHubUnchanged
    <2>5. IdsExist'
      BY <2>1, <2>2, <2>4 DEF IdInv, TypeOK, IdsExist
    <2> QED
      BY <2>3, <2>5 DEF IdInv
  <1>8. ASSUME NEW p \in Publishers, Delivered(p)
        PROVE  /\ checks' \in Seq(Nat)
               /\ Len(checks') \in Nat /\ Len(checks) <= Len(checks')
               /\ target[p] = NoCheck => Len(checks') = Len(checks) + 1
               /\ late' = late => \A i \in DOMAIN late' : late'[i].check <= Len(checks')
    <2>1. target[p] <= Len(checks) /\ target[p] \in Nat /\ content[p] \in Nat
      BY DEF IdInv, TypeOK, IdsExist
    <2>2. /\ checks' \in Seq(Nat) /\ Len(checks') \in Nat /\ Len(checks) <= Len(checks')
          /\ target[p] = NoCheck => Len(checks') = Len(checks) + 1
      BY <1>l, <1>8, <2>1, ExecutedEffect DEF IdInv, Delivered
    <2>3. \A i \in DOMAIN late : late[i].check <= Len(checks')
      <3> SUFFICES ASSUME NEW i \in DOMAIN late PROVE late[i].check <= Len(checks')
        OBVIOUS
      <3>1. late[i].check \in Nat /\ late[i].check <= Len(checks)
        BY LateTyped DEF IdInv, IdsExist
      <3> QED
        BY <1>l, <2>2, <3>1
    <2> QED
      BY <2>2, <2>3
  <1>9. ASSUME NEW p \in Publishers, Send(p) PROVE IdInv'
    <2>1. Delivered(p) /\ row' = row /\ copy' = copy /\ pc' = [pc EXCEPT ![p] = "record"]
      BY <1>9 DEF Send, Goto
    <2>2. /\ checks' \in Seq(Nat) /\ Len(checks') \in Nat /\ Len(checks) <= Len(checks')
          /\ target[p] = NoCheck => Len(checks') = Len(checks) + 1
      BY <1>8, <2>1
    <2>3. target' = [target EXCEPT ![p] =
                       IF target[p] = NoCheck THEN Len(checks) + 1 ELSE target[p]]
      BY <1>9 DEF Send
    <2>4. TypeOK'
      BY <1>9, <1>l, <1>p, <2>1, <2>2, <2>3 DEF Send, IdInv, TypeOK
    <2>5. target'[p] # NoCheck /\ target'[p] <= Len(checks')
      BY <1>l, <1>p, <2>2, <2>3 DEF IdInv, TypeOK, IdsExist, NoCheck
    <2>6. \A q \in Publishers \ {p} : target'[q] = target[q] /\ pc'[q] = pc[q]
      BY <2>1, <2>3 DEF IdInv, TypeOK
    <2>7. IdsExist'
      <3>1. row'.check <= Len(checks')
        BY <1>l, <2>1, <2>2 DEF IdInv, IdsExist
      <3>2. ASSUME NEW q \in Publishers
            PROVE  copy'[q].check <= Len(checks') /\ target'[q] <= Len(checks')
        <4>1. copy[q].check <= Len(checks) /\ target[q] <= Len(checks)
          BY DEF IdInv, IdsExist
        <4>2. copy[q].check <= Len(checks') /\ target[q] <= Len(checks')
          BY <1>l, <1>p, <2>2, <4>1
        <4> QED
          BY <2>1, <2>5, <2>6, <4>2
      <3>3. \A q \in Publishers : pc'[q] = "record" => target'[q] # NoCheck
        BY <2>5, <2>6 DEF IdInv, IdsExist
      <3>4. \A i \in DOMAIN late' : late'[i].check <= Len(checks')
        BY <1>8, <1>9, <2>1 DEF Send
      <3> QED
        BY <2>1, <3>1, <3>2, <3>3, <3>4 DEF IdInv, IdsExist
    <2> QED
      BY <2>4, <2>7 DEF IdInv
  <1>10. ASSUME NEW p \in Publishers, SendUnanswered(p) PROVE IdInv'
    <2>1. /\ Delivered(p) /\ row' = row /\ copy' = copy /\ target' = target
          /\ pc' = [pc EXCEPT ![p] = "failed"]
      BY <1>10 DEF SendUnanswered, Goto
    <2>2. checks' \in Seq(Nat) /\ Len(checks') \in Nat /\ Len(checks) <= Len(checks')
      BY <1>8, <2>1
    <2>3. TypeOK'
      BY <1>10, <2>1, <2>2 DEF SendUnanswered, IdInv, TypeOK
    <2>4. \A i \in DOMAIN late' : late'[i].check <= Len(checks')
      BY <1>8, <1>10, <2>1 DEF SendUnanswered
    <2>5. IdsExist'
      BY <1>l, <1>p, <2>1, <2>2, <2>4 DEF IdInv, TypeOK, IdsExist, NoCheck
    <2> QED
      BY <2>3, <2>5 DEF IdInv
  <1>11. ASSUME NEW p \in Publishers, RequestFails(p) PROVE IdInv'
    BY <1>11 DEF RequestFails, Goto, GitHubUnchanged, IdInv, TypeOK, IdsExist
  <1>12. ASSUME NEW p \in Publishers, SendLate(p) PROVE IdInv'
    <2> DEFINE r == [check |-> target[p], shown |-> content[p]]
    <2>1. late \in Seq([check : Nat, shown : Nat]) /\ r \in [check : Nat, shown : Nat]
      BY <1>p DEF IdInv, TypeOK
    <2>2. late' = Append(late, r) /\ r.check = target[p] /\ checks' = checks
      BY <1>12 DEF SendLate
    <2> HIDE DEF r
    <2>3. /\ late' \in Seq([check : Nat, shown : Nat])
          /\ \A i \in DOMAIN late' : late'[i] = r \/ (i \in DOMAIN late /\ late'[i] = late[i])
      BY <2>1, <2>2
    <2>4. lates' \in 0 .. MaxLate
      BY <1>12, CheckAssumption DEF SendLate, IdInv, TypeOK
    <2>5. TypeOK'
      BY <1>12, <2>3, <2>4 DEF SendLate, Goto, IdInv, TypeOK
    <2>6. \A i \in DOMAIN late' : late'[i].check <= Len(checks')
      BY <2>2, <2>3 DEF IdInv, IdsExist
    <2>7. IdsExist'
      BY <1>12, <2>6 DEF SendLate, Goto, IdInv, TypeOK, IdsExist
    <2> QED
      BY <2>5, <2>7 DEF IdInv
  <1>13. ASSUME NEW p \in Publishers, NEW new \in PubRow,
                NEW error \in Failures \cup {NoError},
                Finish(p, new, error),
                \/ new.check = copy[p].check /\ new.status # "published"
                \/ new.check # NoCheck /\ new.check <= Len(checks)
         PROVE  IdInv'
    <2>1. row' \in PubRow /\ row' = Written(row, copy[p], new)
      BY <1>13, <1>l, <1>p, WrittenType DEF Finish
    <2>2. TypeOK'
      BY <1>13, <1>e, <2>1 DEF Finish, Dirty, GitHubUnchanged, IdInv, TypeOK
    <2>3. checks' = checks /\ late' = late
      BY <1>13 DEF Finish, GitHubUnchanged
    <2>4. /\ row'.check <= Len(checks)
          /\ row.check # NoCheck => row'.check # NoCheck
          /\ row'.status = "published" => row'.check # NoCheck
      BY <1>13, <2>1 DEF Written, Dirty, IdInv, IdsExist
    <2>5. IdsExist'
      BY <1>13, <1>e, <2>3, <2>4 DEF Finish, IdInv, IdsExist
    <2> QED
      BY <2>2, <2>5 DEF IdInv
  <1>14. ASSUME NEW p \in Publishers, RecordFailure(p) PROVE IdInv'
    <2>1. PICK error \in Failures : Finish(p, [copy[p] EXCEPT !.status = error], error)
      BY <1>14 DEF RecordFailure
    <2> DEFINE new == [copy[p] EXCEPT !.status = error]
    <2>2. new \in PubRow
      BY <1>p, PubRowTypes
    <2>3. new.check = copy[p].check /\ new.status # "published"
      BY <1>p DEF PubRow, Failures
    <2> QED
      BY <1>13, <2>1, <2>2, <2>3
  <1>15. ASSUME NEW p \in Publishers, RecordSuccess(p) PROVE IdInv'
    <2>1. Published(p) \in PubRow /\ Published(p).check = target[p]
      BY <1>p, PubRowTypes DEF Published, PubRow
    <2>2. target[p] # NoCheck /\ target[p] <= Len(checks)
      BY <1>15 DEF RecordSuccess, IdInv, IdsExist
    <2> QED
      BY <1>13, <1>15, <2>1, <2>2 DEF RecordSuccess
  <1>16. ASSUME NEW p \in Publishers, Crash(p) PROVE IdInv'
    <2>1. TypeOK'
      BY <1>16, <1>e DEF Crash, GitHubUnchanged, IdInv, TypeOK
    <2>2. IdsExist'
      BY <1>16, <1>e DEF Crash, GitHubUnchanged, IdInv, IdsExist
    <2> QED
      BY <2>1, <2>2 DEF IdInv
  <1>17. CASE UNCHANGED vars
    BY <1>17 DEF vars, IdInv, TypeOK, IdsExist
  <1> QED
    BY <1>1, <1>2, <1>3, <1>4, <1>5, <1>6, <1>7, <1>9, <1>10, <1>11, <1>12,
       <1>14, <1>15, <1>16, <1>17
    DEF Next

\* The publication protocol keeps its types, for any publishers.
THEOREM CheckTypeCorrect == Spec => []TypeOK
  BY IdInit, IdStep, PTL DEF Spec, IdInv

\* A row that says published names an existing Check Run, whatever publishers
\* interleave, crash, or lose answers, and even if GitHub executes a POST late.
THEOREM PublishedCheckExists == Spec => []PublishedExists
  <1>1. IdInv => PublishedExists
    BY DEF IdInv, TypeOK, IdsExist, PublishedExists, PubRow, NoCheck
  <1> QED
    BY <1>1, IdInit, IdStep, PTL DEF Spec

-------------------------------------------------------------------------------
(* How many Check Runs there can be *)

\* Sets of publishers are finite, and smaller when something is taken away.
LEMMA CreatorCounts ==
    ASSUME NEW C \in SUBSET Publishers, NEW D \in SUBSET C
    PROVE  /\ Cardinality(C) \in Nat /\ Cardinality(D) \in Nat
           /\ Cardinality(Publishers) \in Nat
           /\ Cardinality(C) <= Cardinality(Publishers)
           /\ Cardinality(D) <= Cardinality(C)
           /\ D # C => Cardinality(D) < Cardinality(C)
  <1>1. IsFiniteSet(Publishers) /\ IsFiniteSet(C) /\ IsFiniteSet(D)
    BY CheckAssumption, FS_Subset
  <1>2. /\ Cardinality(C) \in Nat /\ Cardinality(D) \in Nat
        /\ Cardinality(Publishers) \in Nat
    BY <1>1, FS_CardinalityType
  <1>3. Cardinality(C) <= Cardinality(Publishers)
    BY <1>1, FS_Subset
  <1>4. Cardinality(D) <= Cardinality(C) /\ (Cardinality(C) = Cardinality(D) => C = D)
    BY <1>1, FS_Subset
  <1> QED
    BY <1>2, <1>3, <1>4

CountInv == AttemptsPrecedeRequests /\ CreatorsBounded

\* A step without a new Check Run or a late request keeps the bound if, once there
\* is a Check Run, nobody becomes a creator.
LEMMA NoNewCreator ==
    ASSUME TypeOK, CreatorsBounded, checks' \in Seq(Nat),
           Len(checks') = Len(checks), late' = late, lates' = lates,
           checks # <<>> => Creators' \subseteq Creators
    PROVE  CreatorsBounded'
  <1>1. Creators \in SUBSET Publishers
    BY DEF Creators
  <1>2. checks # <<>> => Cardinality(Creators') <= Cardinality(Creators)
    BY <1>1, CreatorCounts
  <1>3. /\ Cardinality(Creators) \in Nat /\ Cardinality(Creators') \in Nat
        /\ Cardinality(Publishers) \in Nat
    <2>1. Creators' \in SUBSET Publishers
      BY DEF Creators
    <2> QED
      BY <1>1, <2>1, CreatorCounts
  <1>4. /\ checks \in Seq(Nat) /\ Len(checks) \in Nat /\ Len(late) \in Nat
        /\ lates \in Nat /\ (checks' # <<>> => checks # <<>>)
    BY DEF TypeOK
  <1> QED
    BY <1>2, <1>3, <1>4 DEF CreatorsBounded

\* A new Check Run or a late request keeps the bound if a creator is spent on it
\* or if it was late before.
LEMMA CreatorUsed ==
    ASSUME TypeOK, CreatorsBounded, TypeOK', NEW D \in SUBSET Creators, Creators' = D,
           \/ /\ D # Creators /\ Len(checks') = Len(checks) + 1
              /\ late' = late /\ lates' = lates
           \/ /\ checks' = checks /\ Len(late') = Len(late) + 1 /\ lates' = lates + 1
           \/ /\ Len(checks') \in {Len(checks), Len(checks) + 1}
              /\ Len(late') = Len(late) - 1 /\ late # <<>> /\ lates' = lates
    PROVE  CreatorsBounded'
  <1>1. Creators \in SUBSET Publishers
    BY DEF Creators
  <1>2. /\ Cardinality(Creators) \in Nat /\ Cardinality(D) \in Nat
        /\ Cardinality(Publishers) \in Nat
        /\ Cardinality(Creators) <= Cardinality(Publishers)
        /\ Cardinality(D) <= Cardinality(Creators)
        /\ D # Creators => Cardinality(D) < Cardinality(Creators)
    BY <1>1, CreatorCounts
  <1>3. /\ Len(checks) \in Nat /\ Len(late) \in Nat /\ lates \in Nat
        /\ (checks = <<>> => Len(checks) = 0) /\ Len(late') \in Nat /\ Len(checks') \in Nat
        /\ (Len(checks') = 0 => checks' = <<>>) /\ (Len(late) = 0 => late = <<>>)
    BY DEF TypeOK
  <1>4. Len(late) <= lates
          /\ (checks # <<>> => Len(checks) + Len(late) + Cardinality(Creators)
                                 <= Cardinality(Publishers) + lates)
    BY DEF CreatorsBounded
  <1>5. Len(late') <= lates'
    BY <1>3, <1>4
  <1>6. checks' # <<>> => Len(checks') + Len(late') + Cardinality(D)
                            <= Cardinality(Publishers) + lates'
    BY <1>2, <1>3, <1>4
  <1> QED
    BY <1>5, <1>6 DEF CreatorsBounded

\* A delivered request uses up its creator.
LEMMA CreatorSpent ==
    ASSUME TypeOK, TypeOK', IdsExist, CreatorsBounded, NEW p \in Publishers,
           pc[p] = "send", Delivered(p), copy' = copy, late' = late, lates' = lates,
           NEW label \in {"record", "failed"}, pc' = [pc EXCEPT ![p] = label],
           \A q \in Publishers \ {p} : target'[q] = target[q]
    PROVE  CreatorsBounded'
  <1>1. /\ checks' \in Seq(Nat) /\ Len(checks) \in Nat
        /\ target[p] # NoCheck => Len(checks') = Len(checks)
        /\ target[p] = NoCheck => Len(checks') = Len(checks) + 1
    <2>1. target[p] \in Nat /\ content[p] \in Nat /\ target[p] <= Len(checks)
      BY DEF TypeOK, IdsExist
    <2> QED
      BY <2>1, ExecutedEffect DEF Delivered
  <1>2. Creators' = Creators \ {p}
    BY DEF Creators, TypeOK
  <1>3. CASE target[p] # NoCheck
    <2>1. Creators' \subseteq Creators
      BY <1>2
    <2> QED
      BY <1>1, <1>3, <2>1, NoNewCreator
  <1>4. CASE target[p] = NoCheck
    <2>1. p \in Creators
      BY <1>4 DEF Creators
    <2>2. (Creators \ {p}) \in SUBSET Creators /\ Creators \ {p} # Creators
      BY <2>1
    <2> QED
      BY <1>1, <1>2, <1>4, <2>2, CreatorUsed
  <1> QED
    BY <1>3, <1>4

\* Every step keeps the count.
LEMMA CountStep ==
    ASSUME IdInv, CountInv, [Next]_vars
    PROVE  CountInv'
  <1>t. TypeOK /\ IdsExist /\ TypeOK'
    BY IdStep DEF IdInv
  <1>c. AttemptsPrecedeRequests /\ CreatorsBounded
    BY DEF CountInv
  <1>l. checks \in Seq(Nat) /\ row.attempts \in Nat
          /\ \A p \in Publishers : copy[p].attempts \in Nat /\ copy[p] \in PubRow
    BY <1>t DEF TypeOK, PubRow
  <1>f. ASSUME checks' = checks, late' = late, lates' = lates, row'.attempts = row.attempts,
               NEW p \in Publishers, copy' = copy, target' = target,
               NEW label, pc' = [pc EXCEPT ![p] = label],
               label \notin {"mark", "find", "send"}
        PROVE  CountInv'
    <2>1. AttemptsPrecedeRequests'
      BY <1>c, <1>f, <1>t DEF AttemptsPrecedeRequests, TypeOK
    <2>2. Creators' \subseteq Creators
      BY <1>f, <1>t DEF Creators, TypeOK
    <2> QED
      BY <1>c, <1>f, <1>l, <1>t, <2>1, <2>2, NoNewCreator DEF CountInv
  <1>g. ASSUME checks' = checks, late' = late, lates' = lates, row'.attempts = row.attempts,
               NEW p \in Publishers, Leave(p)
        PROVE  CountInv'
    <2>1. /\ pc' = [pc EXCEPT ![p] = "idle"]
          /\ \A q \in Publishers \ {p} : copy'[q] = copy[q] /\ target'[q] = target[q]
      BY <1>g, <1>t DEF Leave, Goto, TypeOK
    <2>2. AttemptsPrecedeRequests'
      BY <1>c, <1>g, <1>t, <2>1 DEF AttemptsPrecedeRequests, TypeOK
    <2>3. Creators' \subseteq Creators
      BY <1>t, <2>1 DEF Creators, TypeOK
    <2> QED
      BY <1>c, <1>g, <1>l, <1>t, <2>2, <2>3, NoNewCreator DEF CountInv
  <1>1. ASSUME Reanalyze PROVE CountInv'
    BY <1>1 DEF Reanalyze, CountInv, AttemptsPrecedeRequests, CreatorsBounded, Creators
  <1>2. ASSUME LateArrives PROVE CountInv'
    <2>1. /\ row' = row /\ pc' = pc /\ copy' = copy /\ target' = target
          /\ lates' = lates
      BY <1>2 DEF LateArrives
    <2>2. PICK i \in DOMAIN late :
            Executed(late[i].check, late[i].shown) /\ late' = RemoveAt(late, i)
      BY <1>2 DEF LateArrives
    <2>3. /\ late[i].check \in Nat /\ late[i].shown \in Nat
          /\ late[i].check <= Len(checks)
      BY <1>t, LateTyped DEF IdsExist
    <2>4. Len(checks') \in {Len(checks), Len(checks) + 1} /\ late # <<>>
      <3>1. Len(checks') \in {Len(checks), Len(checks) + 1}
        BY <1>t, <2>2, <2>3, ExecutedEffect
      <3>2. late # <<>>
        OBVIOUS
      <3> QED
        BY <3>1, <3>2
    <2>5. Len(late') = Len(late) - 1
      BY <1>t, <2>2, RemovedLate
    <2>6. AttemptsPrecedeRequests'
      BY <1>c, <2>1, <2>4 DEF AttemptsPrecedeRequests
    <2>7. Creators' = Creators
      BY <2>1 DEF Creators
    <2> QED
      BY <1>c, <1>t, <2>1, <2>4, <2>5, <2>6, <2>7, CreatorUsed DEF CountInv
  <1>3. ASSUME NEW p \in Publishers, Begin(p) PROVE CountInv'
    <2>1. AttemptsPrecedeRequests'
      BY <1>c, <1>3, <1>t
      DEF AttemptsPrecedeRequests, TypeOK, Begin, Goto, GitHubUnchanged
    <2>2. Creators' \subseteq Creators
      BY <1>3, <1>t DEF Creators, TypeOK, Begin, Goto, GitHubUnchanged
    <2> QED
      BY <1>c, <1>l, <1>t, <1>3, <2>1, <2>2, NoNewCreator DEF CountInv, Begin, GitHubUnchanged
  <1>4. ASSUME NEW p \in Publishers, Fetch(p) PROVE CountInv'
    <2>1. AttemptsPrecedeRequests'
      BY <1>c, <1>4, <1>t
      DEF AttemptsPrecedeRequests, TypeOK, Fetch, Goto, GitHubUnchanged
    <2>2. checks # <<>> => Creators' \subseteq Creators
      BY <1>c, <1>4, <1>t
      DEF AttemptsPrecedeRequests, Creators, TypeOK, Fetch, Goto, GitHubUnchanged, PubRow
    <2> QED
      BY <1>c, <1>l, <1>t, <1>4, <2>1, <2>2, NoNewCreator DEF CountInv, Fetch, GitHubUnchanged
  <1>5. ASSUME NEW p \in Publishers, Insert(p) PROVE CountInv'
    <2>0. NoPub.attempts = 0 /\ NewPub.attempts = 0
      BY DEF NoPub, NewPub
    <2>1. /\ row'.attempts = row.attempts /\ copy' = [copy EXCEPT ![p] = row']
          /\ pc' = [pc EXCEPT ![p] = "mark"] /\ target' = target
          /\ checks' = checks /\ late' = late /\ lates' = lates
      BY <1>5, <2>0 DEF Insert, Goto, GitHubUnchanged
    <2>2. AttemptsPrecedeRequests'
      BY <1>c, <1>t, <2>1 DEF AttemptsPrecedeRequests, TypeOK
    <2>3. checks # <<>> => Creators' \subseteq Creators
      BY <1>c, <1>l, <1>t, <2>1 DEF AttemptsPrecedeRequests, Creators, TypeOK
    <2> QED
      BY <1>c, <1>l, <1>t, <2>1, <2>2, <2>3, NoNewCreator DEF CountInv
  <1>6. ASSUME NEW p \in Publishers, Mark(p) PROVE CountInv'
    <2>1. Marked(copy[p]).attempts = copy[p].attempts + 1
      BY <1>l DEF Marked, PubRow
    <2>2. row'.attempts > 0
      BY <1>6, <1>l, <2>1 DEF Mark, Written, Dirty
    <2>3. AttemptsPrecedeRequests'
      BY <2>2 DEF AttemptsPrecedeRequests
    <2>4. /\ checks' = checks /\ late' = late /\ lates' = lates
          /\ target' = [target EXCEPT ![p] = copy[p].check]
          /\ pc' = [pc EXCEPT ![p] = IF MustFind(p) THEN "find" ELSE "send"]
          /\ pc[p] = "mark"
          /\ \A q \in Publishers \ {p} : copy'[q] = copy[q]
      BY <1>6, <1>t DEF Mark, Goto, GitHubUnchanged, TypeOK
    <2>5. Creators' \subseteq Creators
      BY <1>l, <1>t, <2>4 DEF Creators, TypeOK, MustFind
    <2> QED
      BY <1>c, <1>l, <1>t, <2>3, <2>4, <2>5, NoNewCreator DEF CountInv
  <1>7. ASSUME NEW p \in Publishers, Find(p) PROVE CountInv'
    <2>1. /\ checks' = checks /\ late' = late /\ lates' = lates /\ row' = row /\ copy' = copy
          /\ pc' = [pc EXCEPT ![p] = "send"] /\ pc[p] = "find"
          /\ \/ checks = <<>> /\ target' = target
             \/ \E c \in DOMAIN checks : target' = [target EXCEPT ![p] = c]
      BY <1>7 DEF Find, Goto, GitHubUnchanged
    <2>2. AttemptsPrecedeRequests'
      BY <1>c, <1>t, <2>1 DEF AttemptsPrecedeRequests, TypeOK
    <2>3. NoCheck \notin DOMAIN checks
      BY <1>t DEF TypeOK, NoCheck
    <2>4. checks # <<>> => Creators' \subseteq Creators
      BY <1>t, <2>1, <2>3 DEF Creators, TypeOK
    <2> QED
      BY <1>c, <1>l, <1>t, <2>1, <2>2, <2>4, NoNewCreator DEF CountInv
  <1>8. ASSUME NEW p \in Publishers, Send(p) PROVE CountInv'
    <2>1. /\ row' = row /\ late' = late /\ lates' = lates /\ copy' = copy
          /\ pc[p] = "send" /\ Delivered(p)
          /\ pc' = [pc EXCEPT ![p] = "record"]
          /\ \A q \in Publishers \ {p} : target'[q] = target[q]
      BY <1>8, <1>t DEF Send, Goto, TypeOK
    <2>2. AttemptsPrecedeRequests'
      BY <1>c, <1>t, <2>1 DEF AttemptsPrecedeRequests, TypeOK
    <2> QED
      BY <1>c, <1>t, <2>1, <2>2, CreatorSpent DEF CountInv
  <1>9. ASSUME NEW p \in Publishers, SendUnanswered(p) PROVE CountInv'
    <2>1. /\ row' = row /\ late' = late /\ lates' = lates /\ copy' = copy
          /\ pc[p] = "send" /\ Delivered(p)
          /\ pc' = [pc EXCEPT ![p] = "failed"]
          /\ \A q \in Publishers \ {p} : target'[q] = target[q]
      BY <1>9 DEF SendUnanswered, Goto
    <2>2. AttemptsPrecedeRequests'
      BY <1>c, <1>t, <2>1 DEF AttemptsPrecedeRequests, TypeOK
    <2> QED
      BY <1>c, <1>t, <2>1, <2>2, CreatorSpent DEF CountInv
  <1>10. ASSUME NEW p \in Publishers, RequestFails(p) PROVE CountInv'
    BY <1>f, <1>10 DEF RequestFails, Goto, GitHubUnchanged
  <1>11. ASSUME NEW p \in Publishers, SendLate(p) PROVE CountInv'
    <2>1. /\ row' = row /\ copy' = copy /\ target' = target /\ checks' = checks
          /\ lates' = lates + 1 /\ pc' = [pc EXCEPT ![p] = "failed"] /\ pc[p] = "send"
      BY <1>11 DEF SendLate, Goto
    <2>2. Len(late') = Len(late) + 1
      BY <1>11, <1>t DEF SendLate, TypeOK
    <2>3. AttemptsPrecedeRequests'
      BY <1>c, <1>t, <2>1 DEF AttemptsPrecedeRequests, TypeOK
    <2>4. Creators' \in SUBSET Creators
      BY <1>t, <2>1 DEF Creators, TypeOK
    <2> QED
      BY <1>c, <1>t, <2>1, <2>2, <2>3, <2>4, CreatorUsed DEF CountInv
  <1>12. ASSUME NEW p \in Publishers, NEW new, NEW error, Finish(p, new, error),
                new.attempts = copy[p].attempts
         PROVE  CountInv'
    <2>1. row'.attempts = row.attempts
      BY <1>12 DEF Finish, Written, Dirty
    <2> QED
      BY <1>g, <1>12, <2>1 DEF Finish, GitHubUnchanged
  <1>13. ASSUME NEW p \in Publishers, RecordFailure(p) PROVE CountInv'
    <2>1. PICK error \in Failures : Finish(p, [copy[p] EXCEPT !.status = error], error)
      BY <1>13 DEF RecordFailure
    <2>2. [copy[p] EXCEPT !.status = error].attempts = copy[p].attempts
      BY <1>l DEF PubRow
    <2> QED
      BY <1>12, <2>1, <2>2
  <1>14. ASSUME NEW p \in Publishers, RecordSuccess(p) PROVE CountInv'
    <2>1. Published(p).attempts = copy[p].attempts
      BY <1>l DEF Published, PubRow
    <2> QED
      BY <1>12, <1>14, <2>1 DEF RecordSuccess
  <1>15. ASSUME NEW p \in Publishers, Crash(p) PROVE CountInv'
    BY <1>g, <1>15 DEF Crash, GitHubUnchanged
  <1>16. CASE UNCHANGED vars
    BY <1>16 DEF vars, CountInv, AttemptsPrecedeRequests, CreatorsBounded, Creators
  <1> QED
    BY <1>1, <1>2, <1>3, <1>4, <1>5, <1>6, <1>7, <1>8, <1>9, <1>10, <1>11,
       <1>13, <1>14, <1>15, <1>16
    DEF Next

\* There are never more Check Runs for a commit than publishers working at the
\* same time and requests executed after their timeout: a single publisher never
\* creates a duplicate, however often it crashes, unless GitHub is that late.
THEOREM ChecksBounded == Spec => []ChecksBoundedByPublishers
  <1>1. Init => CountInv
    BY DEF Init, CountInv, AttemptsPrecedeRequests, CreatorsBounded
  <1>2. IdInv /\ CountInv /\ [Next]_vars => CountInv'
    BY CountStep
  <1>3. IdInv /\ CountInv => ChecksBoundedByPublishers
    <2> SUFFICES ASSUME IdInv, CountInv
                 PROVE  Len(checks) <= Cardinality(Publishers) + MaxLate
      BY DEF ChecksBoundedByPublishers
    <2>1. Creators \in SUBSET Publishers
      BY DEF Creators
    <2>2. Cardinality(Creators) \in Nat /\ Cardinality(Publishers) \in Nat
      BY <2>1, CreatorCounts
    <2>3. /\ Len(checks) \in Nat /\ (checks = <<>> => Len(checks) = 0)
          /\ Len(late) \in Nat /\ MaxLate \in Nat /\ lates \in Nat /\ lates <= MaxLate
      BY CheckAssumption DEF IdInv, TypeOK
    <2> QED
      BY <2>2, <2>3 DEF CountInv, CreatorsBounded
  <1> QED
    BY <1>1, <1>2, <1>3, IdInit, IdStep, PTL DEF Spec

\* Both together: GitHub's Check Runs and the publication row account for each
\* other, for any number of publishers.
THEOREM ChecksStayAccountedFor == Spec => []ChecksAreAccountedFor
  <1>1. ChecksBoundedByPublishers /\ PublishedExists => ChecksAreAccountedFor
    BY DEF ChecksAreAccountedFor
  <1> QED
    BY <1>1, ChecksBounded, PublishedCheckExists, PTL

-------------------------------------------------------------------------------
(***************************************************************************)
(* A publication that meets no other and no late request, among any number *)
(* of publishers: what it finds is what it has loaded.                     *)
(***************************************************************************)

\* Nothing GitHub shows or may still get is newer than the latest analysis.
LEMMA KnownStep == IdInv /\ KnownContent /\ [Next]_vars => KnownContent'
  <1> SUFFICES ASSUME IdInv, KnownContent, [Next]_vars PROVE KnownContent'
    OBVIOUS
  <1>t. /\ checks \in Seq(Nat) /\ version \in Nat
        /\ late \in Seq([check : Nat, shown : Nat])
        /\ content \in [Publishers -> Nat] /\ target \in [Publishers -> Nat]
    BY DEF IdInv, TypeOK
  <1>v. /\ \A c \in DOMAIN checks : checks[c] \in Nat
        /\ \A p \in Publishers : content[p] \in Nat
        /\ \A i \in DOMAIN late : /\ late[i].check \in Nat /\ late[i].shown \in Nat
                                  /\ late[i].check <= Len(checks)
    BY <1>t, LateTyped DEF IdInv, IdsExist
  <1>e. ASSUME NEW check \in Nat, NEW shown \in Nat, check <= Len(checks),
               Executed(check, shown), shown <= version, version' = version
        PROVE  \A c \in DOMAIN checks' : checks'[c] <= version'
    BY <1>e, ExecutedEffect DEF IdInv, KnownContent
  <1>f. ASSUME checks' = checks, late' = late, version' = version,
               \A p \in Publishers : content'[p] = content[p] \/ content'[p] = 0
        PROVE  KnownContent'
    <2>0. \A p \in Publishers : content[p] <= version
      BY DEF KnownContent
    <2>1. ASSUME NEW p \in Publishers PROVE content'[p] <= version'
      <3>1. version' = version /\ version \in Nat
        BY <1>f, <1>t
      <3>2. content'[p] = content[p] \/ content'[p] = 0
        BY <1>f
      <3>3. content[p] <= version
        BY <2>0
      <3> QED
        BY <3>1, <3>2, <3>3
    <2> QED
      BY <1>f, <2>1 DEF KnownContent
  <1>1. CASE Reanalyze
    BY <1>1, <1>t, <1>v DEF Reanalyze, KnownContent
  <1>2. CASE LateArrives
    <2>1. PICK i \in DOMAIN late :
            Executed(late[i].check, late[i].shown) /\ late' = RemoveAt(late, i)
      BY <1>2 DEF LateArrives
    <2>2. \A k \in DOMAIN late' : \E l \in DOMAIN late : late'[k] = late[l]
      BY <2>1, RemovedLate DEF IdInv
    <2>3. version' = version /\ content' = content
      BY <1>2 DEF LateArrives
    <2>4. \A c \in DOMAIN checks' : checks'[c] <= version'
      BY <1>e, <1>v, <2>1, <2>3 DEF KnownContent
    <2> QED
      BY <2>2, <2>3, <2>4 DEF KnownContent
  <1>3. ASSUME NEW p \in Publishers, Begin(p) PROVE KnownContent'
    BY <1>3, <1>t DEF Begin, GitHubUnchanged, KnownContent
  <1>4. ASSUME NEW p \in Publishers,
               Fetch(p) \/ Insert(p) \/ Mark(p) \/ Find(p) \/ RequestFails(p)
        PROVE  KnownContent'
    BY <1>4, <1>f DEF Fetch, Insert, Mark, Find, RequestFails, GitHubUnchanged
  <1>5. ASSUME NEW p \in Publishers, Send(p) \/ SendUnanswered(p)
        PROVE  KnownContent'
    <2>1. /\ Executed(target[p], content[p]) /\ late' = late /\ version' = version
          /\ content' = content
      BY <1>5 DEF Send, SendUnanswered, Delivered
    <2>2. target[p] \in Nat /\ content[p] \in Nat /\ target[p] <= Len(checks)
      BY <1>t DEF IdInv, IdsExist
    <2>3. \A c \in DOMAIN checks' : checks'[c] <= version'
      BY <1>e, <2>1, <2>2 DEF KnownContent
    <2> QED
      BY <2>1, <2>3 DEF KnownContent
  <1>6. ASSUME NEW p \in Publishers, SendLate(p) PROVE KnownContent'
    <2> DEFINE r == [check |-> target[p], shown |-> content[p]]
    <2>1. late' = Append(late, r) /\ r.shown = content[p] /\ r \in [check : Nat, shown : Nat]
      BY <1>6, <1>t DEF SendLate
    <2> HIDE DEF r
    <2>2. \A i \in DOMAIN late' : late'[i] = r \/ (i \in DOMAIN late /\ late'[i] = late[i])
      BY <1>t, <2>1
    <2> QED
      BY <1>6, <2>1, <2>2 DEF SendLate, KnownContent
  <1>7. ASSUME NEW p \in Publishers, Leave(p), GitHubUnchanged, version' = version
        PROVE  KnownContent'
    BY <1>7, <1>f, <1>t DEF Leave, GitHubUnchanged
  <1>8. ASSUME NEW p \in Publishers, RecordFailure(p) \/ RecordSuccess(p) \/ Crash(p)
        PROVE  KnownContent'
    BY <1>7, <1>8 DEF RecordFailure, RecordSuccess, Finish, Crash
  <1>9. CASE UNCHANGED vars
    BY <1>9 DEF vars, KnownContent
  <1> QED
    BY <1>1, <1>2, <1>3, <1>4, <1>5, <1>6, <1>8, <1>9 DEF Next

\* What the UPDATE of an object writes that is loaded as the row is.
LEMMA WrittenFresh ==
    ASSUME NEW old \in PubRow, NEW new \in PubRow
    PROVE  Written(old, old, new) = new
  BY DEF Written, Dirty, PubRow

\* Every step keeps what a publication alone knows.
LEMMA AloneStep ==
    ASSUME IdInv, KnownContent, AloneKnows, [Next]_vars
    PROVE  AloneKnows'
  <1>t. /\ checks \in Seq(Nat) /\ version \in Nat /\ row \in PubRow
        /\ pc \in [Publishers -> {"idle", "fetch", "insert", "mark", "find",
                                  "send", "failed", "record"}]
        /\ copy \in [Publishers -> PubRow]
        /\ conn \in [Publishers -> Failures \cup {NoError}]
        /\ content \in [Publishers -> Nat] /\ target \in [Publishers -> Nat]
        /\ alone \in [Publishers -> BOOLEAN]
        /\ \A p \in Publishers : target[p] <= Len(checks)
    BY DEF IdInv, TypeOK, IdsExist
  \* A step of p leaves nobody else alone: who is so has seen p idle
  <1>o. ASSUME NEW p \in Publishers, pc[p] # "idle",
               \A q \in Publishers \ {p} : alone'[q] = alone[q]
        PROVE  \A q \in Publishers \ {p} : ~alone'[q]
    BY <1>o, <1>t DEF AloneKnows
  <1>1. CASE Reanalyze
    BY <1>1 DEF Reanalyze, AloneKnows
  <1>2. CASE LateArrives
    BY <1>2 DEF LateArrives, AloneKnows
  <1>3. ASSUME NEW p \in Publishers, Begin(p) PROVE AloneKnows'
    <2>1. /\ \A q \in Publishers \ {p} : ~alone'[q] /\ pc'[q] = pc[q]
          /\ alone'[p] => \A q \in Publishers \ {p} : pc[q] = "idle"
          /\ pc'[p] = "fetch" /\ content'[p] = version /\ conn'[p] = connError
          /\ checks' = checks /\ connError' = connError
      BY <1>3, <1>t DEF Begin, Goto, GitHubUnchanged
    <2> QED
      BY <2>1 DEF AloneKnows, KnownContent
  <1>4. ASSUME NEW p \in Publishers, Fetch(p) PROVE AloneKnows'
    <2>1. /\ pc[p] = "fetch" /\ alone' = alone /\ checks' = checks /\ content' = content
          /\ conn' = conn /\ connError' = connError /\ row' = row /\ copy'[p] = row
          /\ \A q \in Publishers \ {p} : pc'[q] = pc[q]
          /\ pc'[p] \in {"insert", "mark"}
      BY <1>4, <1>t DEF Fetch, Goto, GitHubUnchanged
    <2> QED
      BY <1>o, <2>1 DEF AloneKnows
  <1>5. ASSUME NEW p \in Publishers, Insert(p) PROVE AloneKnows'
    <2>1. /\ pc[p] = "insert" /\ alone' = alone /\ checks' = checks
          /\ content' = content /\ connError' = connError /\ copy'[p] = row'
          /\ conn'[p] \in {conn[p], connError}
          /\ \A q \in Publishers \ {p} : pc'[q] = pc[q]
          /\ pc'[p] = "mark"
      BY <1>5, <1>t DEF Insert, Goto, GitHubUnchanged
    <2> QED
      BY <1>o, <2>1 DEF AloneKnows
  <1>6. ASSUME NEW p \in Publishers, Mark(p) PROVE AloneKnows'
    <2>1. /\ pc[p] = "mark" /\ alone' = alone /\ checks' = checks
          /\ content' = content /\ connError' = connError /\ conn' = conn
          /\ copy'[p] = Marked(copy[p]) /\ row' = Written(row, copy[p], Marked(copy[p]))
          /\ \A q \in Publishers \ {p} : pc'[q] = pc[q]
          /\ pc'[p] \in {"find", "send"}
      BY <1>6, <1>t DEF Mark, Goto, GitHubUnchanged
    <2>2. copy[p] \in PubRow /\ Marked(copy[p]) \in PubRow
      BY <1>t, PubRowTypes
    <2>3. alone[p] => row' = Marked(copy[p])
      <3>1. Written(copy[p], copy[p], Marked(copy[p])) = Marked(copy[p])
        BY <2>2, WrittenFresh
      <3>2. alone[p] => copy[p] = row
        BY <2>1 DEF AloneKnows
      <3> QED
        BY <2>1, <3>1, <3>2
    <2>4. Marked(copy[p]).status = "publishing"
      BY <2>2 DEF Marked, PubRow
    <2> QED
      BY <1>o, <2>1, <2>3, <2>4 DEF AloneKnows
  <1>7. ASSUME NEW p \in Publishers, Find(p) \/ RequestFails(p) \/ SendLate(p)
        PROVE  AloneKnows'
    <2>1. /\ pc[p] \in {"find", "send"} /\ alone' = alone /\ checks' = checks
          /\ content' = content /\ connError' = connError /\ conn' = conn
          /\ copy' = copy /\ row' = row
          /\ \A q \in Publishers \ {p} : pc'[q] = pc[q]
          /\ pc'[p] \in {"send", "failed"}
      BY <1>7, <1>t DEF Find, RequestFails, SendLate, Goto, GitHubUnchanged
    <2> QED
      BY <1>o, <2>1 DEF AloneKnows
  <1>8. ASSUME NEW p \in Publishers, Send(p) \/ SendUnanswered(p)
        PROVE  AloneKnows'
    <2>1. /\ pc[p] = "send" /\ alone' = alone /\ Executed(target[p], content[p])
          /\ content' = content /\ connError' = connError /\ conn' = conn
          /\ copy' = copy /\ row' = row
          /\ \A q \in Publishers \ {p} : pc'[q] = pc[q]
          /\ pc'[p] \in {"record", "failed"}
          /\ pc'[p] = "record" =>
               target'[p] = IF target[p] = NoCheck THEN Len(checks) + 1 ELSE target[p]
      BY <1>8, <1>t DEF Send, SendUnanswered, Delivered, Goto
    <2>2. target[p] \in Nat /\ content[p] \in Nat /\ target[p] <= Len(checks)
      BY <1>t
    <2>3. /\ checks' \in Seq(Nat)
          /\ \A c \in DOMAIN checks : checks'[c] \in {checks[c], content[p]}
          /\ \A c \in DOMAIN checks' : c \in DOMAIN checks \/ checks'[c] = content[p]
      BY <2>1, <2>2, ExecutedEffect DEF IdInv
    <2>4. alone[p] => \A c \in DOMAIN checks' : checks'[c] <= content[p]
      BY <2>2, <2>3 DEF AloneKnows
    <2>5. pc'[p] = "record" =>
            target'[p] \in DOMAIN checks' /\ checks'[target'[p]] = content[p]
      <3>1. /\ target[p] # NoCheck => /\ Len(checks') = Len(checks)
                                      /\ checks'[target[p]] = content[p]
            /\ target[p] = NoCheck => /\ Len(checks') = Len(checks) + 1
                                      /\ checks'[Len(checks) + 1] = content[p]
        BY <2>1, <2>2, ExecutedEffect DEF IdInv
      <3> QED
        BY <1>t, <2>1, <2>2, <2>3, <3>1 DEF NoCheck
    <2> QED
      BY <1>o, <2>1, <2>4, <2>5 DEF AloneKnows
  <1>9. ASSUME NEW p \in Publishers, RecordFailure(p) \/ RecordSuccess(p) \/ Crash(p)
        PROVE  AloneKnows'
    <2>1. pc[p] # "idle" /\ alone' = [alone EXCEPT ![p] = FALSE]
      BY <1>9, <1>t DEF RecordFailure, RecordSuccess, Crash, Finish, Leave
    <2>2. \A q \in Publishers : ~alone'[q]
      BY <1>o, <1>t, <2>1
    <2> QED
      BY <2>2 DEF AloneKnows
  <1>10. CASE UNCHANGED vars
    BY <1>10 DEF vars, AloneKnows
  <1> QED
    BY <1>1, <1>2, <1>3, <1>4, <1>5, <1>6, <1>7, <1>8, <1>9, <1>10 DEF Next

\* Whatever overlapping publications, crashes, lost answers and late requests
\* left, a publication that meets none of them takes no Check Run back and
\* leaves the row, GitHub and the connection in agreement about its outcome,
\* for any number of publishers and of late requests.
THEOREM LonePublicationAgrees == Spec => LonePublicationSettles
  <1>1. IdInv /\ KnownContent /\ AloneKnows /\ [Next]_vars
          => [\A p \in Publishers : alone[p] =>
                /\ Sends(p) => \A c \in DOMAIN checks : checks'[c] >= checks[c]
                /\ Records(p, "record") =>
                     /\ row'.status = "published" /\ connError' = NoError
                     /\ row'.check \in DOMAIN checks
                     /\ checks[row'.check] = content[p]
                     /\ \A c \in DOMAIN checks : checks[c] <= content[p]
                /\ Records(p, "failed") => row'.status = connError']_vars
    <2> SUFFICES ASSUME IdInv, AloneKnows, Next, NEW p \in Publishers, alone[p]
                 PROVE  /\ Sends(p) => \A c \in DOMAIN checks : checks'[c] >= checks[c]
                        /\ Records(p, "record") =>
                             /\ row'.status = "published" /\ connError' = NoError
                             /\ row'.check \in DOMAIN checks
                             /\ checks[row'.check] = content[p]
                             /\ \A c \in DOMAIN checks : checks[c] <= content[p]
                        /\ Records(p, "failed") => row'.status = connError'
      OBVIOUS
    <2>t. /\ checks \in Seq(Nat) /\ row \in PubRow /\ copy[p] \in PubRow
          /\ pc \in [Publishers -> {"idle", "fetch", "insert", "mark", "find",
                                    "send", "failed", "record"}]
          /\ content[p] \in Nat /\ target[p] \in Nat /\ target[p] <= Len(checks)
          /\ \A c \in DOMAIN checks : checks[c] \in Nat
      BY DEF IdInv, TypeOK, IdsExist
    <2>s. /\ pc[p] # "idle" /\ \A q \in Publishers \ {p} : pc[q] = "idle"
          /\ \A c \in DOMAIN checks : checks[c] <= content[p]
          /\ conn[p] = connError
          /\ pc[p] # "fetch" => copy[p] = row
          /\ pc[p] = "record" => /\ target[p] \in DOMAIN checks
                                 /\ checks[target[p]] = content[p]
      BY DEF AloneKnows
    \* Only a step of p moves p
    <2>p. ASSUME pc'[p] # pc[p]
          PROVE  \/ Begin(p) \/ Fetch(p) \/ Insert(p) \/ Mark(p) \/ Find(p)
                 \/ Send(p) \/ SendUnanswered(p) \/ RequestFails(p) \/ SendLate(p)
                 \/ RecordFailure(p) \/ RecordSuccess(p) \/ Crash(p)
      <3>1. ASSUME NEW q \in Publishers \ {p},
                   \/ Begin(q) \/ Fetch(q) \/ Insert(q) \/ Mark(q) \/ Find(q)
                   \/ Send(q) \/ SendUnanswered(q) \/ RequestFails(q) \/ SendLate(q)
                   \/ RecordFailure(q) \/ RecordSuccess(q) \/ Crash(q)
            PROVE  FALSE
        <4>1. \E label : pc' = [pc EXCEPT ![q] = label]
          BY <3>1
          DEF Begin, Fetch, Insert, Mark, Find, Send, SendUnanswered, RequestFails,
              SendLate, RecordFailure, RecordSuccess, Crash, Finish, Leave, Goto
        <4> QED
          BY <2>p, <2>t, <4>1
      <3>2. ~Reanalyze /\ ~LateArrives
        BY <2>p DEF Reanalyze, LateArrives
      <3> QED
        BY <3>1, <3>2 DEF Next
    <2>1. ASSUME Sends(p), NEW c \in DOMAIN checks PROVE checks'[c] >= checks[c]
      <3>1. Executed(target[p], content[p]) \/ checks' = checks
        BY <2>1, <2>p
        DEF Sends, Begin, Fetch, Insert, Mark, Find, Send, SendUnanswered,
            RequestFails, SendLate, RecordFailure, RecordSuccess, Crash, Finish,
            GitHubUnchanged, Delivered
      <3>2. checks'[c] \in {checks[c], content[p]}
        BY <2>t, <3>1, ExecutedEffect DEF IdInv
      <3> QED
        BY <2>s, <2>t, <3>2
    <2>2. ASSUME Records(p, "record")
          PROVE  /\ row'.status = "published" /\ connError' = NoError
                 /\ row'.check \in DOMAIN checks
                 /\ checks[row'.check] = content[p]
                 /\ \A c \in DOMAIN checks : checks[c] <= content[p]
      <3>1. RecordSuccess(p)
        BY <2>2, <2>p
        DEF Records, Begin, Fetch, Insert, Mark, Find, Send, SendUnanswered,
            RequestFails, SendLate, RecordFailure, Crash
      <3>2. /\ row' = Written(row, copy[p], Published(p))
            /\ connError' = Dirty(connError, conn[p], NoError)
        BY <3>1 DEF RecordSuccess, Finish
      <3>3. Published(p) \in PubRow
        BY <2>t, PubRowTypes DEF Published
      <3>4. row' = Published(p)
        BY <2>2, <2>s, <2>t, <3>2, <3>3, WrittenFresh DEF Records
      <3>5. row'.status = "published" /\ row'.check = target[p]
        BY <2>t, <3>4 DEF Published, PubRow
      <3>6. connError' = NoError
        BY <2>s, <3>2 DEF Dirty
      <3> QED
        BY <2>2, <2>s, <3>5, <3>6 DEF Records
    <2>3. ASSUME Records(p, "failed") PROVE row'.status = connError'
      <3>1. RecordFailure(p)
        BY <2>3, <2>p
        DEF Records, Begin, Fetch, Insert, Mark, Find, Send, SendUnanswered,
            RequestFails, SendLate, RecordSuccess, Crash
      <3>2. PICK error \in Failures : Finish(p, [copy[p] EXCEPT !.status = error], error)
        BY <3>1 DEF RecordFailure
      <3> DEFINE new == [copy[p] EXCEPT !.status = error]
      <3>3. new \in PubRow /\ new.status = error
        BY <2>t, PubRowTypes DEF PubRow
      <3>4. row' = new
        BY <2>3, <2>s, <2>t, <3>2, <3>3, WrittenFresh DEF Records, Finish
      <3>5. connError' = error
        BY <2>s, <3>2 DEF Finish, Dirty
      <3> QED
        BY <3>3, <3>4, <3>5
    <2> QED
      BY <2>1, <2>2, <2>3
  <1>2. Init => KnownContent /\ AloneKnows
    BY DEF Init, KnownContent, AloneKnows
  <1>3. IdInv /\ KnownContent /\ AloneKnows /\ [Next]_vars => AloneKnows'
    BY AloneStep
  <1> QED
    BY <1>1, <1>2, <1>3, IdInit, IdStep, KnownStep, PTL
    DEF Spec, LonePublicationSettles
===============================================================================
