------------------------ MODULE ReelPublishingProofs ------------------------
(***************************************************************************)
(* Proofs about ReelPublishing, for any names, platforms and requests, and *)
(* any number of retries, polls, attempts and crashes.                     *)
(***************************************************************************)
EXTENDS ReelPublishing, WellFoundedInduction, TLAPS

-----------------------------------------------------------------------------
(* What NormaliseTargets computes.  It is a fold, a recursive function on    *)
(* the sets of positions; what holds of it is shown by induction, in the     *)
(* form of a set of numbers that holds every number up to a bound.           *)

LEMMA UpTo ==
  ASSUME NEW n \in Nat, NEW T, 0 \in T,
         \A m \in 0 .. n : m # n /\ m \in T => m + 1 \in T
  PROVE  \A m \in 0 .. n : m \in T
<1> DEFINE W == {m \in 0 .. n : m \notin T}
<1> SUFFICES ASSUME W # {} PROVE FALSE
  OBVIOUS
<1>1. W \subseteq Nat
  OBVIOUS
<1> HIDE DEF W
<1>2. PICK m \in W : \A k \in W : <<k, m>> \notin OpToRel(<, Nat)
  BY <1>1, WFMin, NatLessThanWellFounded
<1>3. m \in 0 .. n /\ m \notin T /\ m # 0
  BY DEF W
<1>4. m - 1 \in 0 .. n /\ m - 1 # n /\ (m - 1) + 1 = m
  BY <1>3
<1>5. m - 1 \in W
  BY <1>3, <1>4 DEF W
<1>6. <<m - 1, m>> \in OpToRel(<, Nat)
  BY <1>3 DEF OpToRel
<1> QED BY <1>2, <1>5, <1>6

\* One step of the fold.
Adds(done, names, n) ==
  IF n \notin Planned(names) \/ \E k \in DOMAIN done : done[k] = Canonical[n]
    THEN done ELSE Append(done, Canonical[n])

\* The fold over the names at the positions in s, the last of which is Max(s).
Step(iter, names, s) ==
  IF s = {} THEN <<>> ELSE Adds(iter[s \ {Max(s)}], names, names[Max(s)])

LEMMA Unfolded ==
  ASSUME NEW names
  PROVE  NormaliseTargets(names)
           = (CHOOSE iter :
                iter = [s \in SUBSET DOMAIN names |-> Step(iter, names, s)])
               [DOMAIN names]
BY Zenon DEF NormaliseTargets, FoldLeft, MapThenFoldSet, Step, Adds

LEMMA MaxOfUpTo ==
  ASSUME NEW m \in Nat, NEW s \in SUBSET (1 .. m + 1), m + 1 \in s
  PROVE  Max(s) = m + 1
<1>1. m + 1 \in s /\ \A y \in s : m + 1 >= y
  OBVIOUS
<1>2. Max(s) \in s /\ \A y \in s : Max(s) >= y
  BY <1>1 DEF Max
<1> DEFINE x == Max(s)
<1>3. x \in 1 .. m + 1 /\ x >= m + 1
  BY <1>1, <1>2
<1> HIDE DEF x
<1>4. x = m + 1
  BY <1>3
<1> QED  BY <1>4 DEF x

LEMMA IterExists ==
  ASSUME NEW names, NEW n \in Nat
  PROVE  \E iter : iter = [s \in SUBSET (1 .. n) |-> Step(iter, names, s)]
<1> DEFINE Iter(m) == \E iter : iter = [s \in SUBSET (1 .. m) |-> Step(iter, names, s)]
           T == {m \in 0 .. n : Iter(m)}
<1>1. Iter(0)
  <2> DEFINE g == [s \in SUBSET (1 .. 0) |-> <<>>]
  <2>1. SUBSET (1 .. 0) = {{}}
    OBVIOUS
  <2>2. ASSUME NEW s \in SUBSET (1 .. 0)  PROVE g[s] = Step(g, names, s)
    BY <2>1 DEF Step
  <2>3. g = [s \in SUBSET (1 .. 0) |-> g[s]]
    OBVIOUS
  <2> HIDE DEF g
  <2>4. g = [s \in SUBSET (1 .. 0) |-> Step(g, names, s)]
    BY <2>2, <2>3
  <2> QED BY <2>4, Zenon
<1>2. ASSUME NEW m \in 0 .. n, m # n, Iter(m)  PROVE Iter(m + 1)
  <2>1. PICK g : g = [s \in SUBSET (1 .. m) |-> Step(g, names, s)]
    BY <1>2
  <2> DEFINE h == [s \in SUBSET (1 .. m + 1) |->
                     IF m + 1 \in s THEN Adds(g[s \ {m + 1}], names, names[m + 1])
                     ELSE g[s]]
  <2>2. ASSUME NEW s \in SUBSET (1 .. m)
        PROVE  s \in SUBSET (1 .. m + 1) /\ m + 1 \notin s
    OBVIOUS
  <2>3. ASSUME NEW s \in SUBSET (1 .. m)  PROVE h[s] = g[s]
    BY <2>2
  <2>4. ASSUME NEW s \in SUBSET (1 .. m + 1)  PROVE h[s] = Step(h, names, s)
    <3>1. CASE m + 1 \in s
      <4>1. Max(s) = m + 1
        BY <3>1, MaxOfUpTo
      <4>2. s \ {m + 1} \in SUBSET (1 .. m)
        OBVIOUS
      <4>3. h[s \ {m + 1}] = g[s \ {m + 1}]
        BY <2>3, <4>2
      <4>4. h[s] = Adds(g[s \ {m + 1}], names, names[m + 1])
        BY <3>1
      <4> HIDE DEF h
      <4> QED BY <3>1, <4>1, <4>3, <4>4 DEF Step
    <3>2. CASE m + 1 \notin s
      <4>1. s \in SUBSET (1 .. m) /\ s \ {Max(s)} \in SUBSET (1 .. m)
        <5>1. \A y \in 1 .. m + 1 : y # m + 1 => y \in 1 .. m
          OBVIOUS
        <5> HIDE DEF h
        <5> QED BY <3>2, <5>1
      <4>2. h[s] = g[s] /\ h[s \ {Max(s)}] = g[s \ {Max(s)}]
        BY <2>3, <4>1
      <4>3. g[s] = Step(g, names, s)
        BY <2>1, <4>1
      <4> HIDE DEF h
      <4> QED BY <4>2, <4>3 DEF Step
    <3> QED BY <3>1, <3>2
  <2>5. h = [s \in SUBSET (1 .. m + 1) |-> h[s]]
    OBVIOUS
  <2> HIDE DEF h
  <2>6. h = [s \in SUBSET (1 .. m + 1) |-> Step(h, names, s)]
    BY <2>4, <2>5
  <2> QED BY <2>6, Zenon
<1> HIDE DEF Iter
<1>3. 0 \in T /\ \A m \in 0 .. n : m # n /\ m \in T => m + 1 \in T
  BY <1>1, <1>2
<1> HIDE DEF T
<1>4. \A m \in 0 .. n : m \in T
  BY <1>3, UpTo
<1>5. n \in T
  BY <1>4
<1> QED BY <1>5 DEF T, Iter

\* The fold starts empty, and every name adds its platform or nothing.
LEMMA Folded ==
  ASSUME NEW names \in Seq(Names)
  PROVE  \E done : /\ done[0] = <<>>
                   /\ \A k \in 1 .. Len(names) :
                        done[k] = Adds(done[k - 1], names, names[k])
                   /\ NormaliseTargets(names) = done[Len(names)]
<1> DEFINE n == Len(names)
           iter == CHOOSE iter :
                     iter = [s \in SUBSET (1 .. n) |-> Step(iter, names, s)]
           done == [k \in 0 .. n |-> iter[1 .. k]]
<1>1. n \in Nat /\ DOMAIN names = 1 .. n
  OBVIOUS
<1>2. NormaliseTargets(names) = iter[1 .. n]
  BY <1>1, Unfolded
<1> HIDE DEF n
<1>3. \E f : f = [s \in SUBSET (1 .. n) |-> Step(f, names, s)]
  BY <1>1, IterExists
<1>4. iter = [s \in SUBSET (1 .. n) |-> Step(iter, names, s)]
  BY <1>3
<1> HIDE DEF iter
<1>5. ASSUME NEW s \in SUBSET (1 .. n)  PROVE iter[s] = Step(iter, names, s)
  BY <1>4
<1>6. done[0] = <<>>
  <2>1. 1 .. 0 = {} /\ 0 \in 0 .. n
    BY <1>1
  <2>2. iter[{}] = <<>>
    BY <1>5 DEF Step
  <2> QED BY <2>1, <2>2
<1>7. ASSUME NEW k \in 1 .. n
      PROVE  done[k] = Adds(done[k - 1], names, names[k])
  <2>1. k \in 0 .. n /\ k - 1 \in 0 .. n /\ k - 1 \in Nat /\ (k - 1) + 1 = k
    BY <1>1
  <2>2. 1 .. k \in SUBSET (1 .. n) /\ k \in 1 .. k
    BY <1>1
  <2>3. Max(1 .. k) = k
    BY <2>1, <2>2, MaxOfUpTo
  <2>4. (1 .. k) \ {k} = 1 .. (k - 1)
    BY <1>1
  <2>5. iter[1 .. k] = Adds(iter[1 .. (k - 1)], names, names[k])
    BY <1>5, <2>2, <2>3, <2>4 DEF Step
  <2> QED BY <2>1, <2>5
<1>8. NormaliseTargets(names) = done[n]
  BY <1>1, <1>2
<1> HIDE DEF done
<1> QED BY <1>6, <1>7, <1>8 DEF n

Distinct(ps) == \A i, k \in DOMAIN ps : ps[i] = ps[k] => i = k

\* The platforms that are posted to: each once, and those of the planned names.
LEMMA TargetsNormalised ==
  ASSUME NEW names \in Seq(Names)
  PROVE  /\ NormaliseTargets(names) \in Seq(Platforms)
         /\ Distinct(NormaliseTargets(names))
         /\ \A n \in Planned(names) :
              \E k \in DOMAIN NormaliseTargets(names) :
                NormaliseTargets(names)[k] = Canonical[n]
<1> DEFINE l == Len(names)
           Good(ps, k) == /\ ps \in Seq(Platforms) /\ Distinct(ps)
                          /\ \A i \in 1 .. k : names[i] \in Planned(names)
                               => \E j \in DOMAIN ps : ps[j] = Canonical[names[i]]
<1>1. PICK done : /\ done[0] = <<>>
                  /\ \A k \in 1 .. l :
                       done[k] = Adds(done[k - 1], names, names[k])
                  /\ NormaliseTargets(names) = done[l]
  BY Folded
<1>2. Good(done[0], 0)
  BY <1>1 DEF Distinct
<1>3. ASSUME NEW ps, NEW k \in 0 .. l, k # l, Good(ps, k)
      PROVE  Good(Adds(ps, names, names[k + 1]), k + 1)
  <2> DEFINE p == Canonical[names[k + 1]]
             qs == Append(ps, p)
  <2>1. k + 1 \in 1 .. l /\ \A i \in 1 .. k + 1 : i \in 1 .. k \/ i = k + 1
    BY <1>3
  <2>2. p \in Platforms
    BY <2>1, NamesAssumption
  <2>3. CASE names[k + 1] \notin Planned(names)
    BY <1>3, <2>1, <2>3 DEF Adds
  <2>4. CASE \E j \in DOMAIN ps : ps[j] = p
    BY <1>3, <2>1, <2>4 DEF Adds
  <2>5. CASE names[k + 1] \in Planned(names) /\ ~ \E j \in DOMAIN ps : ps[j] = p
    <3>1. Adds(ps, names, names[k + 1]) = qs
      BY <2>5 DEF Adds
    <3> HIDE DEF p
    <3>2. /\ qs \in Seq(Platforms) /\ DOMAIN qs = 1 .. Len(ps) + 1
          /\ DOMAIN ps = 1 .. Len(ps) /\ Len(ps) \in Nat
          /\ qs[Len(ps) + 1] = p
          /\ \A j \in 1 .. Len(ps) : qs[j] = ps[j]
      BY <1>3, <2>2
    <3> HIDE DEF qs
    <3>3. Distinct(qs)
      BY <1>3, <2>5, <3>2 DEF Distinct
    <3>4. ASSUME NEW i \in 1 .. k + 1, names[i] \in Planned(names)
          PROVE  \E j \in DOMAIN qs : qs[j] = Canonical[names[i]]
      <4>1. CASE i = k + 1
        BY <3>2, <4>1 DEF p
      <4>2. CASE i # k + 1
        <5>1. PICK j \in DOMAIN ps : ps[j] = Canonical[names[i]]
          BY <1>3, <2>1, <3>4, <4>2
        <5> QED BY <3>2, <5>1
      <4> QED BY <4>1, <4>2
    <3> QED BY <3>1, <3>2, <3>3, <3>4
  <2> QED BY <2>3, <2>4, <2>5
<1> DEFINE T == {k \in 0 .. l : Good(done[k], k)}
<1> HIDE DEF Good
<1>4. 0 \in T /\ \A k \in 0 .. l : k # l /\ k \in T => k + 1 \in T
  <2>1. l \in Nat
    OBVIOUS
  <2> HIDE DEF l
  <2>2. ASSUME NEW k \in 0 .. l, k # l, Good(done[k], k)
        PROVE  k + 1 \in 0 .. l /\ Good(done[k + 1], k + 1)
    <3>1. k + 1 \in 1 .. l /\ (k + 1) - 1 = k /\ k + 1 \in 0 .. l
      BY <2>1, <2>2
    <3>2. done[k + 1] = Adds(done[k], names, names[k + 1])
      BY <1>1, <3>1
    <3> QED BY <1>3, <2>2, <3>1, <3>2
  <2> QED BY <1>2, <2>1, <2>2
<1>5. l \in Nat
  OBVIOUS
<1> HIDE DEF T
<1>6. \A k \in 0 .. l : k \in T
  BY <1>4, <1>5, UpTo
<1>7. l \in T
  BY <1>5, <1>6
<1>8. Good(NormaliseTargets(names), l)
  BY <1>1, <1>7 DEF T
<1>9. ASSUME NEW n \in Planned(names)
      PROVE  \E k \in DOMAIN NormaliseTargets(names) :
               NormaliseTargets(names)[k] = Canonical[n]
  <2>1. \E i \in 1 .. l : names[i] = n
    BY DEF Planned, Range
  <2> QED BY <1>8, <2>1 DEF Good
<1> QED BY <1>8, <1>9 DEF Good
-----------------------------------------------------------------------------
(* What the calls do, case by case.                                          *)

\* _create_post once more.
Retries == /\ step' = "post" /\ try < RetryAttempts /\ try' = try + 1
           /\ poll' = 1 /\ UNCHANGED outcomes

LEMMA RetryableIsBoolean ==
  ASSUME NEW answer
  PROVE  Retryable(answer) \in BOOLEAN
BY DEF Retryable

LEMMA PostFailsSteps ==
  ASSUME NEW answer, PostFails(answer)
  PROVE  Retries \/ \E again \in BOOLEAN : Close(Failed(Current, again))
<1>1. CASE TriesAgain(answer)
  BY <1>1 DEF PostFails, TriesAgain, Retries
<1>2. CASE ~TriesAgain(answer)
  <2>1. Close(Failed(Current, Retryable(answer)))
    BY <1>2 DEF PostFails
  <2> QED BY <2>1, RetryableIsBoolean
<1> QED BY <1>1, <1>2

\* The outcomes of a post that is there, for all the publisher knows, but not
\* good, or not yet.
Unlucky(p) == {Failed(p, TRUE), Failed(p, FALSE), Pending(p), Kept(p)}

LEMMA PostSteps ==
  ASSUME Post
  PROVE  /\ step = "post"
         /\ UNCHANGED <<job, context, targets, accounts, uploaded, raised, row,
                        events, faults>>
         /\ \/ /\ posts' = [posts EXCEPT ![Current] = @ + 1] /\ UNCHANGED doubt
               /\ \/ step' = "verify" /\ poll' = 1 /\ UNCHANGED <<try, outcomes>>
                  \/ Close(Succeeded(Current))
            \/ /\ \/ /\ posts' = [posts EXCEPT ![Current] = @ + 1]
                     /\ doubt' = doubt \cup {Current}
                  \/ UNCHANGED <<posts, doubt>>
               /\ \/ Retries
                  \/ \E o \in Unlucky(Current) : Close(o)
<1>1. CASE \E answer \in BadAnswers, accepted \in BOOLEAN :
             /\ posts' = IF accepted THEN [posts EXCEPT ![Current] = @ + 1] ELSE posts
             /\ doubt' = IF accepted THEN doubt \cup {Current} ELSE doubt
             /\ PostFails(answer)
  <2>1. PICK answer \in BadAnswers, accepted \in BOOLEAN :
             /\ posts' = IF accepted THEN [posts EXCEPT ![Current] = @ + 1] ELSE posts
             /\ doubt' = IF accepted THEN doubt \cup {Current} ELSE doubt
             /\ PostFails(answer)
    BY <1>1
  <2>2. Retries \/ \E o \in Unlucky(Current) : Close(o)
    BY <2>1, PostFailsSteps DEF Unlucky
  <2>3. \/ /\ posts' = [posts EXCEPT ![Current] = @ + 1]
           /\ doubt' = doubt \cup {Current}
        \/ UNCHANGED <<posts, doubt>>
    BY <2>1
  <2> QED BY <2>2, <2>3 DEF Post
<1>2. CASE /\ posts' = [posts EXCEPT ![Current] = @ + 1]
           /\ \/ /\ step' = "verify" /\ poll' = 1
                 /\ UNCHANGED <<try, outcomes, doubt>>
              \/ Close(Succeeded(Current)) /\ UNCHANGED doubt
              \/ Close(Kept(Current)) /\ doubt' = doubt \cup {Current}
  BY <1>2 DEF Post, Unlucky
<1> QED BY <1>1, <1>2 DEF Post

LEMMA VerifySteps ==
  ASSUME Verify
  PROVE  /\ step = "verify"
         /\ UNCHANGED <<job, context, targets, accounts, uploaded, raised, row,
                        events, posts, faults>>
         /\ \/ Close(Succeeded(Current)) /\ UNCHANGED doubt
            \/ /\ poll < PollAttempts /\ poll' = poll + 1
               /\ UNCHANGED <<step, try, outcomes, doubt>>
            \/ /\ doubt' = doubt \cup {Current}
               /\ Retries \/ \E o \in Unlucky(Current) : Close(o)
<1>1. CASE \E answer \in BadAnswers : PostFails(answer) /\ doubt' = doubt \cup {Current}
  <2>1. PICK answer \in BadAnswers : PostFails(answer) /\ doubt' = doubt \cup {Current}
    BY <1>1
  <2>2. Retries \/ \E o \in Unlucky(Current) : Close(o)
    BY <2>1, PostFailsSteps DEF Unlucky
  <2> QED BY <2>1, <2>2 DEF Verify
<1>2. CASE Close(Failed(Current, FALSE)) /\ doubt' = doubt \cup {Current}
  BY <1>2 DEF Verify, Unlucky
<1>3. CASE /\ ~(poll < PollAttempts)
           /\ Close(Pending(Current)) /\ doubt' = doubt \cup {Current}
  BY <1>3 DEF Verify, Unlucky
<1>4. CASE /\ poll < PollAttempts /\ poll' = poll + 1
           /\ UNCHANGED <<step, try, outcomes, doubt>>
  BY <1>4 DEF Verify
<1>5. CASE Close(Succeeded(Current)) /\ UNCHANGED doubt
  BY <1>5 DEF Verify
<1> QED BY <1>1, <1>2, <1>3, <1>4, <1>5 DEF Verify

\* A call of which nothing is known leaves the batch.
Abandons(again) ==
  /\ outcomes' = [k \in DOMAIN targets |-> Failed(targets[k], again)]
  /\ raised' = [how |-> IF again THEN "transient" ELSE "permanent", result |-> TRUE]
  /\ step' = "record" /\ try' = 1

LEMMA BatchFailsSteps ==
  ASSUME NEW answer,
         IF TriesAgain(answer) THEN TryAgain ELSE BatchFails(answer) /\ try' = 1
  PROVE  \/ /\ try < RetryAttempts /\ try' = try + 1
            /\ UNCHANGED <<step, outcomes, raised>>
         \/ \E again \in BOOLEAN : Abandons(again)
<1>1. CASE TriesAgain(answer)
  BY <1>1 DEF TriesAgain, TryAgain
<1>2. CASE ~TriesAgain(answer)
  <2>1. Abandons(Retryable(answer))
    BY <1>2 DEF BatchFails, Raise, Class, Abandons
  <2> QED BY <2>1, RetryableIsBoolean
<1> QED BY <1>1, <1>2

LEMMA LoadSteps ==
  ASSUME LoadAccounts \/ LoadUsers
  PROVE  /\ step \in {"accounts", "users"}
         /\ UNCHANGED <<job, context, poll, targets, uploaded, row, events, posts,
                        doubt, faults>>
         /\ accounts' = accounts \/ accounts' \in SUBSET Platforms
         /\ \/ /\ step' = IF step = "accounts" THEN "users" ELSE "target"
               /\ try' = 1 /\ UNCHANGED <<outcomes, raised>>
            \/ /\ try < RetryAttempts /\ try' = try + 1
               /\ UNCHANGED <<step, outcomes, raised>>
            \/ \E again \in BOOLEAN : Abandons(again)
<1>1. CASE LoadAccounts
  <2>1. CASE accounts' \in SUBSET Platforms /\ step' = "users" /\ try' = 1
             /\ UNCHANGED <<outcomes, raised>>
    BY <1>1, <2>1 DEF LoadAccounts
  <2>2. CASE UNCHANGED accounts
             /\ \E answer \in BadAnswers :
                  IF TriesAgain(answer) THEN TryAgain
                  ELSE BatchFails(answer) /\ try' = 1
    BY <1>1, <2>2, BatchFailsSteps DEF LoadAccounts
  <2> QED BY <1>1, <2>1, <2>2 DEF LoadAccounts
<1>2. CASE LoadUsers
  <2>1. CASE step' = "target" /\ try' = 1 /\ UNCHANGED <<outcomes, raised>>
    BY <1>2, <2>1 DEF LoadUsers
  <2>2. CASE \E answer \in BadAnswers :
               IF TriesAgain(answer) THEN TryAgain
               ELSE BatchFails(answer) /\ try' = 1
    BY <1>2, <2>2, BatchFailsSteps DEF LoadUsers
  <2> QED BY <1>2, <2>1, <2>2 DEF LoadUsers
<1> QED BY <1>1, <1>2

LEMMA UploadSteps ==
  ASSUME Upload
  PROVE  /\ step = "upload"
         /\ UNCHANGED <<job, context, poll, targets, accounts, outcomes, row,
                        events, posts, faults>>
         /\ uploaded' = uploaded \/ uploaded' = uploaded \cup {KindOf(Current)}
         /\ \/ step' = "post" /\ try' = 1 /\ UNCHANGED <<raised, doubt>>
            \/ /\ try < RetryAttempts /\ try' = try + 1
               /\ UNCHANGED <<step, raised, doubt>>
            \/ /\ step' = "record" /\ try' = 1
               /\ \E how \in {"transient", "permanent"} :
                    raised' = [how |-> how, result |-> FALSE]
               /\ doubt' = doubt \cup Successful(outcomes)
<1>1. CASE /\ uploaded' = uploaded \cup {KindOf(Current)}
           /\ step' = "post" /\ try' = 1
           /\ UNCHANGED <<outcomes, raised, doubt>>
  BY <1>1 DEF Upload
<1>2. ASSUME NEW answer \in BadAnswers,
             IF TriesAgain(answer) THEN TryAgain /\ UNCHANGED doubt
             ELSE /\ Raise(Class(answer), FALSE)
                  /\ doubt' = doubt \cup Successful(outcomes)
                  /\ try' = 1
                  /\ UNCHANGED outcomes,
             UNCHANGED uploaded
      PROVE  /\ UNCHANGED <<uploaded, outcomes>>
             /\ \/ /\ try < RetryAttempts /\ try' = try + 1
                   /\ UNCHANGED <<step, raised, doubt>>
                \/ /\ step' = "record" /\ try' = 1
                   /\ \E how \in {"transient", "permanent"} :
                        raised' = [how |-> how, result |-> FALSE]
                   /\ doubt' = doubt \cup Successful(outcomes)
  <2>1. CASE TriesAgain(answer)
    BY <1>2, <2>1 DEF TriesAgain, TryAgain
  <2>2. CASE ~TriesAgain(answer)
    <3>1. Class(answer) \in {"transient", "permanent"}
      BY DEF Class
    <3>2. raised' = [how |-> Class(answer), result |-> FALSE]
          /\ step' = "record"
      BY <1>2, <2>2 DEF Raise
    <3> QED BY <1>2, <2>2, <3>1, <3>2
  <2> QED BY <2>1, <2>2
<1> QED BY <1>1, <1>2 DEF Upload
-----------------------------------------------------------------------------
(* Types.                                                                  *)

\* The stages of a run before and in the loop over the targets.
Planning == {"gate", "plan", "accounts", "users"}
Posting == {"target", "upload", "post", "verify"}

\* TypeOK, and a current target while there is one to upload or post for.
Typing ==
  /\ TypeOK
  /\ step \in {"upload", "post", "verify"} => Len(outcomes) < Len(targets)

LEMMA CurrentTyped ==
  ASSUME TypeOK, Len(outcomes) < Len(targets)
  PROVE  Current \in Platforms /\ Len(outcomes) \in Nat
         /\ Len(outcomes) + 1 \in DOMAIN targets
<1>1. targets \in Seq(Platforms) /\ Len(outcomes) \in Nat
  BY DEF TypeOK
<1> QED BY <1>1 DEF Current

LEMMA OutcomesTyped ==
  ASSUME NEW p \in Platforms
  PROVE  /\ Succeeded(p) \in Outcome
         /\ \A o \in Unlucky(p) : o \in Outcome
         /\ \A again \in BOOLEAN : Failed(p, again) \in Outcome
         /\ \A why \in {"skipped_unsupported_platform", "skipped_missing_account"} :
              Skipped(p, why) \in Outcome
BY DEF Succeeded, Unlucky, Pending, Kept, Failed, Skipped, Outcome

\* The end of a target's turn.
LEMMA CloseTyped ==
  ASSUME TypeOK, NEW o \in Outcome, Close(o)
  PROVE  /\ outcomes' \in Seq(Outcome) /\ step' = "target"
         /\ try' \in 1..RetryAttempts /\ poll' \in 1..PollAttempts
BY BoundsAssumption DEF TypeOK, Close

LEMMA ContextTyped ==
  ASSUME TypeOK
  PROVE  context.names \in Seq(Names) /\ context.gate \in {"post", "review", "none"}
BY NamesAssumption DEF TypeOK, Context

LEMMA RaisedTyped ==
  ASSUME NEW result \in BOOLEAN,
         \/ raised' = raised /\ TypeOK
         \/ \E how \in {"transient", "permanent"} :
              raised' = [how |-> how, result |-> result]
  PROVE  raised' \in [how : {"no", "transient", "permanent"}, result : BOOLEAN]
<1>1. CASE raised' = raised /\ TypeOK
  BY <1>1 DEF TypeOK
<1>2. CASE \E how \in {"transient", "permanent"} :
             raised' = [how |-> how, result |-> result]
  <2>1. PICK how \in {"transient", "permanent"} :
             raised' = [how |-> how, result |-> result]
    BY <1>2
  <2> QED BY <2>1
<1> QED BY <1>1, <1>2

LEMMA SuccessfulTyped ==
  ASSUME NEW os \in Seq(Outcome)
  PROVE  Successful(os) \subseteq Platforms
<1>1. \A k \in DOMAIN os : os[k] \in Outcome
  OBVIOUS
<1>2. \A o \in Outcome : o.platform \in Platforms
  BY DEF Outcome
<1> QED BY <1>1, <1>2 DEF Successful

LEMMA TypingInit == Init => Typing
<1> SUFFICES ASSUME Init PROVE Typing  OBVIOUS
<1>1. /\ job \in [status : {"queued", "processing", "completed", "failed"},
                  attempts : Nat]
      /\ raised \in [how : {"no", "transient", "permanent"}, result : BOOLEAN]
      /\ row \in [publish_status : {"pending", "skipped", "pending_review",
                                    "failed", "published", "partial"},
                  details : Seq(Outcome)]
  BY DEF Init, NotRaised
<1>2. try \in 1..RetryAttempts /\ poll \in 1..PollAttempts /\ faults \in 0..MaxCrashes
  BY BoundsAssumption DEF Init
<1>3. posts \in [Platforms -> Nat]
  BY DEF Init
<1> QED BY <1>1, <1>2, <1>3 DEF Init, Typing, TypeOK

\* The steps of the worker up to the publisher.
LEMMA ClaimTyped == Typing /\ Claim => Typing'
<1> SUFFICES ASSUME Typing, Claim PROVE Typing'  OBVIOUS
<1>1. job' \in [status : {"queued", "processing", "completed", "failed"},
                attempts : Nat]
  BY DEF Claim, Typing, TypeOK
<1>2. raised' \in [how : {"no", "transient", "permanent"}, result : BOOLEAN]
  BY DEF Claim, NotRaised
<1>3. try' \in 1..RetryAttempts /\ poll' \in 1..PollAttempts
  BY BoundsAssumption DEF Claim
<1> QED BY <1>1, <1>2, <1>3 DEF Claim, Typing, TypeOK

LEMMA RecordTyped ==
  ASSUME TypeOK,
         NEW status \in {"skipped", "pending_review", "failed", "published",
                         "partial"},
         NEW details \in Seq(Outcome),
         NEW event \in {"publish_skipped", "review_requested", "publish_failed",
                        "publish_completed"},
         Record(status, details, event)
  PROVE  /\ row' \in [publish_status : {"pending", "skipped", "pending_review",
                                        "failed", "published", "partial"},
                      details : Seq(Outcome)]
         /\ events' \subseteq {"publish_skipped", "review_requested",
                               "publish_failed", "publish_completed"}
         /\ step' = "ack"
         /\ row'.publish_status = status /\ row'.details = details
         /\ events' = events \cup {event}
BY DEF TypeOK, Record

LEMMA AggregateTyped ==
  ASSUME NEW asked, NEW os
  PROVE  AggregateStatus(asked, os) \in {"skipped", "failed", "published", "partial"}
<1> DEFINE effective == {k \in DOMAIN os : os[k].outcome # "skipped_missing_account"}
           won == {k \in DOMAIN os : IsSuccess(os[k])}
           status == CASE asked = <<>> -> "skipped"
                       [] asked # <<>> /\ won = {} -> "failed"
                       [] asked # <<>> /\ won # {} /\ won = effective -> "published"
                       [] asked # <<>> /\ won # {} /\ won # effective -> "partial"
<1>1. AggregateStatus(asked, os) = status
  BY DEF AggregateStatus
<1> HIDE DEF effective, won
<1>2. status \in {"skipped", "failed", "published", "partial"}
  OBVIOUS
<1> QED BY <1>1, <1>2

LEMMA StageTyped ==
  Typing /\ (SkipOrHold \/ EnterPublisher \/ Plan \/ PlanFails) => Typing'
<1> SUFFICES ASSUME Typing, SkipOrHold \/ EnterPublisher \/ Plan \/ PlanFails
             PROVE  Typing'
  OBVIOUS
<1>1. CASE SkipOrHold
  <2>1. <<>> \in Seq(Outcome)
    OBVIOUS
  <2>2. \/ Record("skipped", <<>>, "publish_skipped")
        \/ Record("pending_review", <<>>, "review_requested")
    BY <1>1 DEF SkipOrHold
  <2>3. /\ row' \in [publish_status : {"pending", "skipped", "pending_review",
                                       "failed", "published", "partial"},
                     details : Seq(Outcome)]
        /\ events' \subseteq {"publish_skipped", "review_requested",
                              "publish_failed", "publish_completed"}
        /\ step' = "ack"
    BY <2>1, <2>2, RecordTyped DEF Typing
  <2> QED BY <1>1, <2>3 DEF SkipOrHold, Typing, TypeOK
<1>2. CASE EnterPublisher
  BY <1>2 DEF EnterPublisher, Typing, TypeOK
<1>3. CASE Plan
  <2>1. targets' \in Seq(Platforms) /\ step' \in {"record", "accounts"}
    BY <1>3, ContextTyped, TargetsNormalised DEF Plan, Typing
  <2> QED BY <1>3, <2>1 DEF Plan, Typing, TypeOK
<1>4. CASE PlanFails
  BY <1>4 DEF PlanFails, Raise, Typing, TypeOK
<1> QED BY <1>1, <1>2, <1>3, <1>4

LEMMA LoadTyped == Typing /\ (LoadAccounts \/ LoadUsers) => Typing'
<1> SUFFICES ASSUME Typing, LoadAccounts \/ LoadUsers PROVE Typing'  OBVIOUS
<1> USE DEF Typing
<1>1. /\ step \in {"accounts", "users"}
      /\ UNCHANGED <<job, context, poll, targets, uploaded, row, events, posts,
                     doubt, faults>>
      /\ accounts' \subseteq Platforms
  BY LoadSteps DEF TypeOK
<1>2. CASE /\ step' = IF step = "accounts" THEN "users" ELSE "target"
           /\ try' = 1 /\ UNCHANGED <<outcomes, raised>>
  BY <1>1, <1>2, BoundsAssumption DEF TypeOK
<1>3. CASE /\ try < RetryAttempts /\ try' = try + 1
           /\ UNCHANGED <<step, outcomes, raised>>
  BY <1>1, <1>3, BoundsAssumption DEF TypeOK
<1>4. ASSUME NEW again \in BOOLEAN, Abandons(again)  PROVE Typing'
  <2>1. targets \in Seq(Platforms)
    BY DEF TypeOK
  <2>2. \A k \in DOMAIN targets : Failed(targets[k], again) \in Outcome
    BY <2>1, OutcomesTyped
  <2>3. outcomes' \in Seq(Outcome)
    BY <1>4, <2>1, <2>2 DEF Abandons
  <2>4. raised' \in [how : {"no", "transient", "permanent"}, result : BOOLEAN]
    BY <1>4 DEF Abandons
  <2>5. step' = "record" /\ try' \in 1..RetryAttempts
    BY <1>4, BoundsAssumption DEF Abandons
  <2> QED BY <1>1, <2>3, <2>4, <2>5 DEF TypeOK
<1> QED BY <1>2, <1>3, <1>4, LoadSteps

LEMMA TargetTyped == Typing /\ (SkipTarget \/ TakeTarget \/ Upload) => Typing'
<1> SUFFICES ASSUME Typing, SkipTarget \/ TakeTarget \/ Upload PROVE Typing'
  OBVIOUS
<1> USE DEF Typing
<1>1. CASE SkipTarget
  <2>1. PICK why \in {"skipped_unsupported_platform", "skipped_missing_account"} :
          Close(Skipped(Current, why))
    BY <1>1 DEF SkipTarget
  <2>2. Skipped(Current, why) \in Outcome
    BY <1>1, CurrentTyped, OutcomesTyped DEF SkipTarget
  <2>3. /\ outcomes' \in Seq(Outcome) /\ step' = "target"
        /\ try' \in 1..RetryAttempts /\ poll' \in 1..PollAttempts
    BY <2>1, <2>2, CloseTyped
  <2> QED BY <1>1, <2>3 DEF SkipTarget, TypeOK
<1>2. CASE TakeTarget
  <2>1. step' \in {"post", "upload"}
    BY <1>2 DEF TakeTarget
  <2> QED BY <1>2, <2>1 DEF TakeTarget, TypeOK
<1>3. CASE Upload
  <2>1. KindOf(Current) \in Kinds
    BY DEF KindOf, Kinds
  <2>2. uploaded' \subseteq Kinds
    BY <1>3, <2>1, UploadSteps DEF TypeOK
  <2>3. try' \in 1..RetryAttempts /\ step' \in {"upload", "post", "record"}
    BY <1>3, UploadSteps, BoundsAssumption DEF TypeOK
  <2>4. raised' \in [how : {"no", "transient", "permanent"}, result : BOOLEAN]
    <3>1. \/ raised' = raised
          \/ \E how \in {"transient", "permanent"} :
               raised' = [how |-> how, result |-> FALSE]
      BY <1>3, UploadSteps
    <3> QED BY <3>1, RaisedTyped
  <2>5. doubt' \subseteq Platforms
    <3>1. doubt' = doubt \/ doubt' = doubt \cup Successful(outcomes)
      BY <1>3, UploadSteps
    <3>2. outcomes \in Seq(Outcome) /\ doubt \subseteq Platforms
      BY DEF TypeOK
    <3>3. Successful(outcomes) \subseteq Platforms
      BY <3>2, SuccessfulTyped
    <3> QED BY <3>1, <3>2, <3>3
  <2>6. /\ step = "upload"
        /\ UNCHANGED <<job, context, poll, targets, accounts, outcomes, row,
                       events, posts, faults>>
    BY <1>3, UploadSteps
  <2> QED BY <2>2, <2>3, <2>4, <2>5, <2>6 DEF TypeOK
<1> QED BY <1>1, <1>2, <1>3

LEMMA RetriesTyped ==
  ASSUME TypeOK, Retries
  PROVE  /\ outcomes' \in Seq(Outcome) /\ outcomes' = outcomes /\ step' = "post"
         /\ try' \in 1..RetryAttempts /\ poll' \in 1..PollAttempts
BY BoundsAssumption DEF TypeOK, Retries

LEMMA PostTyped == Typing /\ (Post \/ Verify) => Typing'
<1> SUFFICES ASSUME Typing, Post \/ Verify PROVE Typing'  OBVIOUS
<1> USE DEF Typing
<1>1. /\ step \in {"post", "verify"}
      /\ UNCHANGED <<job, context, targets, accounts, uploaded, raised, row,
                     events, faults>>
  BY PostSteps, VerifySteps
<1>2. Current \in Platforms /\ Len(outcomes) < Len(targets)
  BY <1>1, CurrentTyped
<1>3. posts' \in [Platforms -> Nat] /\ doubt' \subseteq Platforms
  <2>1. posts \in [Platforms -> Nat] /\ doubt \subseteq Platforms
    BY DEF TypeOK
  <2>2. posts' = posts \/ posts' = [posts EXCEPT ![Current] = @ + 1]
    BY PostSteps, VerifySteps
  <2>3. doubt' = doubt \/ doubt' = doubt \cup {Current}
    BY PostSteps, VerifySteps
  <2> QED BY <1>2, <2>1, <2>2, <2>3
<1>4. ASSUME NEW o, Close(o), o = Succeeded(Current) \/ o \in Unlucky(Current)
      PROVE  Typing'
  <2>1. o \in Outcome
    BY <1>2, <1>4, OutcomesTyped
  <2>2. /\ outcomes' \in Seq(Outcome) /\ step' = "target"
        /\ try' \in 1..RetryAttempts /\ poll' \in 1..PollAttempts
    BY <1>4, <2>1, CloseTyped
  <2> QED BY <1>1, <1>3, <2>2 DEF TypeOK
<1>5. CASE Retries
  BY <1>1, <1>2, <1>3, <1>5, RetriesTyped DEF TypeOK
<1>6. CASE step' = "verify" /\ poll' = 1 /\ UNCHANGED <<try, outcomes>>
  BY <1>1, <1>2, <1>3, <1>6, BoundsAssumption DEF TypeOK
<1>7. CASE poll < PollAttempts /\ poll' = poll + 1 /\ UNCHANGED <<step, try, outcomes>>
  BY <1>1, <1>2, <1>3, <1>7, BoundsAssumption DEF TypeOK
<1> QED BY <1>4, <1>5, <1>6, <1>7, PostSteps, VerifySteps

LEMMA EndTyped ==
  Typing /\ (Finish \/ RecordResult \/ RecordFails \/ Ack \/ Recover \/ Crash)
    => Typing'
<1> SUFFICES ASSUME Typing,
                    Finish \/ RecordResult \/ RecordFails \/ Ack \/ Recover \/ Crash
             PROVE  Typing'
  OBVIOUS
<1> USE DEF Typing
<1>1. CASE Finish
  <2>1. step' = "record"
        /\ \/ raised' = raised
           \/ \E how \in {"transient", "permanent"} :
                raised' = [how |-> how, result |-> TRUE]
    BY <1>1 DEF Finish, Raise
  <2>2. raised' \in [how : {"no", "transient", "permanent"}, result : BOOLEAN]
    BY <2>1, RaisedTyped
  <2> QED BY <1>1, <2>1, <2>2 DEF Finish, TypeOK
<1>2. CASE RecordResult
  <2> DEFINE status == AggregateStatus(targets, outcomes)
             details == IF raised.result THEN outcomes ELSE <<>>
             event == IF status \in {"published", "partial"}
                        THEN "publish_completed" ELSE "publish_failed"
  <2>1. outcomes \in Seq(Outcome) /\ details \in Seq(Outcome)
        /\ status \in {"skipped", "failed", "published", "partial"}
    BY AggregateTyped DEF TypeOK
  <2>2. Record("failed", details, "publish_failed") \/ Record(status, outcomes, event)
    BY <1>2 DEF RecordResult
  <2> HIDE DEF status, details
  <2>3. /\ row' \in [publish_status : {"pending", "skipped", "pending_review",
                                       "failed", "published", "partial"},
                     details : Seq(Outcome)]
        /\ events' \subseteq {"publish_skipped", "review_requested",
                              "publish_failed", "publish_completed"}
        /\ step' = "ack"
    BY <2>1, <2>2, RecordTyped
  <2> QED BY <1>2, <2>3 DEF RecordResult, TypeOK
<1>3. CASE RecordFails
  <2>1. raised' \in [how : {"no", "transient", "permanent"}, result : BOOLEAN]
        /\ faults' \in 0..MaxCrashes /\ doubt' \subseteq Platforms
    BY <1>3, BoundsAssumption, SuccessfulTyped DEF RecordFails, TypeOK
  <2> QED BY <1>3, <2>1 DEF RecordFails, TypeOK
<1>4. CASE Ack \/ Recover
  <2>1. job' \in [status : {"queued", "processing", "completed", "failed"},
                  attempts : Nat] /\ step' = "idle"
    BY <1>4 DEF Ack, Recover, TypeOK
  <2> QED BY <1>4, <2>1 DEF Ack, Recover, TypeOK
<1>5. CASE Crash
  <2>1. faults' \in 0..MaxCrashes /\ doubt' \subseteq Platforms
    BY <1>5, BoundsAssumption DEF Crash, TypeOK
  <2> QED BY <1>5, <2>1 DEF Crash, TypeOK
<1> QED BY <1>1, <1>2, <1>3, <1>4, <1>5

LEMMA TypingNext == Typing /\ [Next]_vars => Typing'
<1>1. Typing /\ UNCHANGED vars => Typing'
  BY DEF vars, Typing, TypeOK
<1> QED
  BY <1>1, ClaimTyped, StageTyped, LoadTyped, TargetTyped, PostTyped, EndTyped
  DEF Next, Worker

\* Every variable keeps its type: in particular no more is tried and polled than
\* the settings allow, and no outcome is outside the vocabulary of the record.
THEOREM TypeCorrect == Spec => []TypeOK
<1>1. Typing => TypeOK
  BY DEF Typing
<1> QED  BY TypingInit, TypingNext, <1>1, PTL DEF Spec
-----------------------------------------------------------------------------
(* The batch of a run: targets and outcomes go together.                     *)

\* Only a job that is being processed has a run; nothing is raised and no
\* outcome is there before its stage.
Stages ==
  /\ step # "idle" => job.status = "processing" /\ job.attempts >= 1
  /\ step \in Planning \cup Posting => raised = NotRaised
  /\ step \in Planning => outcomes = <<>>
  /\ step = "target" => Len(outcomes) <= Len(targets) /\ try = 1

\* The outcome at k is that of target k, and a missing account says no more.
Answers(o, p) ==
  /\ o.platform = p
  /\ o.outcome = "skipped_missing_account" => o = Skipped(p, "skipped_missing_account")

Covered ==
  \A n \in Planned(context.names) : \E k \in DOMAIN targets : targets[k] = Canonical[n]

Whole == Successful(outcomes) # {} /\ Len(outcomes) = Len(targets)

Batch ==
  /\ Distinct(targets)
  /\ \A k \in DOMAIN outcomes : k \in DOMAIN targets /\ Answers(outcomes[k], targets[k])
  /\ step \in {"accounts", "users", "record"} \cup Posting /\ raised.how = "no" => Covered
  /\ step = "record" /\ raised.how = "no" => targets = <<>> \/ Whole

RunInv == Typing /\ Stages /\ Batch

Endings(p) ==
  {Succeeded(p)} \cup Unlucky(p)
    \cup {Skipped(p, "skipped_unsupported_platform"),
          Skipped(p, "skipped_missing_account")}

LEMMA EndingsTyped ==
  ASSUME NEW p \in Platforms, NEW o \in Endings(p)
  PROVE  o \in Outcome /\ Answers(o, p)
         /\ (IsSuccess(o) <=> o = Succeeded(p))
<1>1. CASE o = Succeeded(p)
  BY <1>1 DEF Succeeded, Outcome, Answers, IsSuccess
<1>2. CASE \E again \in BOOLEAN : o = Failed(p, again)
  <2>1. PICK again \in BOOLEAN : o = Failed(p, again)
    BY <1>2
  <2>2. o \in Outcome
    BY <2>1, OutcomesTyped
  <2>3. o.platform = p /\ o.outcome = "failed"
    BY <2>1 DEF Failed
  <2>4. o # Succeeded(p)
    BY <2>3 DEF Succeeded
  <2> QED BY <2>2, <2>3, <2>4 DEF Answers, IsSuccess
<1>3. CASE o = Pending(p)
  BY <1>3 DEF Pending, Succeeded, Outcome, Answers, IsSuccess
<1>4. CASE o = Kept(p)
  BY <1>4 DEF Kept, Succeeded, Outcome, Answers, IsSuccess
<1>5. CASE \E why \in {"skipped_unsupported_platform", "skipped_missing_account"} :
             o = Skipped(p, why)
  <2>1. PICK why \in {"skipped_unsupported_platform", "skipped_missing_account"} :
          o = Skipped(p, why)
    BY <1>5
  <2>2. o \in Outcome
    BY <2>1, OutcomesTyped
  <2>3. o.platform = p /\ o.outcome = why
    BY <2>1 DEF Skipped
  <2>4. o # Succeeded(p)
    BY <2>3 DEF Succeeded
  <2> QED BY <2>1, <2>2, <2>3, <2>4 DEF Answers, IsSuccess
<1> QED BY <1>1, <1>2, <1>3, <1>4, <1>5 DEF Endings, Unlucky

LEMMA CloseSteps ==
  ASSUME TypeOK, NEW o \in Outcome, Close(o)
  PROVE  /\ step' = "target" /\ try' = 1
         /\ Len(outcomes) \in Nat /\ Len(outcomes') = Len(outcomes) + 1
         /\ DOMAIN outcomes' = 1 .. Len(outcomes) + 1
         /\ DOMAIN outcomes = 1 .. Len(outcomes)
         /\ outcomes'[Len(outcomes) + 1] = o
         /\ \A k \in DOMAIN outcomes : outcomes'[k] = outcomes[k]
         /\ \A k \in DOMAIN outcomes' : k \in DOMAIN outcomes \/ k = Len(outcomes) + 1
BY DEF TypeOK, Close

LEMMA CloseBatch ==
  ASSUME RunInv, Len(outcomes) < Len(targets), raised.how = "no",
         step \in Posting, UNCHANGED <<job, context, targets, raised>>,
         NEW o \in Endings(Current), Close(o)
  PROVE  Stages' /\ Batch'
<1>1. /\ Current \in Platforms /\ Len(outcomes) \in Nat
      /\ Len(outcomes) + 1 \in DOMAIN targets
  BY CurrentTyped DEF RunInv, Typing
<1>2. o \in Outcome /\ Answers(o, Current)
  BY <1>1, EndingsTyped
<1>3. /\ step' = "target" /\ try' = 1
      /\ Len(outcomes') = Len(outcomes) + 1
      /\ outcomes'[Len(outcomes) + 1] = o
      /\ \A k \in DOMAIN outcomes : outcomes'[k] = outcomes[k]
      /\ \A k \in DOMAIN outcomes' : k \in DOMAIN outcomes \/ k = Len(outcomes) + 1
  BY <1>2, CloseSteps DEF RunInv, Typing
<1>4. Len(targets) \in Nat
  BY DEF RunInv, Typing, TypeOK
<1>5. Stages'
  BY <1>1, <1>3, <1>4 DEF RunInv, Stages, Planning, Posting
<1>6. \A k \in DOMAIN outcomes' : k \in DOMAIN targets /\ Answers(outcomes'[k], targets[k])
  BY <1>1, <1>2, <1>3 DEF RunInv, Batch, Current
<1>7. Distinct(targets) /\ Covered
  BY DEF RunInv, Batch
<1>8. Distinct(targets)' /\ Covered'
  BY <1>7 DEF Distinct, Covered
<1> QED BY <1>3, <1>5, <1>6, <1>8 DEF Batch

LEMMA RunInit == Init => RunInv
<1> SUFFICES ASSUME Init PROVE RunInv  OBVIOUS
<1>1. Stages
  BY DEF Init, Stages, Planning, Posting
<1>2. Batch
  BY DEF Init, Batch, Distinct, Posting, NotRaised
<1> QED BY <1>1, <1>2, TypingInit DEF RunInv

LEMMA ClaimRun == RunInv /\ Claim => Stages' /\ Batch'
<1> SUFFICES ASSUME RunInv, Claim PROVE Stages' /\ Batch'  OBVIOUS
<1>1. Stages'
  BY DEF Claim, Stages, Planning, Posting, RunInv, Typing, TypeOK
<1>2. Batch'
  BY DEF Claim, Batch, Distinct, Posting
<1> QED BY <1>1, <1>2

LEMMA PlanRun == RunInv /\ Plan => Stages' /\ Batch'
<1> SUFFICES ASSUME RunInv, Plan PROVE Stages' /\ Batch'  OBVIOUS
<1>1. raised = NotRaised /\ outcomes = <<>>
  BY DEF Plan, RunInv, Stages, Planning
<1>2. /\ context.names \in Seq(Names) /\ step' \in {"record", "accounts"}
      /\ step' = "record" => targets' = <<>>
      /\ targets' = NormaliseTargets(context.names)
      /\ UNCHANGED <<job, context, raised, outcomes>>
  BY ContextTyped DEF Plan, RunInv, Typing
<1>3. Distinct(targets') /\ \A n \in Planned(context.names) :
                              \E k \in DOMAIN targets' : targets'[k] = Canonical[n]
  BY <1>2, TargetsNormalised
<1>4. Stages'
  BY <1>1, <1>2 DEF Plan, RunInv, Stages, Planning, Posting
<1>5. Distinct(targets)' /\ Covered'
  BY <1>2, <1>3 DEF Distinct, Covered
<1>6. \A k \in DOMAIN outcomes' : k \in DOMAIN targets' /\ Answers(outcomes'[k], targets'[k])
  BY <1>1, <1>2
<1>7. step' = "record" /\ raised'.how = "no" => targets' = <<>> \/ Whole'
  BY <1>2
<1> QED BY <1>4, <1>5, <1>6, <1>7 DEF Batch

LEMMA GateRun ==
  RunInv /\ (SkipOrHold \/ EnterPublisher \/ PlanFails) => Stages' /\ Batch'
<1> SUFFICES ASSUME RunInv, SkipOrHold \/ EnterPublisher \/ PlanFails
             PROVE  Stages' /\ Batch'
  OBVIOUS
<1>1. /\ step \in {"gate", "plan"} /\ step' \in {"ack", "plan", "record"}
      /\ UNCHANGED <<job, context, try, targets, outcomes>>
      /\ step' = "record" => raised'.how = "permanent"
      /\ step' = "plan" => raised' = raised
  BY DEF SkipOrHold, EnterPublisher, PlanFails, Record, Raise
<1>2. Stages'
  BY <1>1 DEF RunInv, Stages, Planning, Posting
<1>3. Batch'
  BY <1>1 DEF RunInv, Batch, Distinct, Posting
<1> QED BY <1>2, <1>3

LEMMA LoadRun == RunInv /\ (LoadAccounts \/ LoadUsers) => Stages' /\ Batch'
<1> SUFFICES ASSUME RunInv, LoadAccounts \/ LoadUsers PROVE Stages' /\ Batch'
  OBVIOUS
<1>1. step \in {"accounts", "users"} /\ UNCHANGED <<job, context, targets>>
  BY LoadSteps
<1>2. /\ raised = NotRaised /\ outcomes = <<>> /\ Covered /\ Distinct(targets)
      /\ job.status = "processing" /\ job.attempts >= 1
  BY <1>1 DEF RunInv, Stages, Planning, Batch, NotRaised
<1>3. Covered' /\ Distinct(targets)'
  BY <1>1, <1>2 DEF Covered, Distinct
<1>4. targets \in Seq(Platforms)
  BY DEF RunInv, Typing, TypeOK
<1>5. CASE /\ step' = IF step = "accounts" THEN "users" ELSE "target"
           /\ try' = 1 /\ UNCHANGED <<outcomes, raised>>
  <2>1. Stages'
    BY <1>1, <1>2, <1>4, <1>5 DEF Stages, Planning, Posting
  <2>2. Batch'
    BY <1>1, <1>2, <1>3, <1>5 DEF Batch
  <2> QED BY <2>1, <2>2
<1>6. CASE UNCHANGED <<step, outcomes, raised>>
  <2>1. Stages'
    BY <1>1, <1>2, <1>6 DEF Stages, Planning, Posting
  <2>2. Batch'
    BY <1>1, <1>2, <1>3, <1>6 DEF Batch
  <2> QED BY <2>1, <2>2
<1>7. ASSUME NEW again \in BOOLEAN, Abandons(again)  PROVE Stages' /\ Batch'
  <2>1. step' = "record" /\ raised'.how # "no"
    BY <1>7 DEF Abandons
  <2>2. Stages'
    BY <1>1, <1>2, <2>1 DEF Stages, Planning, Posting
  <2>3. \A k \in DOMAIN outcomes' : /\ k \in DOMAIN targets'
                                    /\ Answers(outcomes'[k], targets'[k])
    BY <1>1, <1>7 DEF Abandons, Failed, Answers
  <2> QED BY <1>3, <2>1, <2>2, <2>3 DEF Batch
<1> QED BY <1>5, <1>6, <1>7, LoadSteps

LEMMA TurnRun ==
  RunInv /\ (SkipTarget \/ TakeTarget \/ Post \/ Verify) => Stages' /\ Batch'
<1> SUFFICES ASSUME RunInv, SkipTarget \/ TakeTarget \/ Post \/ Verify
             PROVE  Stages' /\ Batch'
  OBVIOUS
<1>1. /\ step \in Posting /\ Len(outcomes) < Len(targets)
      /\ UNCHANGED <<job, context, targets, raised>>
  BY PostSteps, VerifySteps DEF SkipTarget, TakeTarget, RunInv, Typing, Posting
<1>2. raised = NotRaised /\ raised.how = "no"
  BY <1>1 DEF RunInv, Stages, NotRaised
<1>3. ASSUME NEW o \in Endings(Current), Close(o)  PROVE Stages' /\ Batch'
  BY <1>1, <1>2, <1>3, CloseBatch
<1>4. CASE step' \in {"upload", "post", "verify"} /\ UNCHANGED outcomes
  <2>1. Stages'
    BY <1>1, <1>4 DEF RunInv, Stages, Planning, Posting
  <2>2. Covered /\ Distinct(targets)
    BY <1>1, <1>2 DEF RunInv, Batch
  <2>3. Covered' /\ Distinct(targets)'
    BY <1>1, <2>2 DEF Covered, Distinct
  <2>4. Batch'
    BY <1>1, <1>4, <2>3 DEF RunInv, Batch
  <2> QED BY <2>1, <2>4
<1>5. CASE SkipTarget
  BY <1>3, <1>5 DEF SkipTarget, Endings
<1>6. CASE TakeTarget
  BY <1>4, <1>6 DEF TakeTarget
<1>7. CASE Post
  BY <1>3, <1>4, <1>7, PostSteps DEF Retries, Endings, Unlucky
<1>8. CASE Verify
  BY <1>3, <1>4, <1>8, VerifySteps DEF Retries, Endings
<1> QED BY <1>5, <1>6, <1>7, <1>8

LEMMA UploadRun == RunInv /\ Upload => Stages' /\ Batch'
<1> SUFFICES ASSUME RunInv, Upload PROVE Stages' /\ Batch'  OBVIOUS
<1>1. /\ step = "upload" /\ UNCHANGED <<job, context, targets, outcomes>>
      /\ \/ step' \in {"post", "upload"} /\ UNCHANGED raised
         \/ step' = "record" /\ raised'.how # "no"
  BY UploadSteps
<1>2. Stages'
  BY <1>1 DEF RunInv, Stages, Planning, Posting
<1>3. Batch'
  BY <1>1 DEF RunInv, Batch, Posting, Distinct, Covered
<1> QED BY <1>2, <1>3

LEMMA EndRun ==
  RunInv /\ (Finish \/ RecordResult \/ RecordFails \/ Ack \/ Recover \/ Crash)
    => Stages' /\ Batch'
<1> SUFFICES ASSUME RunInv,
                    Finish \/ RecordResult \/ RecordFails \/ Ack \/ Recover \/ Crash
             PROVE  Stages' /\ Batch'
  OBVIOUS
<1>1. CASE Finish
  <2>1. /\ step' = "record" /\ UNCHANGED <<job, context, targets, outcomes>>
        /\ Len(outcomes) = Len(targets)
        /\ \/ raised'.how # "no"
           \/ UNCHANGED raised /\ Successful(outcomes) # {}
    BY <1>1 DEF Finish, Raise
  <2>2. raised = NotRaised /\ step \in Posting
    BY <1>1 DEF Finish, RunInv, Stages, Posting
  <2>3. Stages'
    BY <1>1, <2>1 DEF Finish, RunInv, Stages, Planning, Posting
  <2>4. raised'.how = "no" => Covered'
    BY <2>1, <2>2 DEF RunInv, Batch, Covered
  <2>5. raised'.how = "no" => Whole'
    BY <2>1 DEF Whole, Successful
  <2>6. Distinct(targets)'
    BY <2>1 DEF RunInv, Batch, Distinct
  <2> QED BY <2>1, <2>3, <2>4, <2>5, <2>6 DEF RunInv, Batch
<1>2. CASE RecordResult \/ RecordFails
  <2>1. /\ step = "record" /\ step' = "ack"
        /\ UNCHANGED <<job, context, targets, outcomes>>
    BY <1>2 DEF RecordResult, RecordFails, Record
  <2>2. Stages'
    BY <2>1 DEF RunInv, Stages, Planning, Posting
  <2>3. Batch'
    BY <2>1 DEF RunInv, Batch, Posting, Distinct
  <2> QED BY <2>2, <2>3
<1>3. CASE Ack \/ Recover \/ Crash
  <2>1. step' = "idle" /\ UNCHANGED <<targets, outcomes>>
    BY <1>3 DEF Ack, Recover, Crash
  <2>2. Stages'
    BY <2>1 DEF Stages, Planning, Posting
  <2>3. Batch'
    BY <2>1 DEF RunInv, Batch, Posting, Distinct
  <2> QED BY <2>2, <2>3
<1> QED BY <1>1, <1>2, <1>3

LEMMA RunNext == RunInv /\ [Next]_vars => RunInv'
<1> SUFFICES ASSUME RunInv, [Next]_vars PROVE Stages' /\ Batch'
  BY TypingNext DEF RunInv
<1>1. CASE UNCHANGED vars
  <2>1. Stages'
    BY <1>1 DEF vars, RunInv, Stages
  <2>2. Batch'
    BY <1>1 DEF vars, RunInv, Batch, Distinct, Covered, Whole, Successful
  <2> QED BY <2>1, <2>2
<1> QED
  BY <1>1, ClaimRun, PlanRun, GateRun, LoadRun, TurnRun, UploadRun, EndRun
  DEF Next, Worker
-----------------------------------------------------------------------------
(* What the record claims is true.                                           *)

\* Successes, and a post that is being verified, are there.
Posted ==
  /\ \A k \in DOMAIN outcomes :
       IsSuccess(outcomes[k]) => posts[outcomes[k].platform] > 0
  /\ step = "verify" => posts[Current] > 0

\* How the run ends is what the row says.
Told ==
  step = "ack" =>
    \/ raised.how = "no" /\ row.publish_status \in {"skipped", "pending_review",
                                                    "published", "partial"}
    \/ raised.how # "no" /\ (row.publish_status = "failed" \/ faults > 0)

TruthInv == Posted /\ Told /\ RecordedPostsExist /\ JobAgreesWithRow

LEMMA TruthInit == Init => TruthInv
<1> SUFFICES ASSUME Init PROVE TruthInv  OBVIOUS
<1>1. Posted /\ Told
  BY DEF Init, Posted, Told
<1>2. RecordedPostsExist
  BY DEF Init, RecordedPostsExist
<1>3. JobAgreesWithRow
  BY DEF Init, JobAgreesWithRow
<1> QED BY <1>1, <1>2, <1>3 DEF TruthInv

\* Posts are never taken back.
Growing == \A p \in Platforms : posts'[p] >= posts[p]

LEMMA GrowingKeepsRecord ==
  ASSUME TypeOK, RecordedPostsExist, Growing, posts' \in [Platforms -> Nat],
         UNCHANGED <<row, context>>
  PROVE  RecordedPostsExist'
<1>1. \A p \in Platforms : posts[p] > 0 => posts'[p] > 0
  BY DEF TypeOK, Growing
<1>2. \A k \in DOMAIN row.details : row.details[k].platform \in Platforms
  <2>1. row.details \in Seq(Outcome)
    BY DEF TypeOK
  <2>2. \A k \in DOMAIN row.details : row.details[k] \in Outcome
    BY <2>1
  <2> QED BY <2>2 DEF Outcome
<1>3. \A n \in Range(context.names) : Canonical[n] \in Platforms
  <2>1. \A n \in Range(context.names) : n \in Names
    BY ContextTyped DEF Range
  <2> QED BY <2>1, NamesAssumption
<1> QED BY <1>1, <1>2, <1>3 DEF RecordedPostsExist

\* Every action but those that create posts, and those that write the row or
\* acknowledge.
LEMMA QuietTruth ==
  ASSUME RunInv, TruthInv,
         SkipTarget \/ TakeTarget \/ Upload \/ Finish \/ EnterPublisher
           \/ Plan \/ PlanFails \/ LoadAccounts \/ LoadUsers \/ Recover \/ Claim
           \/ Crash \/ Verify
  PROVE  /\ UNCHANGED <<row, context, posts>> /\ step' # "ack" /\ events' = events
         /\ job' = job \/ job'.status \in {"queued", "processing"}
         /\ faults' = faults \/ (faults' = faults + 1 /\ job.status = "processing")
<1>1. CASE LoadAccounts \/ LoadUsers
  BY <1>1, LoadSteps DEF Abandons
<1>2. CASE Upload
  BY <1>2, UploadSteps
<1>3. CASE Verify
  <2>1. step' # "ack"
    BY <1>3, VerifySteps DEF Close, Retries
  <2> QED BY <1>3, <2>1, VerifySteps
<1>4. CASE SkipTarget \/ TakeTarget \/ Finish
  BY <1>4 DEF SkipTarget, Close, TakeTarget, Finish, Raise
<1>5. CASE EnterPublisher \/ Plan \/ PlanFails
  BY <1>5 DEF EnterPublisher, Plan, PlanFails, Raise
<1>6. CASE Recover \/ Claim
  BY <1>6 DEF Recover, Claim, RunInv, Typing, TypeOK
<1>7. CASE Crash
  BY <1>7 DEF Crash, RunInv, Stages
<1> QED BY <1>1, <1>2, <1>3, <1>4, <1>5, <1>6, <1>7

LEMMA QuietKeeps ==
  ASSUME RunInv, TruthInv, UNCHANGED <<row, context, posts>>, step' # "ack",
         events' = events,
         job' = job \/ job'.status \in {"queued", "processing"},
         faults' = faults \/ (faults' = faults + 1 /\ job.status = "processing")
  PROVE  Told' /\ RecordedPostsExist' /\ JobAgreesWithRow'
<1>1. Told'
  BY DEF Told
<1>2. RecordedPostsExist'
  BY DEF TruthInv, RecordedPostsExist
<1>3. JobAgreesWithRow'
  BY DEF TruthInv, JobAgreesWithRow, RunInv, Typing, TypeOK
<1> QED BY <1>1, <1>2, <1>3

\* A turn that ends.
LEMMA ClosePosted ==
  ASSUME RunInv, Posted, Growing, posts' \in [Platforms -> Nat],
         Len(outcomes) < Len(targets), UNCHANGED targets,
         NEW o \in Endings(Current), Close(o),
         IsSuccess(o) => posts'[Current] > 0
  PROVE  Posted'
<1>1. Current \in Platforms
  BY CurrentTyped DEF RunInv, Typing
<1>2. o \in Outcome /\ o.platform = Current
  BY <1>1, EndingsTyped DEF Answers
<1>3. /\ step' = "target" /\ outcomes'[Len(outcomes) + 1] = o
      /\ \A k \in DOMAIN outcomes : outcomes'[k] = outcomes[k]
      /\ \A k \in DOMAIN outcomes' : k \in DOMAIN outcomes \/ k = Len(outcomes) + 1
  BY <1>2, CloseSteps DEF RunInv, Typing
<1>4. \A k \in DOMAIN outcomes : outcomes[k].platform \in Platforms
  <2>1. outcomes \in Seq(Outcome)
    BY DEF RunInv, Typing, TypeOK
  <2>2. \A k \in DOMAIN outcomes : outcomes[k] \in Outcome
    BY <2>1
  <2> QED BY <2>2 DEF Outcome
<1>5. \A p \in Platforms : posts[p] > 0 => posts'[p] > 0
  BY DEF Growing, RunInv, Typing, TypeOK
<1> QED BY <1>2, <1>3, <1>4, <1>5 DEF Posted

\* A turn that goes on.
LEMMA StayPosted ==
  ASSUME RunInv, Posted, Growing, posts' \in [Platforms -> Nat],
         UNCHANGED <<targets, outcomes>>,
         step' = "verify" => posts'[Current] > 0
  PROVE  Posted'
<1>1. \A k \in DOMAIN outcomes : outcomes[k].platform \in Platforms
  <2>1. outcomes \in Seq(Outcome)
    BY DEF RunInv, Typing, TypeOK
  <2>2. \A k \in DOMAIN outcomes : outcomes[k] \in Outcome
    BY <2>1
  <2> QED BY <2>2 DEF Outcome
<1>2. \A p \in Platforms : posts[p] > 0 => posts'[p] > 0
  BY DEF Growing, RunInv, Typing, TypeOK
<1>3. Current' = Current
  BY DEF Current
<1> QED BY <1>1, <1>2, <1>3 DEF Posted

LEMMA SamePostsGrow ==
  ASSUME RunInv, UNCHANGED posts
  PROVE  Growing /\ posts' \in [Platforms -> Nat]
BY DEF Growing, RunInv, Typing, TypeOK

LEMMA QuietPosted ==
  ASSUME RunInv, TruthInv,
         SkipTarget \/ TakeTarget \/ Upload \/ Finish \/ EnterPublisher
           \/ Plan \/ PlanFails \/ LoadAccounts \/ LoadUsers \/ Recover \/ Claim
           \/ Crash \/ Verify
  PROVE  Posted'
<1>1. UNCHANGED posts
  BY QuietTruth
<1>2. Growing /\ posts' \in [Platforms -> Nat]
  BY <1>1, SamePostsGrow
<1>3. CASE Claim
  BY <1>3 DEF Claim, Posted
<1>4. CASE EnterPublisher \/ Plan \/ PlanFails
  <2>1. step' # "verify" /\ UNCHANGED outcomes /\ outcomes = <<>>
    BY <1>4 DEF EnterPublisher, Plan, PlanFails, Raise, RunInv, Stages, Planning
  <2> QED BY <2>1 DEF Posted
<1>5. CASE LoadAccounts \/ LoadUsers
  <2>1. step \in {"accounts", "users"} /\ outcomes = <<>>
    BY <1>5, LoadSteps DEF RunInv, Stages, Planning
  <2>2. step' # "verify" /\ \A k \in DOMAIN outcomes' : ~IsSuccess(outcomes'[k])
    BY <1>5, <2>1, LoadSteps DEF Abandons, Failed, IsSuccess
  <2> QED BY <2>2 DEF Posted
<1>6. CASE TakeTarget \/ Upload \/ Finish \/ Recover \/ Crash
  <2>1. step' # "verify" /\ UNCHANGED <<targets, outcomes>>
    BY <1>6, UploadSteps DEF TakeTarget, Finish, Raise, Recover, Crash
  <2> QED BY <1>2, <2>1, StayPosted DEF TruthInv
<1>7. CASE SkipTarget
  <2>1. Len(outcomes) < Len(targets) /\ UNCHANGED targets /\ Current \in Platforms
    BY <1>7, CurrentTyped DEF SkipTarget, RunInv, Typing
  <2>2. PICK o \in {Skipped(Current, "skipped_unsupported_platform"),
                    Skipped(Current, "skipped_missing_account")} : Close(o)
    BY <1>7 DEF SkipTarget
  <2>3. o \in Endings(Current) /\ ~IsSuccess(o)
    BY DEF Endings, Skipped, IsSuccess
  <2> QED BY <1>2, <2>1, <2>2, <2>3, ClosePosted DEF TruthInv
<1>8. CASE Verify
  <2>1. /\ Len(outcomes) < Len(targets) /\ UNCHANGED targets
        /\ Current \in Platforms /\ posts[Current] > 0
    BY <1>8, CurrentTyped, VerifySteps DEF RunInv, Typing, TruthInv, Posted
  <2>2. \/ \E o \in Endings(Current) : Close(o)
        \/ UNCHANGED outcomes
    BY <1>8, VerifySteps DEF Endings, Unlucky, Retries
  <2> QED BY <1>1, <1>2, <2>1, <2>2, ClosePosted, StayPosted DEF TruthInv
<1> QED BY <1>3, <1>4, <1>5, <1>6, <1>7, <1>8

LEMMA PostTruth == RunInv /\ TruthInv /\ Post => TruthInv'
<1> SUFFICES ASSUME RunInv, TruthInv, Post PROVE TruthInv'  OBVIOUS
<1>1. /\ step = "post" /\ Len(outcomes) < Len(targets)
      /\ UNCHANGED <<job, context, targets, raised, row, events, faults>>
      /\ Current \in Platforms /\ posts \in [Platforms -> Nat]
  BY PostSteps, CurrentTyped DEF RunInv, Typing, TypeOK
<1>2. posts' = posts \/ posts' = [posts EXCEPT ![Current] = @ + 1]
  BY PostSteps
<1>3. Growing /\ posts' \in [Platforms -> Nat]
  BY <1>1, <1>2 DEF Growing
<1>4. RecordedPostsExist'
  BY <1>1, <1>3, GrowingKeepsRecord DEF TruthInv, RunInv, Typing
<1>5. step' \in {"target", "verify", "post"}
  BY PostSteps DEF Close, Retries
<1>6. Told' /\ JobAgreesWithRow'
  BY <1>1, <1>5 DEF Told, TruthInv, JobAgreesWithRow
<1>7. ASSUME UNCHANGED outcomes, step' = "verify" => posts'[Current] > 0
      PROVE  Posted'
  BY <1>1, <1>3, <1>7, StayPosted DEF TruthInv
<1>8. ASSUME NEW o \in Endings(Current), Close(o),
             IsSuccess(o) => posts'[Current] > 0
      PROVE  Posted'
  BY <1>1, <1>3, <1>8, ClosePosted DEF TruthInv
<1>9. Posted'
  <2>1. CASE Retries \/ \E o \in Unlucky(Current) : Close(o)
    <3>1. \A o \in Unlucky(Current) : o \in Endings(Current) /\ ~IsSuccess(o)
      BY DEF Endings, Unlucky, Failed, Pending, Kept, IsSuccess
    <3> QED BY <1>7, <1>8, <2>1, <3>1 DEF Retries
  <2>2. CASE /\ posts' = [posts EXCEPT ![Current] = @ + 1]
             /\ \/ step' = "verify" /\ UNCHANGED outcomes
                \/ Close(Succeeded(Current))
    <3>1. posts'[Current] > 0 /\ Succeeded(Current) \in Endings(Current)
      BY <1>1, <2>2 DEF Endings
    <3> QED BY <1>7, <1>8, <2>2, <3>1
  <2> QED BY <2>1, <2>2, PostSteps
<1> QED BY <1>4, <1>6, <1>9 DEF TruthInv

\* What goes into the row.
LEMMA HoldTruth == RunInv /\ TruthInv /\ SkipOrHold => TruthInv'
<1> SUFFICES ASSUME RunInv, TruthInv, SkipOrHold PROVE TruthInv'  OBVIOUS
<1>1. /\ step' = "ack" /\ row'.details = <<>>
      /\ row'.publish_status \in {"skipped", "pending_review"}
      /\ UNCHANGED <<job, context, targets, outcomes, raised, posts, faults>>
  BY DEF SkipOrHold, Record
<1>2. raised = NotRaised /\ job.status = "processing"
  BY DEF SkipOrHold, RunInv, Stages, Planning
<1>3. Posted'
  BY <1>1 DEF TruthInv, Posted
<1>4. Told'
  BY <1>1, <1>2 DEF Told, NotRaised
<1>5. RecordedPostsExist'
  BY <1>1 DEF RecordedPostsExist
<1>6. JobAgreesWithRow'
  BY <1>1, <1>2 DEF JobAgreesWithRow
<1> QED BY <1>3, <1>4, <1>5, <1>6 DEF TruthInv

LEMMA AggregateSays ==
  ASSUME NEW asked, NEW os, asked # <<>>, Successful(os) # {}
  PROVE  LET status == AggregateStatus(asked, os)
         IN  /\ status \in {"published", "partial"}
             /\ status = "published" =>
                  \A k \in DOMAIN os : os[k].outcome = "skipped_missing_account"
                                      \/ IsSuccess(os[k])
<1> DEFINE effective == {k \in DOMAIN os : os[k].outcome # "skipped_missing_account"}
           won == {k \in DOMAIN os : IsSuccess(os[k])}
           status == CASE asked = <<>> -> "skipped"
                       [] asked # <<>> /\ won = {} -> "failed"
                       [] asked # <<>> /\ won # {} /\ won = effective -> "published"
                       [] asked # <<>> /\ won # {} /\ won # effective -> "partial"
<1>1. AggregateStatus(asked, os) = status
  BY DEF AggregateStatus
<1>2. won # {}
  BY DEF Successful
<1> HIDE DEF effective, won
<1>3. status \in {"published", "partial"} /\ (status = "published" => won = effective)
  BY <1>2
<1> HIDE DEF status
<1>4. won = effective => \A k \in DOMAIN os : \/ os[k].outcome = "skipped_missing_account"
                                              \/ IsSuccess(os[k])
  BY DEF won, effective
<1> QED BY <1>1, <1>3, <1>4

LEMMA ResultTruth == RunInv /\ TruthInv /\ RecordResult => TruthInv'
<1> SUFFICES ASSUME RunInv, TruthInv, RecordResult PROVE TruthInv'  OBVIOUS
<1> DEFINE status == AggregateStatus(targets, outcomes)
<1>1. /\ step = "record" /\ step' = "ack"
      /\ UNCHANGED <<job, context, targets, outcomes, raised, posts, faults>>
      /\ \/ /\ raised.how # "no" /\ row'.publish_status = "failed"
            /\ row'.details \in {outcomes, <<>>}
         \/ /\ raised.how = "no" /\ row'.publish_status = status
            /\ row'.details = outcomes
            /\ status \in {"published", "partial"} => "publish_completed" \in events'
  BY DEF RecordResult, Record
<1>2. job.status = "processing" /\ context.names \in Seq(Names)
      /\ outcomes \in Seq(Outcome) /\ posts \in [Platforms -> Nat]
  BY <1>1, ContextTyped DEF RunInv, Stages, Typing, TypeOK
<1>3. raised.how = "no" => Covered /\ (targets = <<>> \/ Whole)
  BY <1>1 DEF RunInv, Batch
<1>4. Posted'
  BY <1>1 DEF TruthInv, Posted
<1>5. raised.how = "no" /\ targets = <<>> => status = "skipped"
  BY DEF AggregateStatus
<1>6. raised.how = "no" /\ targets # <<>> =>
        /\ status \in {"published", "partial"} /\ Whole
        /\ status = "published" =>
             \A k \in DOMAIN outcomes : outcomes[k].outcome = "skipped_missing_account"
                                       \/ IsSuccess(outcomes[k])
  BY <1>3, AggregateSays DEF Whole
<1> HIDE DEF status
<1>7. Told'
  BY <1>1, <1>5, <1>6 DEF Told
<1>8. JobAgreesWithRow'
  BY <1>1, <1>2 DEF JobAgreesWithRow
<1>9. \A k \in DOMAIN outcomes : IsSuccess(outcomes[k]) => posts[outcomes[k].platform] > 0
  BY DEF TruthInv, Posted
<1>10. \A k \in DOMAIN row'.details :
         IsSuccess(row'.details[k]) => posts'[row'.details[k].platform] > 0
  BY <1>1, <1>9
<1>11. ASSUME row'.publish_status = "published",
              NEW n \in Range(context.names), Canonical[n] \in Configured
       PROVE  \/ posts[Canonical[n]] > 0
              \/ Skipped(Canonical[n], "skipped_missing_account") \in Range(row'.details)
  <2>1. raised.how = "no" /\ row'.details = outcomes /\ targets # <<>>
        /\ status = "published"
    BY <1>1, <1>5, <1>11
  <2>2. n \in Planned(context.names)
    BY <1>11 DEF Planned
  <2>3. PICK k \in DOMAIN targets : targets[k] = Canonical[n]
    BY <1>3, <2>1, <2>2 DEF Covered
  <2>4. k \in DOMAIN outcomes
    BY <1>2, <1>6, <2>1 DEF Whole, RunInv, Typing, TypeOK
  <2>5. Answers(outcomes[k], Canonical[n])
    BY <2>3, <2>4 DEF RunInv, Batch
  <2>6. CASE IsSuccess(outcomes[k])
    BY <1>9, <2>4, <2>5, <2>6 DEF Answers
  <2>7. CASE outcomes[k].outcome = "skipped_missing_account"
    BY <2>1, <2>4, <2>5, <2>7 DEF Answers, Range
  <2> QED BY <1>6, <2>1, <2>4, <2>6, <2>7
<1>12. ASSUME row'.publish_status \in {"published", "partial"}
       PROVE  \E p \in Platforms : posts[p] > 0
  <2>1. Successful(outcomes) # {}
    BY <1>1, <1>5, <1>6, <1>12 DEF Whole
  <2>2. PICK k \in DOMAIN outcomes : IsSuccess(outcomes[k])
    BY <2>1 DEF Successful
  <2>3. outcomes[k] \in Outcome
    BY <1>2
  <2>4. outcomes[k].platform \in Platforms
    BY <2>3 DEF Outcome
  <2> QED BY <1>9, <2>2, <2>4
<1>13. RecordedPostsExist'
  BY <1>1, <1>10, <1>11, <1>12 DEF RecordedPostsExist
<1> QED BY <1>4, <1>7, <1>8, <1>13 DEF TruthInv

LEMMA EndTruth == RunInv /\ TruthInv /\ (RecordFails \/ Ack) => TruthInv'
<1> SUFFICES ASSUME RunInv, TruthInv, RecordFails \/ Ack PROVE TruthInv'  OBVIOUS
<1>1. /\ step' # "verify" /\ UNCHANGED <<context, row, events, posts, outcomes>>
  BY DEF RecordFails, Ack
<1>2. Posted' /\ RecordedPostsExist'
  BY <1>1 DEF TruthInv, Posted, RecordedPostsExist
<1>3. CASE RecordFails
  <2>1. raised'.how # "no" /\ faults' > 0 /\ UNCHANGED job /\ job.status = "processing"
    BY <1>3 DEF RecordFails, RunInv, Stages, Typing, TypeOK
  <2> QED BY <1>1, <1>2, <2>1 DEF TruthInv, Told, JobAgreesWithRow
<1>4. CASE Ack
  <2>1. step = "ack" /\ step' = "idle" /\ UNCHANGED <<raised, faults>>
    BY <1>4 DEF Ack
  <2>2. CASE raised.how = "no"
    <3>1. job'.status = "completed"
      BY <1>4, <2>2 DEF Ack, RunInv, Typing, TypeOK
    <3> QED BY <1>1, <1>2, <2>1, <2>2, <3>1 DEF TruthInv, Told, JobAgreesWithRow
  <2>3. CASE raised.how # "no"
    <3>1. job'.status \in {"queued", "failed"}
      BY <1>4, <2>3 DEF Ack, RunInv, Typing, TypeOK
    <3> QED BY <1>1, <1>2, <2>1, <2>3, <3>1 DEF TruthInv, Told, JobAgreesWithRow
  <2> QED BY <2>2, <2>3
<1> QED BY <1>3, <1>4

LEMMA TruthNext == RunInv /\ TruthInv /\ [Next]_vars => TruthInv'
<1> SUFFICES ASSUME RunInv, TruthInv, [Next]_vars PROVE TruthInv'  OBVIOUS
<1>1. CASE UNCHANGED vars
  <2>1. UNCHANGED <<job, context, step, targets, outcomes, raised, row, events,
                    posts, faults>>
    BY <1>1 DEF vars
  <2>2. Posted' /\ Told'
    BY <2>1 DEF TruthInv, Posted, Told, Current
  <2>3. RecordedPostsExist' /\ JobAgreesWithRow'
    BY <2>1 DEF TruthInv, RecordedPostsExist, JobAgreesWithRow
  <2> QED BY <2>2, <2>3 DEF TruthInv
<1>2. CASE SkipTarget \/ TakeTarget \/ Upload \/ Finish \/ EnterPublisher
             \/ Plan \/ PlanFails \/ LoadAccounts \/ LoadUsers \/ Recover \/ Claim
             \/ Crash \/ Verify
  BY <1>2, QuietTruth, QuietKeeps, QuietPosted DEF TruthInv
<1> QED
  BY <1>1, <1>2, PostTruth, HoldTruth, ResultTruth, EndTruth DEF Next, Worker

\* A platform recorded as a success was posted to, "published" and "partial"
\* reels have posts, and the job ends as the reels row says: what
\* PublishReelUseCase writes down is true of the posts, whatever the API answers
\* and wherever the worker dies.
THEOREM RecordsCorrect == Spec => []RecordsAreTrue
<1>1. RunInv /\ TruthInv => RecordsAreTrue
  BY DEF RunInv, Typing, TruthInv, RecordsAreTrue
<1> QED  BY RunInit, RunNext, TruthInit, TruthNext, <1>1, PTL DEF Spec
-----------------------------------------------------------------------------
(* A repeated post has a cause.                                              *)

\* The platforms whose turn is over, and what a platform may have got in the
\* runs before this one.
Over == {targets[k] : k \in 1 .. Len(outcomes)}
Floor == RetryAttempts * (job.attempts - 1)

\* A post without doubt is one the run still knows of, or a job that is over.
Known(p) ==
  \/ step = "idle" /\ job.status \in {"completed", "failed"}
  \/ step # "idle" /\ p \in Successful(outcomes)
  \/ step = "verify" /\ p = Current

Caused ==
  /\ \A p \in Platforms : posts[p] > 1 => p \in doubt
  /\ \A p \in Platforms : posts[p] > 0 => p \in doubt \/ Known(p)
  /\ step \in {"record", "ack"} /\ raised.how = "transient" =>
       Successful(outcomes) \subseteq doubt

\* How often a platform can have been posted to when its turn is not over.
Spent(p) ==
  IF step = "post" /\ p = Current THEN Floor + (try - 1)
  ELSE IF step = "verify" /\ p = Current THEN Floor + try ELSE Floor

Limited ==
  /\ \A p \in Platforms : posts[p] <= RetryAttempts * job.attempts
  /\ step \in Planning \cup Posting =>
       \A p \in Platforms \ Over : posts[p] <= Spent(p)

RepeatInv == Caused /\ Limited

LEMMA FloorTyped ==
  ASSUME RunInv
  PROVE  /\ job.attempts \in Nat /\ RetryAttempts \in Nat
         /\ RetryAttempts * job.attempts \in Int /\ Floor \in Int
         /\ RetryAttempts * job.attempts = Floor + RetryAttempts
         /\ try \in 1 .. RetryAttempts
         /\ \A p \in Platforms : posts[p] \in Nat
<1>1. job.attempts \in Nat /\ RetryAttempts \in Nat /\ try \in 1 .. RetryAttempts
      /\ \A p \in Platforms : posts[p] \in Nat
  BY BoundsAssumption DEF RunInv, Typing, TypeOK
<1>2. ASSUME NEW a \in Nat, NEW r \in Nat
      PROVE  r * a \in Int /\ r * (a - 1) \in Int /\ r * a = r * (a - 1) + r
  OBVIOUS
<1> QED BY <1>1, <1>2 DEF Floor

LEMMA RepeatInit == Init => RepeatInv
<1> SUFFICES ASSUME Init PROVE RepeatInv  OBVIOUS
<1>1. \A p \in Platforms : posts[p] = 0
  BY DEF Init
<1>2. Caused
  BY <1>1 DEF Init, Caused
<1>3. RetryAttempts * job.attempts = 0
  BY BoundsAssumption DEF Init
<1>4. Limited
  BY <1>1, <1>3 DEF Init, Limited, Planning, Posting
<1> QED BY <1>2, <1>4 DEF RepeatInv

\* The current target has no outcome yet, so a post it has got in this run is
\* in doubt, or is the one being verified.
LEMMA CurrentOpen ==
  ASSUME RunInv, Len(outcomes) < Len(targets)
  PROVE  Current \in Platforms \ Over /\ Current \notin Successful(outcomes)
<1>1. /\ Current \in Platforms /\ Len(outcomes) \in Nat
      /\ Len(outcomes) + 1 \in DOMAIN targets
      /\ DOMAIN outcomes = 1 .. Len(outcomes)
  BY CurrentTyped DEF RunInv, Typing, TypeOK
<1> DEFINE l == Len(outcomes)
<1>2. l + 1 \notin 1 .. l /\ Current = targets[l + 1]
  BY <1>1 DEF Current
<1>3. \A k \in 1 .. l : k \in DOMAIN targets /\ outcomes[k].platform = targets[k]
                        /\ targets[k] # Current
  BY <1>1, <1>2 DEF RunInv, Batch, Answers, Distinct
<1>4. Current \notin Over
  BY <1>3 DEF Over
<1>5. Current \notin Successful(outcomes)
  BY <1>1, <1>3 DEF Successful
<1> QED BY <1>1, <1>4, <1>5

\* The end of a turn.
LEMMA CloseOver ==
  ASSUME RunInv, Len(outcomes) < Len(targets), UNCHANGED targets,
         NEW o \in Endings(Current), Close(o)
  PROVE  /\ Current \in Platforms \ Over
         /\ Over' = Over \cup {Current}
         /\ Current \notin Successful(outcomes)
         /\ \A p : p \in Successful(outcomes') <=>
                     p \in Successful(outcomes) \/ (IsSuccess(o) /\ p = Current)
<1>1. /\ Current \in Platforms /\ Len(outcomes) \in Nat
      /\ Len(outcomes) + 1 \in DOMAIN targets
      /\ targets \in Seq(Platforms)
  BY CurrentTyped DEF RunInv, Typing, TypeOK
<1>2. o \in Outcome /\ o.platform = Current
  BY <1>1, EndingsTyped DEF Answers
<1>3. /\ Len(outcomes') = Len(outcomes) + 1
      /\ DOMAIN outcomes' = 1 .. Len(outcomes) + 1
      /\ DOMAIN outcomes = 1 .. Len(outcomes)
      /\ outcomes'[Len(outcomes) + 1] = o
      /\ \A k \in DOMAIN outcomes : outcomes'[k] = outcomes[k]
  BY <1>2, CloseSteps DEF RunInv, Typing
<1> DEFINE l == Len(outcomes)
<1> HIDE DEF l
<1>4. \A k \in 1 .. l + 1 : k \in 1 .. l \/ k = l + 1
  BY <1>1 DEF l
<1>5. l + 1 \in 1 .. l + 1 /\ \A k \in 1 .. l : k \in 1 .. l + 1
  BY <1>1 DEF l
<1>6. Current = targets[l + 1]
  BY DEF Current, l
<1>7. Over = {targets[k] : k \in 1 .. l} /\ Over' = {targets[k] : k \in 1 .. l + 1}
  BY <1>3 DEF Over, l
<1>8. Over' = Over \cup {Current}
  BY <1>4, <1>5, <1>6, <1>7
<1>9. ASSUME NEW p
       PROVE  p \in Successful(outcomes') <=>
                p \in Successful(outcomes) \/ (IsSuccess(o) /\ p = Current)
  <2>1. p \in Successful(outcomes') <=>
          \E k \in 1 .. l + 1 : IsSuccess(outcomes'[k]) /\ outcomes'[k].platform = p
    BY <1>3 DEF Successful, l
  <2>2. p \in Successful(outcomes) <=>
          \E k \in 1 .. l : IsSuccess(outcomes[k]) /\ outcomes[k].platform = p
    BY <1>3 DEF Successful, l
  <2>3. outcomes'[l + 1] = o /\ \A k \in 1 .. l : outcomes'[k] = outcomes[k]
    BY <1>3 DEF l
  <2> QED BY <1>2, <1>4, <1>5, <2>1, <2>2, <2>3
<1> QED BY <1>8, <1>9, CurrentOpen

\* Where a turn ends, in terms of posts and doubt.
LEMMA CloseRepeat ==
  ASSUME RunInv, RepeatInv, Len(outcomes) < Len(targets), step \in Posting,
         UNCHANGED <<job, targets>>,
         NEW o \in Endings(Current), Close(o),
         doubt \subseteq doubt',
         \A p \in Platforms : p # Current => posts'[p] = posts[p],
         posts'[Current] > 0 => Current \in doubt' \/ IsSuccess(o),
         posts'[Current] > 1 => Current \in doubt',
         posts'[Current] <= RetryAttempts * job.attempts
  PROVE  RepeatInv'
<1>1. /\ Current \in Platforms \ Over /\ Over' = Over \cup {Current}
      /\ \A p : p \in Successful(outcomes') <=>
                  p \in Successful(outcomes) \/ (IsSuccess(o) /\ p = Current)
  BY CloseOver
<1>2. step' = "target" /\ step # "idle"
  BY DEF Close, Posting
<1>3. \A p \in Platforms : posts'[p] > 1 => p \in doubt'
  BY DEF RepeatInv, Caused
<1>4. ASSUME NEW p \in Platforms, posts'[p] > 0  PROVE p \in doubt' \/ Known(p)'
  <2>1. CASE p = Current
    BY <1>1, <1>2, <1>4, <2>1 DEF Known
  <2>2. CASE p # Current
    <3>1. p \in doubt \/ Known(p)
      BY <1>4, <2>2 DEF RepeatInv, Caused
    <3> QED BY <1>1, <1>2, <2>2, <3>1 DEF Known
  <2> QED BY <2>1, <2>2
<1>5. Caused'
  BY <1>2, <1>3, <1>4 DEF Caused
<1>6. \A p \in Platforms : posts'[p] <= RetryAttempts * job.attempts
  BY DEF RepeatInv, Limited
<1>7. ASSUME NEW p \in Platforms \ Over'  PROVE posts'[p] <= Spent(p)'
  <2>1. p \in Platforms \ Over /\ p # Current
    BY <1>1, <1>7
  <2>2. posts[p] <= Floor
    BY <2>1 DEF RepeatInv, Limited, Spent
  <2>3. Spent(p)' = Floor
    BY <1>2 DEF Spent, Floor
  <2> QED BY <2>1, <2>2, <2>3
<1>8. Limited'
  BY <1>6, <1>7 DEF Limited
<1> QED BY <1>5, <1>8 DEF RepeatInv

\* Steps that leave the posts and the successes alone.
LEMMA StayRepeat ==
  ASSUME RunInv, RepeatInv, UNCHANGED <<posts, job>>,
         Successful(outcomes') = Successful(outcomes),
         step \notin {"idle", "verify"}, step' # "idle", doubt \subseteq doubt',
         step' \in {"record", "ack"} /\ raised'.how = "transient" =>
           Successful(outcomes) \subseteq doubt',
         step' \in Planning \cup Posting =>
           /\ step \in Planning \cup Posting /\ Over' = Over
           /\ \A p \in Platforms \ Over : posts[p] <= Spent(p)'
  PROVE  RepeatInv'
<1>1. Caused'
  BY DEF RepeatInv, Caused, Known
<1>2. Limited'
  BY DEF RepeatInv, Limited
<1> QED BY <1>1, <1>2 DEF RepeatInv

\* No turn is over before the loop.
LEMMA PlanningStarts ==
  ASSUME outcomes = <<>>
  PROVE  Over = {} /\ Successful(outcomes) = {}
BY DEF Over, Successful

LEMMA StageRepeat ==
  ASSUME RunInv, RepeatInv,
         SkipOrHold \/ EnterPublisher \/ Plan \/ PlanFails \/ LoadAccounts \/ LoadUsers
  PROVE  RepeatInv'
<1>1. step \in Planning /\ UNCHANGED <<posts, job, doubt>>
  BY LoadSteps DEF SkipOrHold, EnterPublisher, Plan, PlanFails, Planning
<1>2. outcomes = <<>> /\ raised = NotRaised
  BY <1>1 DEF RunInv, Stages
<1>3. Over = {} /\ Successful(outcomes) = {}
  BY <1>2, PlanningStarts
<1>4. \A p \in Platforms : posts[p] <= Floor
  BY <1>1, <1>3 DEF RepeatInv, Limited, Spent, Planning
<1>5. CASE /\ UNCHANGED outcomes
           /\ step' \in {"plan", "accounts", "users", "target", "record", "ack"}
  <2>1. outcomes' = <<>> /\ Successful(outcomes') = {} /\ Over' = {}
    BY <1>2, <1>3, <1>5 DEF Over, Successful
  <2>2. \A p : Spent(p)' = Floor
    BY <1>1, <1>5 DEF Spent, Floor
  <2> QED
    BY <1>1, <1>3, <1>4, <1>5, <2>1, <2>2, StayRepeat DEF Planning, Posting
<1>6. ASSUME NEW again \in BOOLEAN, Abandons(again)  PROVE RepeatInv'
  <2>1. step' = "record"
    BY <1>6 DEF Abandons
  <2>2. Successful(outcomes') = {}
    BY <1>6 DEF Abandons, Failed, IsSuccess, Successful
  <2> QED BY <1>1, <1>3, <2>1, <2>2, StayRepeat DEF Planning, Posting
<1>7. CASE LoadAccounts \/ LoadUsers
  BY <1>5, <1>6, <1>7, LoadSteps
<1>8. CASE SkipOrHold \/ EnterPublisher \/ Plan \/ PlanFails
  BY <1>5, <1>8 DEF SkipOrHold, Record, EnterPublisher, Plan, PlanFails, Raise
<1> QED BY <1>7, <1>8

LEMMA SkipRepeat == RunInv /\ RepeatInv /\ SkipTarget => RepeatInv'
<1> SUFFICES ASSUME RunInv, RepeatInv, SkipTarget PROVE RepeatInv'  OBVIOUS
<1>1. /\ step = "target" /\ Len(outcomes) < Len(targets)
      /\ UNCHANGED <<job, targets, posts, doubt>>
  BY DEF SkipTarget
<1>2. PICK o \in {Skipped(Current, "skipped_unsupported_platform"),
                  Skipped(Current, "skipped_missing_account")} : Close(o)
  BY DEF SkipTarget
<1>3. o \in Endings(Current)
  BY DEF Endings
<1>4. Current \in Platforms \ Over /\ Current \notin Successful(outcomes)
  BY <1>1, <1>2, <1>3, CloseOver
<1>5. posts[Current] > 0 => Current \in doubt
  BY <1>1, <1>4 DEF RepeatInv, Caused, Known
<1>6. posts[Current] > 1 => Current \in doubt
  BY <1>4 DEF RepeatInv, Caused
<1>7. posts[Current] <= RetryAttempts * job.attempts
  BY <1>4 DEF RepeatInv, Limited
<1> QED
  BY <1>1, <1>2, <1>3, <1>5, <1>6, <1>7, CloseRepeat DEF Posting

LEMMA TakeRepeat == RunInv /\ RepeatInv /\ (TakeTarget \/ Upload) => RepeatInv'
<1> SUFFICES ASSUME RunInv, RepeatInv, TakeTarget \/ Upload PROVE RepeatInv'
  OBVIOUS
<1>1. /\ step \in {"target", "upload"} /\ UNCHANGED <<job, targets, outcomes, posts>>
      /\ doubt' = doubt \/ doubt' = doubt \cup Successful(outcomes)
  BY UploadSteps DEF TakeTarget
<1>2. Successful(outcomes') = Successful(outcomes) /\ Over' = Over /\ Current' = Current
      /\ Floor' = Floor
  BY <1>1 DEF Successful, Over, Current, Floor
<1>3. \A p \in Platforms \ Over : posts[p] <= Floor
  BY <1>1 DEF RepeatInv, Limited, Spent, Posting
<1>4. CASE step' \in {"upload", "post"} /\ (step' = "upload" \/ try' = 1)
  <2>1. \A p : Spent(p)' = Floor
    BY <1>2, <1>4, FloorTyped DEF Spent
  <2> QED
    BY <1>1, <1>2, <1>3, <1>4, <2>1, StayRepeat DEF Planning, Posting
<1>5. CASE step' = "record" /\ doubt' = doubt \cup Successful(outcomes)
  BY <1>1, <1>2, <1>5, StayRepeat DEF Planning, Posting
<1>6. CASE TakeTarget
  <2>1. try' = 1 /\ step' \in {"upload", "post"}
    BY <1>6 DEF TakeTarget, RunInv, Stages
  <2> QED BY <1>4, <2>1
<1>7. CASE Upload
  BY <1>4, <1>5, <1>7, UploadSteps
<1> QED BY <1>6, <1>7

\* The budget of the current target while it is posted to.
LEMMA CurrentSpent ==
  ASSUME RunInv, RepeatInv, step \in {"post", "verify"}
  PROVE  /\ \A p \in Platforms \ Over : p # Current => posts[p] <= Floor
         /\ posts[Current] <= IF step = "post" THEN Floor + (try - 1) ELSE Floor + try
         /\ step = "post" /\ posts[Current] > 0 => Current \in doubt
         /\ Len(outcomes) < Len(targets)
<1>1. Len(outcomes) < Len(targets)
  BY DEF RunInv, Typing
<1>2. Current \in Platforms \ Over /\ Current \notin Successful(outcomes)
  BY <1>1, CurrentOpen
<1>3. \A p \in Platforms \ Over : posts[p] <= Spent(p)
  BY DEF RepeatInv, Limited, Posting
<1>4. step = "post" /\ posts[Current] > 0 => Current \in doubt
  BY <1>2 DEF RepeatInv, Caused, Known
<1> QED BY <1>1, <1>2, <1>3, <1>4 DEF Spent

\* Posting again: the next attempt, with what the last one left.
LEMMA AgainRepeat ==
  ASSUME RunInv, RepeatInv, step \in {"post", "verify"},
         UNCHANGED <<job, targets, outcomes>>,
         \/ step' = "post" /\ try' = try + 1 /\ try < RetryAttempts
         \/ step' = "verify" /\ try' = try,
         doubt \subseteq doubt',
         \A p \in Platforms : p # Current => posts'[p] = posts[p],
         posts'[Current] > 1 => Current \in doubt',
         step' = "post" /\ posts'[Current] > 0 => Current \in doubt',
         posts'[Current] \in Nat, posts'[Current] <= Floor + try
  PROVE  RepeatInv'
<1>1. Successful(outcomes') = Successful(outcomes) /\ Over' = Over /\ Current' = Current
      /\ Floor' = Floor
  BY DEF Successful, Over, Current, Floor
<1>2. \A p \in Platforms \ Over : p # Current => posts[p] <= Floor
  BY CurrentSpent
<1>3. Current \in Platforms \ Over
  BY CurrentOpen, CurrentSpent
<1>4. Floor + try <= RetryAttempts * job.attempts
  BY FloorTyped
<1>5. \A p \in Platforms : posts'[p] > 1 => p \in doubt'
  BY DEF RepeatInv, Caused
<1>6. ASSUME NEW p \in Platforms, posts'[p] > 0  PROVE p \in doubt' \/ Known(p)'
  <2>1. CASE p = Current
    BY <1>1, <1>6, <2>1 DEF Known
  <2>2. CASE p # Current
    <3>1. p \in doubt \/ p \in Successful(outcomes)
      BY <1>6, <2>2 DEF RepeatInv, Caused, Known
    <3> QED BY <1>1, <3>1 DEF Known
  <2> QED BY <2>1, <2>2
<1>7. Caused'
  BY <1>5, <1>6 DEF Caused
<1>8. ASSUME NEW p \in Platforms  PROVE posts'[p] <= RetryAttempts * job'.attempts
  <2>1. CASE p = Current
    BY <1>4, <2>1, FloorTyped
  <2>2. CASE p # Current
    BY <2>2 DEF RepeatInv, Limited
  <2> QED BY <2>1, <2>2
<1>9. ASSUME NEW p \in Platforms \ Over  PROVE posts'[p] <= Spent(p)'
  <2>1. CASE p = Current
    <3>1. Spent(p)' = IF step' = "post" THEN Floor + (try' - 1) ELSE Floor + try'
      BY <1>1, <2>1 DEF Spent
    <3>2. Spent(p)' = Floor + try
      BY <3>1, FloorTyped
    <3> QED BY <2>1, <3>2
  <2>2. CASE p # Current
    <3>1. Spent(p)' = Floor
      BY <1>1, <2>2 DEF Spent
    <3> QED BY <1>2, <1>9, <2>2, <3>1
  <2> QED BY <2>1, <2>2
<1>10. Limited'
  BY <1>1, <1>8, <1>9 DEF Limited
<1> QED BY <1>7, <1>10 DEF RepeatInv

LEMMA PostRepeat == RunInv /\ RepeatInv /\ Post => RepeatInv'
<1> SUFFICES ASSUME RunInv, RepeatInv, Post PROVE RepeatInv'  OBVIOUS
<1>1. /\ step = "post" /\ UNCHANGED <<job, targets>>
      /\ posts \in [Platforms -> Nat]
  BY PostSteps DEF RunInv, Typing, TypeOK
<1>2. /\ posts[Current] <= Floor + (try - 1) /\ Len(outcomes) < Len(targets)
      /\ posts[Current] > 0 => Current \in doubt
  BY <1>1, CurrentSpent
<1>3. Current \in Platforms
  BY <1>2, CurrentOpen
<1>4. /\ doubt \subseteq doubt' /\ posts'[Current] \in Nat
      /\ posts'[Current] > 1 => Current \in doubt'
      /\ posts'[Current] <= Floor + try
      /\ \A p \in Platforms : p # Current => posts'[p] = posts[p]
  <2>1. doubt \subseteq doubt'
    BY PostSteps
  <2>2. CASE posts' = [posts EXCEPT ![Current] = @ + 1]
    <3>1. posts'[Current] = posts[Current] + 1 /\ posts[Current] \in Nat
          /\ \A p \in Platforms : p # Current => posts'[p] = posts[p]
      BY <1>1, <1>3, <2>2
    <3>2. posts[Current] + 1 <= Floor + try
      BY <1>2, <3>1, FloorTyped
    <3> QED BY <1>2, <2>1, <3>1, <3>2
  <2>3. CASE posts' = posts
    <3>1. posts[Current] \in Nat /\ posts[Current] <= Floor + try
      BY <1>1, <1>2, <1>3, FloorTyped
    <3> QED BY <1>2, <2>1, <2>3, <3>1
  <2> QED BY <2>1, <2>2, <2>3, PostSteps
<1>5. posts'[Current] <= RetryAttempts * job.attempts
  BY <1>4, FloorTyped
<1>6. ASSUME NEW o \in Endings(Current), Close(o),
             posts'[Current] > 0 => Current \in doubt' \/ IsSuccess(o)
      PROVE  RepeatInv'
  BY <1>1, <1>2, <1>4, <1>5, <1>6, CloseRepeat DEF Posting
<1>7. CASE \/ step' = "verify" /\ UNCHANGED <<try, outcomes>>
           \/ Close(Succeeded(Current))
  <2>1. Succeeded(Current) \in Endings(Current) /\ IsSuccess(Succeeded(Current))
    BY DEF Endings, Succeeded, IsSuccess
  <2>2. CASE Close(Succeeded(Current))
    BY <1>6, <2>1, <2>2
  <2>3. CASE step' = "verify" /\ UNCHANGED <<try, outcomes>>
    BY <1>1, <1>4, <2>3, AgainRepeat
  <2> QED BY <1>7, <2>2, <2>3
<1>8. CASE /\ \/ /\ posts' = [posts EXCEPT ![Current] = @ + 1]
                 /\ doubt' = doubt \cup {Current}
              \/ UNCHANGED <<posts, doubt>>
           /\ \/ Retries
              \/ \E o \in Unlucky(Current) : Close(o)
  <2>1. posts'[Current] > 0 => Current \in doubt'
    BY <1>2, <1>8
  <2>2. \A o \in Unlucky(Current) : o \in Endings(Current)
    BY DEF Endings
  <2>3. CASE Retries
    BY <1>1, <1>4, <2>1, <2>3, AgainRepeat DEF Retries
  <2>4. CASE \E o \in Unlucky(Current) : Close(o)
    BY <1>6, <2>1, <2>2, <2>4
  <2> QED BY <1>8, <2>3, <2>4
<1> QED BY <1>7, <1>8, PostSteps

LEMMA VerifyRepeat == RunInv /\ RepeatInv /\ Verify => RepeatInv'
<1> SUFFICES ASSUME RunInv, RepeatInv, Verify PROVE RepeatInv'  OBVIOUS
<1>1. /\ step = "verify" /\ UNCHANGED <<job, targets, posts>>
      /\ posts \in [Platforms -> Nat] /\ doubt \subseteq doubt'
  BY VerifySteps DEF RunInv, Typing, TypeOK
<1>2. posts[Current] <= Floor + try /\ Len(outcomes) < Len(targets)
  BY <1>1, CurrentSpent
<1>3. Current \in Platforms /\ posts[Current] \in Nat
  BY <1>1, <1>2, CurrentOpen
<1>4. posts[Current] <= RetryAttempts * job.attempts
  BY <1>2, <1>3, FloorTyped
<1>5. posts[Current] > 1 => Current \in doubt'
  BY <1>1, <1>3 DEF RepeatInv, Caused
<1>6. ASSUME NEW o \in Endings(Current), Close(o), Current \in doubt' \/ IsSuccess(o)
      PROVE  RepeatInv'
  BY <1>1, <1>2, <1>4, <1>5, <1>6, CloseRepeat DEF Posting
<1>7. CASE Close(Succeeded(Current))
  <2>1. Succeeded(Current) \in Endings(Current) /\ IsSuccess(Succeeded(Current))
    BY DEF Endings, Succeeded, IsSuccess
  <2> QED BY <1>6, <1>7, <2>1
<1>8. CASE UNCHANGED <<step, try, outcomes>>
  BY <1>1, <1>2, <1>3, <1>5, <1>8, AgainRepeat
<1>9. CASE /\ doubt' = doubt \cup {Current}
           /\ Retries \/ \E o \in Unlucky(Current) : Close(o)
  <2>1. CASE Retries
    BY <1>1, <1>2, <1>3, <1>9, <2>1, AgainRepeat DEF Retries
  <2>2. CASE \E o \in Unlucky(Current) : Close(o)
    BY <1>6, <1>9, <2>2 DEF Endings
  <2> QED BY <1>9, <2>1, <2>2
<1> QED BY <1>7, <1>8, <1>9, VerifySteps

LEMMA EndRepeat ==
  RunInv /\ RepeatInv /\ (Finish \/ RecordResult \/ RecordFails) => RepeatInv'
<1> SUFFICES ASSUME RunInv, RepeatInv, Finish \/ RecordResult \/ RecordFails
             PROVE  RepeatInv'
  OBVIOUS
<1>1. /\ step \in {"target", "record"} /\ step' \in {"record", "ack"}
      /\ UNCHANGED <<job, targets, outcomes, posts>> /\ doubt \subseteq doubt'
  BY DEF Finish, Raise, RecordResult, Record, RecordFails
<1>2. Successful(outcomes') = Successful(outcomes)
  BY <1>1 DEF Successful
<1>3. ASSUME raised'.how = "transient"  PROVE Successful(outcomes) \subseteq doubt'
  <2>1. CASE Finish
    <3>1. Successful(outcomes) = {} \/ raised' = raised
      BY <2>1 DEF Finish
    <3>2. raised = NotRaised
      BY <2>1 DEF Finish, RunInv, Stages, Posting
    <3> QED BY <1>3, <3>1, <3>2 DEF NotRaised
  <2>2. CASE RecordResult
    BY <1>3, <2>2 DEF RecordResult, RepeatInv, Caused
  <2>3. CASE RecordFails
    BY <2>3 DEF RecordFails
  <2> QED BY <2>1, <2>2, <2>3
<1> QED BY <1>1, <1>2, <1>3, StayRepeat DEF Planning, Posting

LEMMA ClaimRepeat == RunInv /\ RepeatInv /\ Claim => RepeatInv'
<1> SUFFICES ASSUME RunInv, RepeatInv, Claim PROVE RepeatInv'  OBVIOUS
<1>1. /\ step = "idle" /\ job.status = "queued" /\ step' = "gate"
      /\ job'.attempts = job.attempts + 1
      /\ raised'.how = "no" /\ UNCHANGED <<posts, doubt>>
  BY DEF Claim, NotRaised
<1>2. Caused'
  BY <1>1 DEF RepeatInv, Caused, Known
<1>3. \A p \in Platforms : posts[p] <= RetryAttempts * job.attempts
  BY DEF RepeatInv, Limited
<1>4. Floor' = RetryAttempts * job.attempts
  <2>1. job'.attempts - 1 = job.attempts
    BY <1>1, FloorTyped
  <2> QED BY <2>1 DEF Floor
<1>5. RetryAttempts * job'.attempts = Floor' + RetryAttempts
      /\ Floor' \in Int /\ RetryAttempts \in Nat
  <2>1. ASSUME NEW a \in Nat, NEW r \in Nat
        PROVE  r * a \in Int /\ r * (a + 1) = r * a + r
    OBVIOUS
  <2> QED BY <1>1, <1>4, <2>1, FloorTyped
<1>6. \A p \in Platforms : Spent(p)' = Floor'
  BY <1>1 DEF Spent
<1>7. \A p \in Platforms : posts[p] \in Nat
  BY FloorTyped
<1>8. Limited'
  <2>1. \A p \in Platforms : posts[p] <= Floor'
    BY <1>3, <1>4
  <2> HIDE DEF Floor
  <2>2. \A p \in Platforms : posts[p] <= Floor' + RetryAttempts
    BY <2>1, <1>5, <1>7
  <2> QED BY <1>1, <1>5, <1>6, <2>1, <2>2 DEF Limited
<1> QED BY <1>2, <1>8 DEF RepeatInv

LEMMA IdleRepeat == RunInv /\ RepeatInv /\ (Ack \/ Recover \/ Crash) => RepeatInv'
<1> SUFFICES ASSUME RunInv, RepeatInv, Ack \/ Recover \/ Crash PROVE RepeatInv'
  OBVIOUS
<1>1. /\ step' = "idle" /\ UNCHANGED posts /\ job'.attempts = job.attempts
      /\ doubt \subseteq doubt'
  BY DEF Ack, Recover, Crash, RunInv, Typing, TypeOK
<1>2. Limited'
  BY <1>1 DEF RepeatInv, Limited, Planning, Posting
<1>3. ASSUME NEW p \in Platforms, posts[p] > 0
      PROVE  p \in doubt' \/ job'.status \in {"completed", "failed"}
  <2>1. p \in doubt \/ Known(p)
    BY <1>3 DEF RepeatInv, Caused
  <2>2. CASE Crash
    BY <1>3, <2>2 DEF Crash
  <2>3. CASE Recover
    BY <2>1, <2>3 DEF Recover, Known
  <2>4. CASE Ack
    <3>1. step = "ack" /\ job'.status \in {"queued", "completed", "failed"}
          /\ (job'.status = "queued" => raised.how = "transient")
      BY <2>4 DEF Ack, RunInv, Typing, TypeOK
    <3> QED BY <1>1, <2>1, <3>1 DEF Known, RepeatInv, Caused
  <2> QED BY <2>2, <2>3, <2>4
<1>4. Caused'
  BY <1>1, <1>3 DEF RepeatInv, Caused, Known
<1> QED BY <1>2, <1>4 DEF RepeatInv

LEMMA RepeatNext == RunInv /\ RepeatInv /\ [Next]_vars => RepeatInv'
<1>1. ASSUME RepeatInv, UNCHANGED vars  PROVE RepeatInv'
  <2>1. Caused'
    BY <1>1 DEF vars, RepeatInv, Caused, Known, Successful, Current
  <2>2. Limited'
    BY <1>1 DEF vars, RepeatInv, Limited, Spent, Over, Floor, Current
  <2> QED BY <2>1, <2>2 DEF RepeatInv
<1> QED
  BY <1>1, StageRepeat, SkipRepeat, TakeRepeat, PostRepeat, VerifyRepeat, EndRepeat,
     ClaimRepeat, IdleRepeat
  DEF Next, Worker

\* Retries inside a run, runs of a retried job, crashes and recoveries repeat a
\* post only where its record was in doubt, and never more than RetryAttempts
\* times a run: what _run_with_retry and the worker's retries may cost a platform.
THEOREM RepeatsExplained == Spec => []RepeatsHaveACause
<1>1. RepeatInv => RepeatsHaveACause
  BY DEF RepeatInv, Caused, Limited, RepeatsHaveACause
<1> QED  BY RunInit, RunNext, RepeatInit, RepeatNext, <1>1, PTL DEF Spec
=============================================================================
