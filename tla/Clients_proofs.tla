---------------------------- MODULE Clients_proofs ----------------------------
(***************************************************************************)
(* What the runs of MC_Clients check on small instances, for every value   *)
(* of the constants: the Concertmaster's steer budget, calls over          *)
(* connections, and the LAN toggle.  The components share no variable, so  *)
(* each has its own invariant, and the suite's is their conjunction.       *)
(***************************************************************************)
EXTENDS MC_Clients, FiniteSetTheorems, SequenceTheorems, TLAPS

--------------------------------------------------------------------------------
(* The steer budget.                                                           *)

CallStates == {"idle", "sending", "done", "refused"}
Sending    == {c \in Calls : call[c] = "sending"}
Done       == {c \in Calls : call[c] = "done"}

\* The slots whose steer was sent, which stand before those of the calls under way.
Spent == Len(slots) - Cardinality(Sending)

Steers(t, v) == [at : 0 .. t, server : 1 .. v]

BudgetTyped ==
    /\ knows \in BOOLEAN /\ steerable \in BOOLEAN
    /\ now \in 0 .. MaxTicks /\ servers \in 1 .. MaxServers
    /\ call \in [Calls -> CallStates]
    /\ slots \in Seq(0 .. now) /\ Len(slots) <= SteersPerHour
    /\ sends \in Seq(Steers(now, servers))

\* What the slots y say at time t, the first p of them of steers that server v sent: the
\* others were taken just now, by the calls under way; those p are the latest
\* steers in ss, all of server v; and what it sent before them is an hour old.
Tells(y, p, ss, t, v) ==
    /\ p \in 0 .. Len(y) /\ p <= Len(ss)
    /\ \A k \in 1 .. Len(y) : k > p => y[k] = t
    /\ \A k \in 1 .. p : /\ y[k] = ss[Len(ss) - p + k].at
                         /\ ss[Len(ss) - p + k].server = v
    /\ \A j \in 1 .. Len(ss) - p : ss[j].server = v => t - ss[j].at >= Hour
    /\ \A k, m \in 1 .. Len(y) : k <= m => y[k] <= y[m]

BudgetInv ==
    /\ BudgetTyped /\ Tells(slots, Spent, sends, now, servers) /\ SteersBounded
    /\ Len(sends) <= Cardinality(Done)
    /\ ~knows => sends = << >>

LEMMA SeqWidens ==
    ASSUME NEW S, NEW T, S \subseteq T, NEW q \in Seq(S)
    PROVE  q \in Seq(T)
OBVIOUS

LEMMA CountsAre ==
    ASSUME BudgetTyped
    PROVE  /\ IsFiniteSet(Sending) /\ Cardinality(Sending) \in Nat
           /\ IsFiniteSet(Done) /\ Cardinality(Done) \in Nat
           /\ IsFiniteSet(Calls) /\ Cardinality(Calls) \in Nat
           /\ Cardinality(Done) <= Cardinality(Calls)
           /\ SteersPerHour \in Nat /\ SteersPerHour >= 1 /\ Hour \in Nat /\ Hour >= 1
           /\ MaxTicks \in Nat /\ MaxServers \in Nat /\ MaxServers >= 1
<1>1. Sending \subseteq Calls /\ Done \subseteq Calls
  BY DEF Sending, Done
<1> QED
  BY <1>1, SteerBudgetAssumption, FS_Subset, FS_CardinalityType DEF SteerBudgetAssumption

\* retain(..) keeps the young slots, which are the last ones.
LEMMA OldAreFirst ==
    ASSUME BudgetTyped, Tells(slots, Spent, sends, now, servers)
    PROVE  /\ Cardinality(Old) \in 0 .. Spent
           /\ \A k \in 1 .. Len(slots) : k <= Cardinality(Old) <=> now - slots[k] >= Hour
<1> DEFINE d == Cardinality(Old)
<1> USE DEF BudgetTyped
<1>1. /\ Len(slots) \in Nat /\ now \in Nat /\ Hour \in Nat /\ Hour >= 1 /\ Cardinality(Sending) \in Nat
      /\ DOMAIN slots = 1 .. Len(slots) /\ \A k \in 1 .. Len(slots) : slots[k] \in 0 .. now
  BY CountsAre, SteerBudgetAssumption DEF SteerBudgetAssumption
<1>2. \A k, m \in 1 .. Len(slots) : k <= m => slots[k] <= slots[m]
  BY DEF Tells
<1>3. Old = {k \in 1 .. Len(slots) : now - slots[k] >= Hour}
  BY <1>1 DEF Old
<1>4. \A n \in Nat : IsFiniteSet(1 .. n) /\ Cardinality(1 .. n) = n
  <2> TAKE n \in Nat
  <2>1. n \in Int /\ 1 \in Int /\ n - 1 + 1 = n /\ (1 > n => n = 0)
    OBVIOUS
  <2> QED
    BY <2>1, FS_Interval
<1>5. IsFiniteSet(Old) /\ d \in Nat
  <2>1. Old \subseteq 1 .. Len(slots)
    BY <1>3
  <2> QED
    BY <2>1, <1>1, <1>4, FS_Subset, FS_CardinalityType
<1>6. ASSUME NEW k \in 1 .. Len(slots), k \in Old
      PROVE  k <= d
  <2>1. 1 .. k \subseteq Old
    <3> SUFFICES ASSUME NEW m \in 1 .. k PROVE m \in Old
      OBVIOUS
    <3>1. m \in 1 .. Len(slots) /\ m <= k
      BY <1>1
    <3>2. slots[m] <= slots[k] /\ slots[m] \in 0 .. now /\ slots[k] \in 0 .. now
      BY <3>1, <1>1, <1>2
    <3>3. now - slots[k] >= Hour
      BY <1>3, <1>6
    <3> QED
      BY <3>1, <3>2, <3>3, <1>1, <1>3
  <2>2. Cardinality(1 .. k) = k
    BY <1>1, <1>4
  <2> QED
    BY <2>1, <2>2, <1>5, FS_Subset
<1>7. ASSUME NEW k \in 1 .. Len(slots), k \notin Old
      PROVE  k > d
  <2>1. Old \subseteq 1 .. (k - 1)
    <3> SUFFICES ASSUME NEW m \in Old PROVE m \in 1 .. (k - 1)
      OBVIOUS
    <3>1. m \in 1 .. Len(slots) /\ now - slots[m] >= Hour
      BY <1>3
    <3>2. ~(now - slots[k] >= Hour)
      BY <1>3, <1>7
    <3>3. ~(k <= m)
      <4> SUFFICES ASSUME k <= m PROVE FALSE
        OBVIOUS
      <4>1. slots[k] <= slots[m]
        BY <3>1, <1>2
      <4> QED
        BY <4>1, <3>1, <3>2, <1>1
    <3> QED
      BY <3>1, <3>3, <1>1
  <2>2. k - 1 \in Nat
    BY <1>1
  <2>3. IsFiniteSet(1 .. (k - 1)) /\ Cardinality(1 .. (k - 1)) = k - 1
    BY <2>2, <1>4
  <2>4. d <= k - 1
    BY <2>1, <2>3, FS_Subset
  <2> QED
    BY <2>4, <1>1, <1>5
<1>8. \A k \in 1 .. Len(slots) : k <= d <=> now - slots[k] >= Hour
  <2> TAKE k \in 1 .. Len(slots)
  <2>1. CASE k \in Old
    BY <2>1, <1>3, <1>6
  <2>2. CASE k \notin Old
    <3>1. k > d
      BY <2>2, <1>7
    <3>2. ~(k <= d)
      BY <3>1, <1>5, <1>1
    <3> QED
      BY <3>2, <2>2, <1>3
  <2> QED
    BY <2>1, <2>2
<1>9. d <= Spent
  <2>1. Spent \in Nat /\ Spent <= Len(slots)
    BY <1>1 DEF Tells
  <2>2. Old \subseteq 1 .. Spent
    <3> SUFFICES ASSUME NEW k \in Old PROVE k \in 1 .. Spent
      OBVIOUS
    <3>1. k \in 1 .. Len(slots) /\ now - slots[k] >= Hour
      BY <1>3
    <3>2. k > Spent => slots[k] = now
      BY <3>1 DEF Tells
    <3> QED
      BY <3>1, <3>2, <2>1, <1>1
  <2>3. IsFiniteSet(1 .. Spent) /\ Cardinality(1 .. Spent) = Spent
    BY <2>1, <1>4
  <2> QED
    BY <2>2, <2>3, FS_Subset
<1>10. Spent \in Nat
  BY <1>1 DEF Tells
<1> QED
  BY <1>5, <1>8, <1>9, <1>10

\* Forgetting the d first of the spent slots, when they are an hour old.
LEMMA TellsRetained ==
    ASSUME NEW t \in Nat, NEW v \in Nat, NEW y \in Seq(0 .. t), NEW ss \in Seq(Steers(t, v)),
           NEW p, Tells(y, p, ss, t, v),
           NEW d \in 0 .. p, \A k \in 1 .. d : t - y[k] >= Hour
    PROVE  LET z == SubSeq(y, d + 1, Len(y))
           IN  z \in Seq(0 .. t) /\ Len(z) = Len(y) - d /\ Tells(z, p - d, ss, t, v)
<1> DEFINE z == SubSeq(y, d + 1, Len(y))
<1>1. p \in 0 .. Len(y) /\ p <= Len(ss) /\ Len(y) \in Nat /\ Len(ss) \in Nat
  BY DEF Tells
<1>2. z \in Seq(0 .. t) /\ Len(z) = Len(y) - d /\ \A k \in 1 .. Len(z) : z[k] = y[k + d]
  BY <1>1
<1>3. p - d \in 0 .. Len(z) /\ p - d <= Len(ss)
  BY <1>1, <1>2
<1>4. ASSUME NEW k \in 1 .. Len(z), k > p - d PROVE z[k] = t
  BY <1>1, <1>2, <1>4 DEF Tells
<1>5. ASSUME NEW k \in 1 .. p - d
      PROVE  /\ z[k] = ss[Len(ss) - (p - d) + k].at
             /\ ss[Len(ss) - (p - d) + k].server = v
  <2>1. k + d \in 1 .. p /\ k \in 1 .. Len(z)
    BY <1>1, <1>2
  <2>2. y[k + d] = ss[Len(ss) - p + (k + d)].at /\ ss[Len(ss) - p + (k + d)].server = v
    BY <2>1 DEF Tells
  <2>3. Len(ss) - p + (k + d) = Len(ss) - (p - d) + k
    BY <1>1
  <2> QED
    BY <2>1, <2>2, <2>3, <1>2
<1>6. ASSUME NEW j \in 1 .. Len(ss) - (p - d), ss[j].server = v
      PROVE  t - ss[j].at >= Hour
  <2>1. CASE j <= Len(ss) - p
    BY <2>1, <1>1, <1>6 DEF Tells
  <2>2. CASE ~(j <= Len(ss) - p)
    <3> DEFINE k == j - (Len(ss) - p)
    <3>1. k \in 1 .. d /\ k \in 1 .. p /\ Len(ss) - p + k = j
      BY <2>2, <1>1
    <3>2. y[k] = ss[j].at
      <4>1. y[k] = ss[Len(ss) - p + k].at
        BY <3>1 DEF Tells
      <4> QED
        BY <4>1, <3>1
    <3> QED
      BY <3>1, <3>2
  <2> QED
    BY <2>1, <2>2
<1>7. ASSUME NEW k \in 1 .. Len(z), NEW m \in 1 .. Len(z), k <= m PROVE z[k] <= z[m]
  <2>1. k + d \in 1 .. Len(y) /\ m + d \in 1 .. Len(y) /\ k + d <= m + d
    BY <1>1, <1>2, <1>7
  <2> QED
    BY <2>1, <1>2 DEF Tells
<1>8. Tells(z, p - d, ss, t, v)
  BY <1>3, <1>4, <1>5, <1>6, <1>7 DEF Tells
<1> QED
  BY <1>2, <1>8

\* A slot taken now.
LEMMA TellsTaken ==
    ASSUME NEW t \in Nat, NEW v \in Nat, NEW y \in Seq(0 .. t), NEW ss \in Seq(Steers(t, v)),
           NEW p, Tells(y, p, ss, t, v)
    PROVE  /\ Append(y, t) \in Seq(0 .. t) /\ Len(Append(y, t)) = Len(y) + 1
           /\ Tells(Append(y, t), p, ss, t, v)
<1> DEFINE z == Append(y, t)
<1>1. p \in 0 .. Len(y) /\ p <= Len(ss) /\ Len(y) \in Nat /\ Len(ss) \in Nat
  BY DEF Tells
<1>2. /\ z \in Seq(0 .. t) /\ Len(z) = Len(y) + 1 /\ z[Len(z)] = t
      /\ \A k \in 1 .. Len(y) : z[k] = y[k] /\ y[k] \in 0 .. t
  BY <1>1
<1>3. p \in 0 .. Len(z) /\ p <= Len(ss)
  BY <1>1, <1>2
<1>4. ASSUME NEW k \in 1 .. Len(z), k > p PROVE z[k] = t
  <2>1. k \in 1 .. Len(y) \/ k = Len(z)
    BY <1>1, <1>2
  <2> QED
    BY <2>1, <1>2, <1>4 DEF Tells
<1>5. \A k \in 1 .. p : z[k] = y[k]
  BY <1>1, <1>2
<1>6. ASSUME NEW k \in 1 .. Len(z), NEW m \in 1 .. Len(z), k <= m PROVE z[k] <= z[m]
  <2>1. CASE m = Len(z)
    <3>1. z[k] \in 0 .. t
      BY <1>1, <1>2, ElementOfSeq
    <3> QED
      BY <3>1, <2>1, <1>2
  <2>2. CASE m # Len(z)
    <3>1. k \in 1 .. Len(y) /\ m \in 1 .. Len(y)
      BY <2>2, <1>1, <1>2, <1>6
    <3> QED
      BY <3>1, <1>2, <1>6 DEF Tells
  <2> QED
    BY <2>1, <2>2
<1>7. Tells(z, p, ss, t, v)
  BY <1>3, <1>4, <1>5, <1>6 DEF Tells
<1> QED
  BY <1>2, <1>7

\* A call under way whose slot is handed back: the latest goes.
LEMMA TellsRefunded ==
    ASSUME NEW t \in Nat, NEW v \in Nat, NEW y \in Seq(0 .. t), NEW ss \in Seq(Steers(t, v)),
           NEW p, Tells(y, p, ss, t, v), p < Len(y)
    PROVE  LET z == SubSeq(y, 1, Len(y) - 1)
           IN  z \in Seq(0 .. t) /\ Len(z) = Len(y) - 1 /\ Tells(z, p, ss, t, v)
<1> DEFINE z == SubSeq(y, 1, Len(y) - 1)
<1>1. p \in 0 .. Len(y) /\ p <= Len(ss) /\ Len(y) \in Nat /\ Len(ss) \in Nat
  BY DEF Tells
<1>2. z \in Seq(0 .. t) /\ Len(z) = Len(y) - 1 /\ \A k \in 1 .. Len(z) : z[k] = y[k]
  <2>1. Len(y) - 1 \in Nat /\ 1 \in Int /\ Len(y) - 1 \in Int
    BY <1>1
  <2>2. \A i \in 1 .. Len(y) - 1 : y[i] \in 0 .. t
    BY <1>1
  <2>3. /\ z \in Seq(0 .. t) /\ Len(z) = (IF 1 <= Len(y) - 1 THEN Len(y) - 1 - 1 + 1 ELSE 0)
        /\ \A i \in 1 .. Len(y) - 1 - 1 + 1 : z[i] = y[1 + i - 1]
    BY <2>1, <2>2, SubSeqProperties
  <2> HIDE DEF z
  <2>4. Len(z) = Len(y) - 1
    <3>1. \A n \in Nat : n - 1 \in Nat =>
            (IF 1 <= n - 1 THEN n - 1 - 1 + 1 ELSE 0) = n - 1
      OBVIOUS
    <3> QED
      BY <1>1, <2>1, <2>3, <3>1, Zenon
  <2>5. ASSUME NEW i \in 1 .. Len(y) - 1 PROVE z[i] = y[i]
    <3>1. i \in 1 .. Len(y) - 1 - 1 + 1 /\ 1 + i - 1 = i
      BY <2>1
    <3> QED
      BY <3>1, <2>3
  <2> QED
    BY <2>3, <2>4, <2>5
<1>3. p \in 0 .. Len(z)
  BY <1>1, <1>2
<1>4. \A k \in 1 .. Len(z) : k \in 1 .. Len(y)
  BY <1>1, <1>2
<1>5. \A k \in 1 .. p : k \in 1 .. Len(z)
  BY <1>3, <1>1, <1>2
<1>6. \A k \in 1 .. Len(z) : k > p => z[k] = t
  BY <1>2, <1>4 DEF Tells
<1>7. \A k, m \in 1 .. Len(z) : k <= m => z[k] <= z[m]
  BY <1>2, <1>4 DEF Tells
<1>8. \A k \in 1 .. p : z[k] = y[k]
  BY <1>2, <1>5
<1>9. Tells(z, p, ss, t, v)
  BY <1>3, <1>6, <1>7, <1>8 DEF Tells
<1> QED
  BY <1>2, <1>9

\* A call under way whose steer is sent.
LEMMA TellsSent ==
    ASSUME NEW t \in Nat, NEW v \in Nat, NEW y \in Seq(0 .. t), NEW ss \in Seq(Steers(t, v)),
           NEW p, Tells(y, p, ss, t, v), p < Len(y)
    PROVE  Tells(y, p + 1, Append(ss, [at |-> t, server |-> v]), t, v)
<1> DEFINE e == [at |-> t, server |-> v]
           zz == Append(ss, e)
<1>1. p \in 0 .. Len(y) /\ p <= Len(ss) /\ Len(y) \in Nat /\ Len(ss) \in Nat
  BY DEF Tells
<1>2. /\ Len(zz) = Len(ss) + 1 /\ zz[Len(ss) + 1] = e
      /\ \A j \in 1 .. Len(ss) : zz[j] = ss[j]
  BY <1>1
<1>3. e.at = t /\ e.server = v
  OBVIOUS
<1> HIDE DEF e, zz
<1>4. p + 1 \in 0 .. Len(y) /\ p + 1 <= Len(zz)
  BY <1>1, <1>2
<1>5. ASSUME NEW k \in 1 .. p + 1
      PROVE  y[k] = zz[Len(zz) - (p + 1) + k].at /\ zz[Len(zz) - (p + 1) + k].server = v
  <2>1. Len(zz) - (p + 1) + k = Len(ss) - p + k
    BY <1>1, <1>2
  <2>2. CASE k = p + 1
    <3>1. Len(ss) - p + k = Len(ss) + 1 /\ k \in 1 .. Len(y) /\ k > p
      BY <2>2, <1>1
    <3>2. y[k] = t
      BY <3>1 DEF Tells
    <3> QED
      BY <3>1, <3>2, <2>1, <1>2, <1>3
  <2>3. CASE k # p + 1
    <3>1. k \in 1 .. p /\ Len(ss) - p + k \in 1 .. Len(ss)
      BY <2>3, <1>1
    <3>2. y[k] = ss[Len(ss) - p + k].at /\ ss[Len(ss) - p + k].server = v
      BY <3>1 DEF Tells
    <3> QED
      BY <3>1, <3>2, <2>1, <1>2
  <2> QED
    BY <2>2, <2>3
<1>6. ASSUME NEW j \in 1 .. Len(zz) - (p + 1), zz[j].server = v
      PROVE  t - zz[j].at >= Hour
  <2>1. j \in 1 .. Len(ss) - p /\ j \in 1 .. Len(ss)
    BY <1>1, <1>2
  <2> QED
    BY <2>1, <1>2, <1>6 DEF Tells
<1>7. \A k \in 1 .. Len(y) : k > p + 1 => y[k] = t
  BY <1>1 DEF Tells
<1>8. \A k, m \in 1 .. Len(y) : k <= m => y[k] <= y[m]
  BY DEF Tells
<1>9. Tells(y, p + 1, zz, t, v)
  BY <1>4, <1>5, <1>6, <1>7, <1>8 DEF Tells
<1> QED
  BY <1>9 DEF e, zz

\* The steers of the hour that starts with the i-th.
Window(ss, i) == {j \in i .. Len(ss) : /\ ss[j].server = ss[i].server
                                       /\ ss[j].at - ss[i].at < Hour}

Bounded(ss) == \A i \in 1 .. Len(ss) : Cardinality(Window(ss, i)) <= SteersPerHour

\* A steer sent with a slot of its own overfills no hour: those of the hours it
\* falls into all have their slots, and there are no more slots than steers an hour.
LEMMA BoundedSent ==
    ASSUME NEW t \in Nat, NEW v \in Nat, NEW y \in Seq(0 .. t), NEW ss \in Seq(Steers(t, v)),
           NEW p, Tells(y, p, ss, t, v), p < Len(y), Len(y) <= SteersPerHour, Bounded(ss)
    PROVE  Bounded(Append(ss, [at |-> t, server |-> v]))
<1> DEFINE e == [at |-> t, server |-> v]
           zz == Append(ss, e)
           n == Len(ss)
<1>1. /\ p \in 0 .. Len(y) /\ p <= n /\ Len(y) \in Nat /\ n \in Nat
      /\ SteersPerHour \in Nat /\ 1 <= SteersPerHour
  BY SteerBudgetAssumption DEF Tells, SteerBudgetAssumption
<1>2. Len(zz) = n + 1 /\ zz[n + 1] = e /\ \A j \in 1 .. n : zz[j] = ss[j]
  BY <1>1
<1>3. e.at = t /\ e.server = v
  OBVIOUS
<1> HIDE DEF e, zz, n
<1>4. \A a, b \in Int : /\ IsFiniteSet(a .. b)
                        /\ a <= b => Cardinality(a .. b) = b - a + 1
  <2> TAKE a, b \in Int
  <2>1. a <= b => ~(a > b)
    OBVIOUS
  <2> QED
    BY <2>1, FS_Interval
<1>5. SUFFICES ASSUME NEW i \in 1 .. n + 1
               PROVE  Cardinality(Window(zz, i)) <= SteersPerHour
  BY <1>2 DEF Bounded, e, zz
<1>6. Window(zz, i) \subseteq i .. n + 1 /\ n + 1 \in Int /\ i \in Int
  BY <1>1, <1>2 DEF Window
<1>7. Cardinality(Window(zz, i)) <= n + 1 - i + 1
  <2>1. IsFiniteSet(i .. n + 1) /\ Cardinality(i .. n + 1) = n + 1 - i + 1
    <3>1. i <= n + 1
      BY <1>1
    <3>2. PICK m \in Int : m = n + 1
      BY <1>6
    <3>3. IsFiniteSet(i .. m) /\ Cardinality(i .. m) = m - i + 1
      BY <3>1, <3>2, <1>4, <1>6
    <3>4. i .. m = i .. n + 1
      BY <3>2
    <3>5. m - i + 1 = n + 1 - i + 1
      BY <3>2, <1>1, <1>6
    <3> QED
      BY <3>3, <3>4, <3>5
  <2> QED
    BY <2>1, <1>6, FS_Subset
<1>8. CASE i = n + 1
  <2>1. n + 1 - i + 1 = 1
    BY <1>8, <1>1
  <2>2. Cardinality(Window(zz, i)) <= 1
    BY <2>1, <1>7
  <2>3. Cardinality(Window(zz, i)) \in Nat
    BY <1>4, <1>6, FS_Subset, FS_CardinalityType
  <2> QED
    BY <2>2, <2>3, <1>1
<1>9. CASE i # n + 1
  <2>1. i \in 1 .. n
    BY <1>9, <1>1
  <2>2. CASE ss[i].server = v /\ t - ss[i].at < Hour
    <3>1. ~(i <= n - p)
      <4>1. i \in 1 .. n - p => t - ss[i].at >= Hour
        BY <2>2 DEF Tells, n
      <4>2. ss[i] \in Steers(t, v)
        BY <2>1 DEF n
      <4>3. ss[i].at \in 0 .. t /\ Hour \in Nat
        BY <4>2, SteerBudgetAssumption DEF Steers, SteerBudgetAssumption
      <4> QED
        BY <4>1, <4>3, <2>1, <2>2, <1>1
    <3>2. n + 1 - i + 1 <= SteersPerHour
      BY <3>1, <2>1, <1>1
    <3>3. Cardinality(Window(zz, i)) \in Nat
      BY <1>4, <1>6, FS_Subset, FS_CardinalityType
    <3> QED
      BY <3>2, <3>3, <2>1, <1>1, <1>7
  <2>3. CASE ~(ss[i].server = v /\ t - ss[i].at < Hour)
    <3>1. Window(zz, i) = Window(ss, i)
      <4>1. ASSUME NEW j \in i .. n + 1
            PROVE  j \in Window(zz, i) <=> j \in Window(ss, i)
        <5>1. CASE j = n + 1
          <6>1. j \notin Window(zz, i)
            BY <5>1, <2>1, <2>3, <1>2, <1>3 DEF Window
          <6>2. j \notin Window(ss, i)
            BY <5>1, <1>1 DEF Window, n
          <6> QED
            BY <6>1, <6>2
        <5>2. CASE j # n + 1
          <6>1. j \in i .. n /\ j \in 1 .. n
            BY <5>2, <2>1, <1>1
          <6> QED
            BY <6>1, <4>1, <2>1, <1>2 DEF Window, n
        <5> QED
          BY <5>1, <5>2
      <4>2. Window(zz, i) \subseteq i .. n + 1 /\ Window(ss, i) \subseteq i .. n + 1
        BY <1>1, <1>6, <2>1 DEF Window, n
      <4> QED
        BY <4>1, <4>2
    <3> QED
      BY <3>1, <2>1 DEF Bounded, n
  <2> QED
    BY <2>2, <2>3
<1> QED
  BY <1>8, <1>9

LEMMA BoundedIs ==
    ASSUME BudgetTyped
    PROVE  SteersBounded <=> Bounded(sends)
<1>1. DOMAIN sends = 1 .. Len(sends)
  BY DEF BudgetTyped
<1>2. SteersBounded <=>
        \A i \in 1 .. Len(sends) : Cardinality(Window(sends, i)) <= SteersPerHour
  BY <1>1, Zenon DEF SteersBounded, Window
<1> QED
  BY <1>2 DEF Bounded

LEMMA BudgetStarts == BudgetInit => BudgetInv
<1> SUFFICES ASSUME BudgetInit PROVE BudgetInv
  OBVIOUS
<1>1. BudgetTyped
  <2>1. sends = << >> /\ slots = << >> /\ now = 0 /\ servers = 1 /\ 0 <= SteersPerHour
    BY SteerBudgetAssumption DEF BudgetInit, SteerBudgetAssumption
  <2>2. now \in 0 .. MaxTicks /\ servers \in 1 .. MaxServers
    BY <2>1, SteerBudgetAssumption DEF SteerBudgetAssumption
  <2> QED
    BY <2>1, <2>2 DEF BudgetInit, BudgetTyped, CallStates
<1>2. Sending = {} /\ Done = {}
  BY DEF BudgetInit, Sending, Done
<1>3. Cardinality({}) = 0
  BY FS_EmptySet
<1>4. Spent = 0 /\ Len(slots) = 0 /\ Len(sends) = 0
  BY <1>2, <1>3 DEF BudgetInit, Spent
<1>5. Tells(slots, Spent, sends, now, servers)
  BY <1>4 DEF Tells
<1>6. SteersBounded
  BY <1>4 DEF BudgetInit, SteersBounded
<1> QED
  BY <1>1, <1>2, <1>3, <1>4, <1>5, <1>6 DEF BudgetInv, BudgetInit

\* A call that a step takes from "idle" to where it goes.
LEMMA CallMoves ==
    ASSUME BudgetTyped, NEW c \in Calls, NEW x \in CallStates,
           call' = [call EXCEPT ![c] = x]
    PROVE  /\ call' \in [Calls -> CallStates]
           /\ call[c] = "idle" /\ x = "sending" =>
                /\ Cardinality(Sending)' = Cardinality(Sending) + 1
                /\ Cardinality(Done)' = Cardinality(Done)
           /\ call[c] = "idle" /\ x = "refused" =>
                /\ Cardinality(Sending)' = Cardinality(Sending)
                /\ Cardinality(Done)' = Cardinality(Done)
           /\ call[c] = "sending" /\ x = "done" =>
                /\ Cardinality(Sending)' = Cardinality(Sending) - 1
                /\ Cardinality(Done)' = Cardinality(Done) + 1
<1>1. IsFiniteSet(Sending) /\ IsFiniteSet(Done)
  BY CountsAre
<1>2. call' \in [Calls -> CallStates] /\ \A d \in Calls : call'[d] = IF d = c THEN x ELSE call[d]
  BY DEF BudgetTyped
<1>3. /\ Sending' = {d \in Calls : call'[d] = "sending"}
      /\ Done' = {d \in Calls : call'[d] = "done"}
  BY DEF Sending, Done
<1>4. ASSUME call[c] = "idle", x = "sending"
      PROVE  Sending' = Sending \cup {c} /\ c \notin Sending /\ Done' = Done
  BY <1>2, <1>3, <1>4 DEF Sending, Done
<1>5. ASSUME call[c] = "idle", x = "refused"
      PROVE  Sending' = Sending /\ Done' = Done
  BY <1>2, <1>3, <1>5 DEF Sending, Done
<1>6. ASSUME call[c] = "sending", x = "done"
      PROVE  Sending' = Sending \ {c} /\ c \in Sending /\ Done' = Done \cup {c} /\ c \notin Done
  BY <1>2, <1>3, <1>6 DEF Sending, Done
<1>7. call[c] = "idle" /\ x = "sending" => Cardinality(Sending \cup {c}) = Cardinality(Sending) + 1
  BY <1>1, <1>4, FS_AddElement
<1>8. call[c] = "sending" /\ x = "done" =>
        /\ Cardinality(Sending \ {c}) = Cardinality(Sending) - 1
        /\ Cardinality(Done \cup {c}) = Cardinality(Done) + 1
  BY <1>1, <1>6, FS_AddElement, FS_RemoveElement
<1> QED
  BY <1>2, <1>4, <1>5, <1>6, <1>7, <1>8

LEMMA BudgetAcquires ==
    ASSUME BudgetInv, NEW c \in Calls, Acquire(c)
    PROVE  BudgetInv'
<1> DEFINE d == Cardinality(Old)
           ok == steerable /\ Len(Young) < SteersPerHour
           x  == IF ok THEN "sending" ELSE "refused"
<1>1. /\ BudgetTyped /\ Tells(slots, Spent, sends, now, servers) /\ SteersBounded
      /\ Len(sends) <= Cardinality(Done) /\ (~knows => sends = << >>)
  BY DEF BudgetInv
<1>2. /\ call[c] = "idle" /\ call' = [call EXCEPT ![c] = x]
      /\ slots' = IF ok THEN Append(Young, now) ELSE IF steerable THEN Young ELSE slots
      /\ UNCHANGED << knows, steerable, now, servers, sends >>
  BY DEF Acquire
<1>3. /\ now \in Nat /\ servers \in Nat /\ slots \in Seq(0 .. now)
      /\ sends \in Seq(Steers(now, servers))
  BY <1>1, SteerBudgetAssumption DEF BudgetTyped, SteerBudgetAssumption
<1>4. d \in 0 .. Spent /\ \A k \in 1 .. d : now - slots[k] >= Hour
  <2>1. d \in 0 .. Spent /\ \A k \in 1 .. Len(slots) : k <= d <=> now - slots[k] >= Hour
    BY <1>1, OldAreFirst
  <2>2. Spent \in 0 .. Len(slots) /\ Len(slots) \in Nat
    BY <1>1, <1>3 DEF Tells
  <2> QED
    BY <2>1, <2>2
<1>5. /\ Young \in Seq(0 .. now) /\ Len(Young) = Len(slots) - d
      /\ Tells(Young, Spent - d, sends, now, servers)
  BY <1>1, <1>3, <1>4, TellsRetained DEF Young
<1>6. /\ Append(Young, now) \in Seq(0 .. now) /\ Len(Append(Young, now)) = Len(Young) + 1
      /\ Tells(Append(Young, now), Spent - d, sends, now, servers)
  BY <1>3, <1>5, TellsTaken
<1>7. /\ Cardinality(Sending) \in Nat /\ SteersPerHour \in Nat /\ Len(slots) \in Nat
      /\ Spent = Len(slots) - Cardinality(Sending) /\ Len(slots) <= SteersPerHour
      /\ Spent \in 0 .. Len(slots)
  BY <1>1, <1>3, CountsAre DEF Spent, BudgetTyped, Tells
<1>8. /\ call' \in [Calls -> CallStates]
      /\ ok => Cardinality(Sending)' = Cardinality(Sending) + 1
      /\ ~ok => Cardinality(Sending)' = Cardinality(Sending)
      /\ Cardinality(Done)' = Cardinality(Done)
  <2>1. x \in CallStates
    BY DEF CallStates
  <2> QED
    BY <1>1, <1>2, <2>1, CallMoves
<1>9. /\ slots' \in Seq(0 .. now) /\ Len(slots') <= SteersPerHour
      /\ Tells(slots', Spent', sends, now, servers)
  <2>1. Spent' = Len(slots') - Cardinality(Sending)'
    BY DEF Spent
  <2>2. CASE ok
    <3>1. slots' = Append(Young, now) /\ Len(slots') = Len(Young) + 1
      BY <2>2, <1>2, <1>6
    <3>2. Cardinality(Sending)' = Cardinality(Sending) + 1
      BY <2>2, <1>8
    <3>3. Len(slots') = Len(slots) - d + 1 /\ Len(slots') <= SteersPerHour
      <4>1. Len(Young) < SteersPerHour /\ Len(Young) \in Nat
        BY <2>2, <1>5
      <4> QED
        BY <4>1, <3>1, <1>5, <1>7
    <3> HIDE DEF ok, x, d
    <3>4. Spent' = Spent - d
      BY <3>2, <3>3, <2>1, <1>4, <1>7
    <3> QED
      BY <3>1, <3>3, <3>4, <1>6 DEF d
  <2>3. CASE ~ok /\ steerable
    <3>1. slots' = Young
      BY <2>3, <1>2
    <3>2. Cardinality(Sending)' = Cardinality(Sending)
      BY <2>3, <1>8
    <3>3. Len(slots') = Len(slots) - d
      BY <3>1, <1>5
    <3> HIDE DEF ok, x, d
    <3>4. Spent' = Spent - d /\ Len(slots') <= SteersPerHour
      BY <3>2, <3>3, <2>1, <1>4, <1>7
    <3> QED
      BY <3>1, <3>4, <1>5 DEF d
  <2>4. CASE ~ok /\ ~steerable
    <3>1. slots' = slots
      BY <2>4, <1>2
    <3>2. Spent' = Spent
      BY <3>1, <2>1, <2>4, <1>7, <1>8
    <3> QED
      BY <3>1, <3>2, <1>1, <1>3, <1>7
  <2> QED
    BY <2>2, <2>3, <2>4
<1>10. BudgetTyped'
  BY <1>1, <1>2, <1>8, <1>9 DEF BudgetTyped
<1>11. SteersBounded'
  BY <1>1, <1>2 DEF SteersBounded
<1> QED
  BY <1>1, <1>2, <1>8, <1>9, <1>10, <1>11 DEF BudgetInv

LEMMA BudgetAnswers ==
    ASSUME BudgetInv, NEW c \in Calls, Answered(c)
    PROVE  BudgetInv'
<1> DEFINE e == [at |-> now, server |-> servers]
<1>1. /\ BudgetTyped /\ Tells(slots, Spent, sends, now, servers) /\ SteersBounded
      /\ Len(sends) <= Cardinality(Done) /\ (~knows => sends = << >>)
  BY DEF BudgetInv
<1>2. /\ call[c] = "sending" /\ call' = [call EXCEPT ![c] = "done"]
      /\ knows => sends' = Append(sends, e) /\ slots' = slots
      /\ ~knows => slots' = SubSeq(slots, 1, Len(slots) - 1) /\ sends' = sends
      /\ UNCHANGED << knows, steerable, now, servers >>
  BY DEF Answered
<1>3. /\ now \in Nat /\ servers \in Nat /\ slots \in Seq(0 .. now)
      /\ sends \in Seq(Steers(now, servers)) /\ Len(slots) \in Nat /\ Len(sends) \in Nat
      /\ now \in 0 .. now /\ servers \in 1 .. servers
  BY <1>1, SteerBudgetAssumption DEF BudgetTyped, SteerBudgetAssumption
<1>4. /\ Cardinality(Sending) \in Nat /\ Cardinality(Sending)' = Cardinality(Sending) - 1
      /\ Cardinality(Done) \in Nat /\ Cardinality(Done)' = Cardinality(Done) + 1
      /\ call' \in [Calls -> CallStates]
  BY <1>1, <1>2, CountsAre, CallMoves DEF CallStates
<1>5. 1 <= Cardinality(Sending)
  <2>1. IsFiniteSet(Sending) /\ c \in Sending
    BY <1>1, <1>2, CountsAre DEF Sending
  <2>2. Cardinality(Sending) # 0
    BY <2>1, FS_EmptySet
  <2> QED
    BY <2>2, <1>4
<1>6. /\ Spent = Len(slots) - Cardinality(Sending) /\ Spent < Len(slots) /\ Spent \in Nat
      /\ Len(slots) <= SteersPerHour /\ SteersPerHour \in Nat
      /\ Spent' = Len(slots') - Cardinality(Sending)'
  BY <1>1, <1>3, <1>4, <1>5, CountsAre DEF Spent, Tells, BudgetTyped
<1>7. CASE knows
  <2>1. Spent' = Spent + 1
    BY <1>2, <1>3, <1>4, <1>6, <1>7
  <2>2. Tells(slots', Spent', sends', now, servers)
    BY <2>1, <1>1, <1>2, <1>3, <1>6, <1>7, TellsSent
  <2>3. e \in Steers(now, servers)
    BY <1>3 DEF Steers
  <2>4. sends' \in Seq(Steers(now, servers)) /\ Len(sends') = Len(sends) + 1
    <3>1. sends' = Append(sends, e)
      BY <1>2, <1>7
    <3> HIDE DEF e
    <3> QED
      BY <3>1, <2>3, <1>3
  <2>5. BudgetTyped'
    BY <2>4, <1>1, <1>2, <1>4, <1>7 DEF BudgetTyped
  <2>6. Bounded(sends')
    BY <1>1, <1>2, <1>3, <1>6, <1>7, BoundedSent, BoundedIs
  <2>7. SteersBounded' <=> Bounded(sends)'
    <3>1. BudgetTyped => (SteersBounded <=> Bounded(sends))
      BY BoundedIs
    <3>2. (BudgetTyped => (SteersBounded <=> Bounded(sends)))'
      BY BoundedIs, PTL
    <3> QED
      BY <3>2, <2>5
  <2>8. Bounded(sends)' <=> Bounded(sends')
    BY DEF Bounded, Window
  <2>9. Len(sends') <= Cardinality(Done)'
    BY <2>4, <1>1, <1>3, <1>4
  <2> QED
    BY <2>2, <2>5, <2>6, <2>7, <2>8, <2>9, <1>2, <1>7 DEF BudgetInv
<1>8. CASE ~knows
  <2>1. /\ slots' \in Seq(0 .. now) /\ Len(slots') = Len(slots) - 1
        /\ Tells(slots', Spent, sends, now, servers)
    <3> DEFINE z == SubSeq(slots, 1, Len(slots) - 1)
    <3>1. z \in Seq(0 .. now) /\ Len(z) = Len(slots) - 1 /\ Tells(z, Spent, sends, now, servers)
      BY <1>1, <1>3, <1>6, TellsRefunded
    <3>2. slots' = z
      BY <1>2, <1>8
    <3> QED
      BY <3>1, <3>2
  <2>2. Spent' = Spent
    BY <2>1, <1>3, <1>4, <1>6
  <2>3. BudgetTyped'
    <3>1. Len(slots') <= SteersPerHour
      BY <2>1, <1>3, <1>6
    <3> QED
      BY <3>1, <2>1, <1>1, <1>2, <1>4, <1>8 DEF BudgetTyped
  <2>4. SteersBounded' /\ Len(sends') <= Cardinality(Done)'
    <3>1. SteersBounded'
      BY <1>1, <1>2, <1>8 DEF SteersBounded
    <3> QED
      BY <3>1, <1>1, <1>2, <1>3, <1>4, <1>8
  <2> QED
    BY <2>1, <2>2, <2>3, <2>4, <1>1, <1>2, <1>8 DEF BudgetInv
<1> QED
  BY <1>7, <1>8

LEMMA BudgetTicks ==
    ASSUME BudgetInv, Tick
    PROVE  BudgetInv'
<1>1. /\ BudgetTyped /\ Tells(slots, Spent, sends, now, servers) /\ SteersBounded
      /\ Len(sends) <= Cardinality(Done) /\ (~knows => sends = << >>)
  BY DEF BudgetInv
<1>2. /\ now < MaxTicks /\ now' = now + 1 /\ \A c \in Calls : call[c] # "sending"
      /\ UNCHANGED << knows, steerable, slots, servers, call, sends >>
  BY DEF Tick
<1>3. /\ now \in Nat /\ MaxTicks \in Nat /\ slots \in Seq(0 .. now) /\ Len(slots) \in Nat
      /\ sends \in Seq(Steers(now, servers)) /\ Hour \in Nat
  BY <1>1, SteerBudgetAssumption DEF BudgetTyped, SteerBudgetAssumption
<1>4. Sending = {} /\ Cardinality(Sending) = 0
  BY <1>2, FS_EmptySet DEF Sending
<1>5. Spent = Len(slots) /\ Spent' = Spent
  BY <1>2, <1>3, <1>4 DEF Spent, Sending
<1>6. BudgetTyped'
  <2>1. slots \in Seq(0 .. now')
    <3>1. 0 .. now \subseteq 0 .. now'
      BY <1>2, <1>3
    <3> QED
      BY <3>1, <1>3, SeqWidens
  <2>2. sends \in Seq(Steers(now', servers))
    <3>1. Steers(now, servers) \subseteq Steers(now', servers)
      BY <1>2, <1>3 DEF Steers
    <3> QED
      BY <3>1, <1>3, SeqWidens
  <2>3. now' \in 0 .. MaxTicks
    BY <1>2, <1>3
  <2> QED
    BY <2>1, <2>2, <2>3, <1>1, <1>2 DEF BudgetTyped
<1>7. Tells(slots, Spent, sends, now', servers)
  <2>1. \A j \in 1 .. Len(sends) - Spent : sends[j].server = servers => now' - sends[j].at >= Hour
    <3> SUFFICES ASSUME NEW j \in 1 .. Len(sends) - Spent, sends[j].server = servers
                 PROVE  now' - sends[j].at >= Hour
      OBVIOUS
    <3>1. now - sends[j].at >= Hour
      BY <1>1 DEF Tells
    <3>2. sends[j].at \in 0 .. now
      <4>1. j \in 1 .. Len(sends)
        BY <1>3, <1>5
      <4>2. sends[j] \in Steers(now, servers)
        BY <4>1, <1>3
      <4> QED
        BY <4>2 DEF Steers
    <3> QED
      BY <3>1, <3>2, <1>2, <1>3
  <2>2. \A k \in 1 .. Len(slots) : ~(k > Spent)
    BY <1>3, <1>5
  <2> QED
    BY <2>1, <2>2, <1>1 DEF Tells
<1>8. Tells(slots, Spent, sends, now, servers)'
  BY <1>2, <1>5, <1>7
<1>9. SteersBounded' /\ Len(sends') <= Cardinality(Done)' /\ (~knows' => sends' = << >>)
  BY <1>1, <1>2 DEF SteersBounded, Done
<1> QED
  BY <1>6, <1>8, <1>9 DEF BudgetInv

LEMMA BudgetRestarts ==
    ASSUME BudgetInv, RestartServer
    PROVE  BudgetInv'
<1>1. /\ BudgetTyped /\ Tells(slots, Spent, sends, now, servers) /\ SteersBounded
      /\ Len(sends) <= Cardinality(Done) /\ (~knows => sends = << >>)
  BY DEF BudgetInv
<1>2. /\ servers < MaxServers /\ servers' = servers + 1 /\ slots' = << >>
      /\ \A c \in Calls : call[c] # "sending"
      /\ UNCHANGED << knows, steerable, now, call, sends >>
  BY DEF RestartServer
<1>3. /\ servers \in Nat /\ servers >= 1 /\ MaxServers \in Nat /\ SteersPerHour \in Nat
      /\ sends \in Seq(Steers(now, servers)) /\ Len(sends) \in Nat
  BY <1>1, SteerBudgetAssumption DEF BudgetTyped, SteerBudgetAssumption
<1>4. Cardinality(Sending) = 0
  <2>1. Sending = {}
    BY <1>2 DEF Sending
  <2> QED
    BY <2>1, FS_EmptySet
<1>5. Len(slots') = 0 /\ Spent' = 0
  BY <1>2, <1>4 DEF Spent, Sending
<1>6. BudgetTyped'
  <2>1. sends \in Seq(Steers(now, servers'))
    <3>1. Steers(now, servers) \subseteq Steers(now, servers')
      BY <1>2, <1>3 DEF Steers
    <3> QED
      BY <3>1, <1>3, SeqWidens
  <2>2. servers' \in 1 .. MaxServers
    BY <1>2, <1>3
  <2> QED
    BY <2>1, <2>2, <1>1, <1>2, <1>3, <1>5 DEF BudgetTyped
<1>7. \A j \in 1 .. Len(sends) : sends[j].server # servers'
  <2> TAKE j \in 1 .. Len(sends)
  <2>1. sends[j] \in Steers(now, servers)
    BY <1>3
  <2>2. sends[j].server \in 1 .. servers
    BY <2>1 DEF Steers
  <2> QED
    BY <2>2, <1>2, <1>3
<1>8. Tells(slots', 0, sends, now, servers')
  BY <1>3, <1>5, <1>7 DEF Tells
<1>9. Tells(slots, Spent, sends, now, servers)'
  BY <1>2, <1>5, <1>8
<1>10. SteersBounded' /\ Len(sends') <= Cardinality(Done)' /\ (~knows' => sends' = << >>)
  BY <1>1, <1>2 DEF SteersBounded, Done
<1> QED
  BY <1>6, <1>9, <1>10 DEF BudgetInv

LEMMA BudgetRests ==
    ASSUME BudgetInv, knows' = knows, UNCHANGED << slots, now, servers, call, sends >>,
           steerable' \in BOOLEAN
    PROVE  BudgetInv'
BY DEF BudgetInv, BudgetTyped, SteersBounded, Spent, Sending, Done, Tells

LEMMA BudgetSteps ==
    ASSUME BudgetInv, BudgetNext \/ UNCHANGED budgetVars
    PROVE  BudgetInv'
<1>1. CASE \E c \in Calls : Acquire(c)
  BY <1>1, BudgetAcquires
<1>2. CASE \E c \in Calls : Answered(c)
  BY <1>2, BudgetAnswers
<1>3. CASE Tick
  BY <1>3, BudgetTicks
<1>4. CASE SessionEnds
  BY <1>4, BudgetRests DEF SessionEnds
<1>5. CASE RestartServer
  BY <1>5, BudgetRestarts
<1>6. CASE UNCHANGED budgetVars
  <2>1. steerable' \in BOOLEAN
    BY <1>6 DEF budgetVars, BudgetInv, BudgetTyped
  <2> QED
    BY <2>1, <1>6, BudgetRests DEF budgetVars
<1> QED
  BY <1>1, <1>2, <1>3, <1>4, <1>5, <1>6 DEF BudgetNext

\* The budget's type invariant and its bound follow.
LEMMA BudgetHolds ==
    ASSUME BudgetInv
    PROVE  SteerBudgetTypeOK /\ SteersBounded
<1>1. /\ BudgetTyped /\ SteersBounded /\ Len(sends) <= Cardinality(Done)
  BY DEF BudgetInv
<1>2. \A i \in DOMAIN slots : slots[i] \in 0 .. now
  BY <1>1 DEF BudgetTyped
<1>3. Len(sends) <= Cardinality(Calls)
  <2>1. Len(sends) \in Nat
    BY <1>1 DEF BudgetTyped
  <2> QED
    BY <2>1, <1>1, CountsAre
<1> QED
  BY <1>1, <1>2, <1>3 DEF BudgetTyped, SteerBudgetTypeOK, CallStates

--------------------------------------------------------------------------------
(* Calls over connections.                                                     *)

EndStates  == {"hello", "open", "closed"}
Results    == {"welcome", "ok", "refused"}
CallEnds   == {"waiting", "ok", "refused", "lost"}
Verbs      == UNION {Asked[c] : c \in Peers}
AnswerType == [of : Nat, result : Results]
CallType   == [on : Nat, verb : Verbs, is : CallEnds]
SocketType == [client : Peers, near : EndStates, far : EndStates,
               inbox : Seq(Nat), busy : Nat, outbox : Seq(AnswerType)]

TalkTyped ==
    /\ running \in BOOLEAN /\ known \subseteq keyed /\ keyed \subseteq Peers
    /\ ends \in 0 .. MaxEnds
    /\ sock \in Seq(SocketType) /\ Len(sock) <= MaxSockets
    /\ calls \in Seq(CallType) /\ Len(calls) <= MaxCalls
    /\ handled \in Seq(Nat)

\* Call i of the calls cs was made on connection s.
MadeOn(i, s, cs) == i \in 1 .. Len(cs) /\ cs[i].on = s

\* The calls in the connection's hand and inbox were made on it, in that order, and
\* the one in hand has an arm in the table of its scope.  Nothing was sent before the
\* welcome.
SocketOK(c, s, cs) ==
    /\ c.busy # 0 => /\ c.far = "open" /\ MadeOn(c.busy, s, cs)
                     /\ cs[c.busy].verb \in Routes(ScopeOf[c.client])
                     /\ \A k \in 1 .. Len(c.inbox) : c.busy < c.inbox[k]
    /\ \A k \in 1 .. Len(c.inbox) : MadeOn(c.inbox[k], s, cs)
    /\ \A k, m \in 1 .. Len(c.inbox) : k < m => c.inbox[k] < c.inbox[m]
    /\ c.far = "hello" => c.near # "open" /\ c.outbox = << >>

\* The connection c still has in front of it only calls after i.
Behind(c, i) ==
    /\ c.busy # 0 => i < c.busy
    /\ \A k \in 1 .. Len(c.inbox) : i < c.inbox[k]

Served(i, hs) == \E k \in 1 .. Len(hs) : hs[k] = i

\* What call i is told is true: it was performed, or it was not and will not be.
Told(i, result, ss, cs, hs) ==
    /\ result = "ok" => Served(i, hs)
    /\ result = "refused" => ~Served(i, hs) /\ Behind(ss[cs[i].on], i)

AnswerOK(a, ss, cs, hs) ==
    IF a.of = 0 THEN a.result = "welcome"
    ELSE a.of \in 1 .. Len(cs) /\ a.result # "welcome" /\ Told(a.of, a.result, ss, cs, hs)

\* Every call performed was routed, its connection is past it, and the calls of one
\* connection were performed in the order they were made.
HandledOK(ss, cs, hs) ==
    /\ \A k \in 1 .. Len(hs) :
         /\ hs[k] \in 1 .. Len(cs)
         /\ Behind(ss[cs[hs[k]].on], hs[k])
         /\ cs[hs[k]].verb \in Routes(ScopeOf[ss[cs[hs[k]].on].client])
    /\ \A k, m \in 1 .. Len(hs) : k < m /\ cs[hs[k]].on = cs[hs[m]].on => hs[k] < hs[m]

SocketsOK == \A s \in 1 .. Len(sock) : SocketOK(sock[s], s, calls)
AnswersOK == \A s \in 1 .. Len(sock) : \A k \in 1 .. Len(sock[s].outbox) :
                AnswerOK(sock[s].outbox[k], sock, calls, handled)
CallsOK   == \A i \in 1 .. Len(calls) :
                calls[i].on \in 1 .. Len(sock) /\ Told(i, calls[i].is, sock, calls, handled)

TalkInv == TalkTyped /\ SocketsOK /\ AnswersOK /\ CallsOK /\ HandledOK(sock, calls, handled)

LEMMA SocketUpdated ==
    ASSUME NEW q \in Seq(SocketType), NEW s \in 1 .. Len(q), NEW c \in SocketType
    PROVE  LET z == [q EXCEPT ![s] = c]
           IN  /\ z \in Seq(SocketType) /\ Len(z) = Len(q) /\ z[s] = c
               /\ \A t \in 1 .. Len(q) : t # s => z[t] = q[t]
OBVIOUS

\* A step that changes connection s alone, to c.  Calls may be added on it or told
\* something true, the others keep what they are; what was performed stays so, and
\* what c has in front of it is after all that was performed or refused.
LEMMA OneSocketStep ==
    ASSUME TalkInv,
           NEW s \in 1 .. Len(sock), NEW c \in SocketType,
           sock' = [sock EXCEPT ![s] = c], c.client = sock[s].client,
           running' \in BOOLEAN, known' \subseteq keyed', keyed' \subseteq Peers,
           ends' \in 0 .. MaxEnds,
           calls' \in Seq(CallType), Len(calls') <= MaxCalls, Len(calls) <= Len(calls'),
           \A i \in 1 .. Len(calls) : /\ calls'[i].on = calls[i].on
                                      /\ calls'[i].verb = calls[i].verb,
           \A i \in 1 .. Len(calls') : ~(i \in 1 .. Len(calls)) =>
                calls'[i].on = s /\ calls'[i].is = "waiting",
           \A i \in 1 .. Len(calls) :
                \/ calls'[i].is \in {calls[i].is, "lost"}
                \/ Told(i, calls'[i].is, sock, calls, handled),
           handled' \in Seq(Nat),
           \A i \in 1 .. Len(calls) : \A r \in Results \cup CallEnds :
                Told(i, r, sock, calls, handled) => Told(i, r, sock', calls', handled'),
           HandledOK(sock', calls', handled'),
           SocketOK(c, s, calls'),
           \A k \in 1 .. Len(c.outbox) : \/ AnswerOK(c.outbox[k], sock, calls, handled)
                                         \/ AnswerOK(c.outbox[k], sock', calls', handled')
    PROVE  TalkInv'
<1>1. /\ TalkTyped /\ SocketsOK /\ AnswersOK /\ CallsOK
      /\ sock \in Seq(SocketType) /\ Len(sock) \in Nat
      /\ calls \in Seq(CallType) /\ Len(calls) \in Nat /\ Len(calls') \in Nat
  BY DEF TalkInv, TalkTyped
<1>2. /\ sock' \in Seq(SocketType) /\ Len(sock') = Len(sock) /\ sock'[s] = c
      /\ \A t \in 1 .. Len(sock) : t # s => sock'[t] = sock[t]
  BY <1>1, SocketUpdated
<1>3. TalkTyped'
  BY <1>1, <1>2 DEF TalkTyped
<1>4. \A i \in 1 .. Len(calls) : i \in 1 .. Len(calls')
  BY <1>1
<1>5. SocketsOK'
  <2> SUFFICES ASSUME NEW t \in 1 .. Len(sock), t # s
               PROVE  SocketOK(sock[t], t, calls')
    BY <1>2 DEF SocketsOK
  <2>1. SocketOK(sock[t], t, calls)
    BY <1>1 DEF SocketsOK
  <2> QED
    BY <2>1, <1>4 DEF SocketOK, MadeOn
<1>6. ASSUME NEW a \in AnswerType, AnswerOK(a, sock, calls, handled)
      PROVE  AnswerOK(a, sock', calls', handled')
  BY <1>4, <1>6 DEF AnswerOK, AnswerType
<1>7. AnswersOK'
  <2> SUFFICES ASSUME NEW t \in 1 .. Len(sock), NEW k \in 1 .. Len(sock'[t].outbox)
               PROVE  AnswerOK(sock'[t].outbox[k], sock', calls', handled')
    BY <1>2 DEF AnswersOK
  <2>1. sock'[t].outbox[k] \in AnswerType
    <3>1. sock'[t] \in SocketType
      BY <1>2
    <3> QED
      BY <3>1 DEF SocketType
  <2>2. CASE t = s
    BY <2>1, <2>2, <1>2, <1>6
  <2>3. CASE t # s
    <3>1. sock'[t] = sock[t]
      BY <2>3, <1>2
    <3>2. AnswerOK(sock[t].outbox[k], sock, calls, handled)
      BY <3>1, <1>1 DEF AnswersOK
    <3> QED
      BY <3>1, <3>2, <2>1, <1>6
  <2> QED
    BY <2>2, <2>3
<1>8. CallsOK'
  <2> SUFFICES ASSUME NEW i \in 1 .. Len(calls')
               PROVE  /\ calls'[i].on \in 1 .. Len(sock')
                      /\ Told(i, calls'[i].is, sock', calls', handled')
    BY DEF CallsOK
  <2>1. CASE i \in 1 .. Len(calls)
    <3>1. calls[i].on \in 1 .. Len(sock) /\ Told(i, calls[i].is, sock, calls, handled)
      BY <2>1, <1>1 DEF CallsOK
    <3>2. calls'[i].is \in CallEnds
      <4>1. calls'[i] \in CallType
        OBVIOUS
      <4> QED
        BY <4>1 DEF CallType
    <3>3. Told(i, calls'[i].is, sock, calls, handled)
      <4>1. CASE calls'[i].is = calls[i].is
        BY <4>1, <3>1
      <4>2. CASE calls'[i].is = "lost"
        BY <4>2 DEF Told
      <4> QED
        BY <4>1, <4>2, <2>1
    <3> QED
      BY <3>1, <3>2, <3>3, <2>1, <1>2
  <2>2. CASE ~(i \in 1 .. Len(calls))
    BY <2>2, <1>2 DEF Told
  <2> QED
    BY <2>1, <2>2
<1> QED
  BY <1>3, <1>5, <1>7, <1>8 DEF TalkInv

\* The usual case: nothing is performed, and nothing c has in front of it comes
\* before what is behind s.
LEMMA QuietSocketStep ==
    ASSUME TalkInv,
           NEW s \in 1 .. Len(sock), NEW c \in SocketType,
           sock' = [sock EXCEPT ![s] = c], c.client = sock[s].client,
           running' \in BOOLEAN, known' \subseteq keyed', keyed' \subseteq Peers,
           ends' \in 0 .. MaxEnds, handled' = handled,
           calls' \in Seq(CallType), Len(calls') <= MaxCalls, Len(calls) <= Len(calls'),
           \A i \in 1 .. Len(calls) : /\ calls'[i].on = calls[i].on
                                      /\ calls'[i].verb = calls[i].verb,
           \A i \in 1 .. Len(calls') : ~(i \in 1 .. Len(calls)) =>
                calls'[i].on = s /\ calls'[i].is = "waiting",
           \A i \in 1 .. Len(calls) :
                \/ calls'[i].is \in {calls[i].is, "lost"}
                \/ Told(i, calls'[i].is, sock, calls, handled),
           \A i \in 1 .. Len(calls) : Behind(sock[s], i) => Behind(c, i),
           SocketOK(c, s, calls'),
           \A k \in 1 .. Len(c.outbox) : \/ AnswerOK(c.outbox[k], sock, calls, handled)
                                         \/ AnswerOK(c.outbox[k], sock', calls', handled')
    PROVE  TalkInv'
<1>1. /\ TalkTyped /\ CallsOK /\ HandledOK(sock, calls, handled)
      /\ sock \in Seq(SocketType) /\ Len(sock) \in Nat /\ handled \in Seq(Nat)
      /\ calls \in Seq(CallType) /\ Len(calls) \in Nat /\ Len(calls') \in Nat
  BY DEF TalkInv, TalkTyped
<1>2. /\ sock' \in Seq(SocketType) /\ Len(sock') = Len(sock) /\ sock'[s] = c
      /\ \A t \in 1 .. Len(sock) : t # s => sock'[t] = sock[t]
  BY <1>1, SocketUpdated
<1>3. ASSUME NEW i \in 1 .. Len(calls)
      PROVE  /\ Behind(sock[calls[i].on], i) => Behind(sock'[calls'[i].on], i)
             /\ calls[i].on \in 1 .. Len(sock)
             /\ sock'[calls'[i].on].client = sock[calls[i].on].client
  <2>1. calls[i].on \in 1 .. Len(sock) /\ calls'[i].on = calls[i].on
    BY <1>1 DEF CallsOK
  <2>2. CASE calls[i].on = s
    BY <2>1, <2>2, <1>2
  <2>3. CASE calls[i].on # s
    BY <2>1, <2>3, <1>2
  <2> QED
    BY <2>1, <2>2, <2>3
<1>4. \A i \in 1 .. Len(calls) : \A r \in Results \cup CallEnds :
        Told(i, r, sock, calls, handled) => Told(i, r, sock', calls', handled')
  BY <1>3 DEF Told
<1>5. HandledOK(sock', calls', handled')
  <2>1. \A k \in 1 .. Len(handled) : handled[k] \in 1 .. Len(calls)
    BY <1>1 DEF HandledOK
  <2>2. ASSUME NEW k \in 1 .. Len(handled)
        PROVE  /\ handled[k] \in 1 .. Len(calls')
               /\ Behind(sock'[calls'[handled[k]].on], handled[k])
               /\ calls'[handled[k]].verb \in
                    Routes(ScopeOf[sock'[calls'[handled[k]].on].client])
    <3>1. handled[k] \in 1 .. Len(calls)
      BY <2>1
    <3>2. /\ Behind(sock[calls[handled[k]].on], handled[k])
          /\ calls[handled[k]].verb \in Routes(ScopeOf[sock[calls[handled[k]].on].client])
      BY <1>1 DEF HandledOK
    <3>3. calls'[handled[k]].verb = calls[handled[k]].verb
      BY <3>1
    <3>4. handled[k] \in 1 .. Len(calls')
      BY <3>1, <1>1
    <3> QED
      BY <3>1, <3>2, <3>3, <3>4, <1>3
  <2>3. ASSUME NEW k \in 1 .. Len(handled), NEW m \in 1 .. Len(handled),
               k < m, calls'[handled[k]].on = calls'[handled[m]].on
        PROVE  handled[k] < handled[m]
    <3>1. calls[handled[k]].on = calls[handled[m]].on
      BY <2>1, <2>3
    <3> QED
      BY <3>1, <2>3, <1>1 DEF HandledOK
  <2> QED
    BY <2>2, <2>3 DEF HandledOK
<1>6. handled' \in Seq(Nat)
  BY <1>1
<1> QED
  BY <1>4, <1>5, <1>6, OneSocketStep

LEMMA TalkStarts == ConnInit => TalkInv
<1> SUFFICES ASSUME ConnInit PROVE TalkInv
  OBVIOUS
<1>1. /\ sock = << >> /\ calls = << >> /\ handled = << >>
      /\ Len(sock) = 0 /\ Len(calls) = 0 /\ Len(handled) = 0
  BY DEF ConnInit
<1>2. Roots \subseteq Peers
  BY DEF Roots
<1>3. {MaxSockets, MaxCalls, MaxEnds} \subseteq Nat
  BY ConnectionAssumption DEF ConnectionAssumption
<1>4. TalkTyped
  BY <1>1, <1>2, <1>3 DEF ConnInit, TalkTyped
<1> QED
  BY <1>1, <1>4 DEF TalkInv, SocketsOK, AnswersOK, CallsOK, HandledOK

LEMMA SocketIs ==
    ASSUME TalkInv, NEW s \in 1 .. Len(sock)
    PROVE  /\ TalkTyped /\ SocketsOK /\ AnswersOK /\ CallsOK /\ HandledOK(sock, calls, handled)
           /\ sock \in Seq(SocketType) /\ Len(sock) \in Nat /\ handled \in Seq(Nat)
           /\ calls \in Seq(CallType) /\ Len(calls) \in Nat /\ DOMAIN calls = 1 .. Len(calls)
           /\ sock[s] \in SocketType /\ sock[s].client \in Peers
           /\ sock[s].near \in EndStates /\ sock[s].far \in EndStates
           /\ sock[s].inbox \in Seq(Nat) /\ Len(sock[s].inbox) \in Nat /\ sock[s].busy \in Nat
           /\ sock[s].outbox \in Seq(AnswerType) /\ Len(sock[s].outbox) \in Nat
           /\ SocketOK(sock[s], s, calls)
           /\ \A k \in 1 .. Len(sock[s].outbox) : AnswerOK(sock[s].outbox[k], sock, calls, handled)
<1>1. TalkTyped /\ SocketsOK /\ AnswersOK /\ CallsOK /\ HandledOK(sock, calls, handled)
  BY DEF TalkInv
<1>2. sock \in Seq(SocketType) /\ handled \in Seq(Nat) /\ calls \in Seq(CallType)
  BY <1>1 DEF TalkTyped
<1>3. sock[s] \in SocketType
  BY <1>2
<1>4. /\ sock[s].client \in Peers
      /\ sock[s].near \in EndStates /\ sock[s].far \in EndStates
      /\ sock[s].inbox \in Seq(Nat) /\ sock[s].busy \in Nat
      /\ sock[s].outbox \in Seq(AnswerType)
  BY <1>3 DEF SocketType
<1> QED
  BY <1>1, <1>2, <1>3, <1>4 DEF SocketsOK, AnswersOK

LEMMA TalkDials ==
    ASSUME TalkInv, NEW p \in Peers, Dial(p)
    PROVE  TalkInv'
<1> DEFINE n == Len(sock)
           c == [client |-> p, near |-> "hello", far |-> "hello",
                 inbox |-> << >>, busy |-> 0, outbox |-> << >>]
<1>1. /\ TalkTyped /\ SocketsOK /\ AnswersOK /\ CallsOK /\ HandledOK(sock, calls, handled)
      /\ sock \in Seq(SocketType) /\ n \in Nat /\ handled \in Seq(Nat) /\ calls \in Seq(CallType)
  BY DEF TalkInv, TalkTyped
<1>2. /\ n < MaxSockets /\ sock' = Append(sock, c)
      /\ UNCHANGED << running, known, keyed, calls, handled, ends >>
  BY DEF Dial
<1>3. c \in SocketType
  BY DEF SocketType, EndStates
<1>4. /\ c.busy = 0 /\ c.inbox = << >> /\ c.outbox = << >> /\ c.near = "hello"
      /\ Len(c.inbox) = 0 /\ Len(c.outbox) = 0
  OBVIOUS
<1> HIDE DEF c, n
<1>5. /\ sock' \in Seq(SocketType) /\ Len(sock') = n + 1 /\ sock'[n + 1] = c
      /\ \A s \in 1 .. n : sock'[s] = sock[s]
  BY <1>1, <1>2, <1>3 DEF n
<1>6. \A s \in 1 .. Len(sock') : s \in 1 .. n \/ s = n + 1
  BY <1>1, <1>5
<1>7. MaxSockets \in Nat
  BY ConnectionAssumption DEF ConnectionAssumption
<1>8. TalkTyped'
  BY <1>1, <1>2, <1>5, <1>7 DEF TalkTyped
<1>9. SocketsOK'
  BY <1>1, <1>2, <1>4, <1>5, <1>6 DEF SocketsOK, SocketOK, n
<1>10. \A i \in 1 .. Len(calls) : calls[i].on \in 1 .. n /\ sock'[calls[i].on] = sock[calls[i].on]
  BY <1>1, <1>5 DEF CallsOK, n
<1>11. \A i \in 1 .. Len(calls), r \in Results \cup CallEnds :
         Told(i, r, sock, calls, handled) => Told(i, r, sock', calls', handled')
  BY <1>2, <1>10 DEF Told
<1>12. AnswersOK'
  <2> SUFFICES ASSUME NEW s \in 1 .. Len(sock'), NEW k \in 1 .. Len(sock'[s].outbox)
               PROVE  AnswerOK(sock'[s].outbox[k], sock', calls', handled')
    BY DEF AnswersOK
  <2>1. s \in 1 .. n /\ sock'[s] = sock[s]
    BY <1>4, <1>5, <1>6
  <2>2. sock[s].outbox[k] \in AnswerType
    <3>1. sock[s] \in SocketType
      BY <2>1, <1>1 DEF n
    <3> QED
      BY <3>1, <2>1 DEF SocketType
  <2>3. AnswerOK(sock[s].outbox[k], sock, calls, handled)
    BY <2>1, <1>1 DEF AnswersOK, n
  <2> QED
    BY <2>1, <2>2, <2>3, <1>2, <1>11 DEF AnswerOK, AnswerType
<1>13. CallsOK'
  <2>1. \A i \in 1 .. Len(calls) : calls[i].is \in CallEnds
    <3>1. \A i \in 1 .. Len(calls) : calls[i] \in CallType
      BY <1>1
    <3> QED
      BY <3>1 DEF CallType
  <2>2. \A i \in 1 .. Len(calls) : calls[i].on \in 1 .. Len(sock')
    BY <1>1, <1>5, <1>10
  <2> QED
    BY <2>1, <2>2, <1>1, <1>2, <1>11 DEF CallsOK
<1>14. HandledOK(sock', calls', handled')
  <2>1. \A k \in 1 .. Len(handled) : handled[k] \in 1 .. Len(calls)
    BY <1>1 DEF HandledOK
  <2> QED
    BY <2>1, <1>1, <1>2, <1>10 DEF HandledOK
<1> QED
  BY <1>8, <1>9, <1>12, <1>13, <1>14 DEF TalkInv

LEMMA TalkRequests ==
    ASSUME TalkInv, NEW s \in 1 .. Len(sock), NEW v \in Asked[sock[s].client], Request(s, v)
    PROVE  TalkInv'
<1> DEFINE n == Len(calls) + 1
           x == sock[s]
           c == [x EXCEPT !.inbox = Append(x.inbox, n)]
           e == [on |-> s, verb |-> v, is |-> "waiting"]
<1>1. /\ Len(calls) < MaxCalls /\ calls' = Append(calls, e)
      /\ sock' = [sock EXCEPT ![s].inbox = Append(@, n)]
      /\ UNCHANGED << running, known, keyed, handled, ends >>
  BY DEF Request
<1>2. /\ TalkTyped /\ sock \in Seq(SocketType) /\ x \in SocketType /\ x.inbox \in Seq(Nat)
      /\ Len(x.inbox) \in Nat /\ x.client \in Peers
      /\ calls \in Seq(CallType) /\ Len(calls) \in Nat /\ SocketOK(x, s, calls) /\ x.busy \in Nat
      /\ \A k \in 1 .. Len(x.outbox) : AnswerOK(x.outbox[k], sock, calls, handled)
  BY SocketIs
<1>3. sock' = [sock EXCEPT ![s] = c]
  BY <1>1
<1>4. Append(x.inbox, n) \in Seq(Nat)
  BY <1>2
<1>5. /\ c \in SocketType /\ c.client = x.client /\ c.near = x.near /\ c.far = x.far
      /\ c.inbox = Append(x.inbox, n) /\ c.busy = x.busy /\ c.outbox = x.outbox
  BY <1>2, <1>4 DEF SocketType
<1>6. e \in CallType /\ e.on = s /\ e.is = "waiting"
  <2>1. v \in Verbs
    BY <1>2 DEF Verbs
  <2>2. s \in Nat
    BY <1>2
  <2> QED
    BY <2>1, <2>2 DEF CallType, CallEnds
<1> HIDE DEF c, e
<1>7. /\ calls' \in Seq(CallType) /\ Len(calls') = n /\ calls'[n] = e
      /\ \A i \in 1 .. Len(calls) : calls'[i] = calls[i]
  BY <1>1, <1>2, <1>6
<1>8. /\ Len(c.inbox) = Len(x.inbox) + 1 /\ c.inbox[Len(x.inbox) + 1] = n
      /\ \A k \in 1 .. Len(x.inbox) : c.inbox[k] = x.inbox[k]
      /\ \A k \in 1 .. Len(c.inbox) : k \in 1 .. Len(x.inbox) \/ k = Len(x.inbox) + 1
  BY <1>2, <1>5
<1>9. \A k \in 1 .. Len(x.inbox) : MadeOn(x.inbox[k], s, calls)
  BY <1>2 DEF SocketOK
<1>10. \A i : MadeOn(i, s, calls) => MadeOn(i, s, calls') /\ calls'[i].verb = calls[i].verb /\ i < n
  BY <1>2, <1>7 DEF MadeOn
<1>11. MadeOn(n, s, calls')
  BY <1>2, <1>6, <1>7 DEF MadeOn
<1>12. SocketOK(c, s, calls')
  <2>1. c.busy # 0 => /\ c.far = "open" /\ MadeOn(c.busy, s, calls')
                      /\ calls'[c.busy].verb \in Routes(ScopeOf[c.client])
                      /\ \A k \in 1 .. Len(c.inbox) : c.busy < c.inbox[k]
    BY <1>2, <1>5, <1>8, <1>10 DEF SocketOK
  <2>2. \A k \in 1 .. Len(c.inbox) : MadeOn(c.inbox[k], s, calls')
    BY <1>8, <1>9, <1>10, <1>11
  <2>3. ASSUME NEW k \in 1 .. Len(c.inbox), NEW m \in 1 .. Len(c.inbox), k < m
        PROVE  c.inbox[k] < c.inbox[m]
    <3>1. k \in 1 .. Len(x.inbox)
      BY <2>3, <1>2, <1>8
    <3>2. CASE m \in 1 .. Len(x.inbox)
      <4>1. x.inbox[k] < x.inbox[m]
        BY <3>1, <3>2, <2>3, <1>2 DEF SocketOK
      <4> QED
        BY <4>1, <3>1, <3>2, <1>8
    <3>3. CASE m = Len(x.inbox) + 1
      BY <3>1, <3>3, <1>8, <1>9, <1>10
    <3> QED
      BY <3>2, <3>3, <1>8
  <2>4. c.far = "hello" => c.near # "open" /\ c.outbox = << >>
    BY <1>2, <1>5 DEF SocketOK
  <2> QED
    BY <2>1, <2>2, <2>3, <2>4 DEF SocketOK
<1>13. ASSUME NEW i \in 1 .. Len(calls), Behind(x, i) PROVE Behind(c, i)
  BY <1>13, <1>2, <1>5, <1>8 DEF Behind
<1>14. Len(calls') <= MaxCalls /\ Len(calls) <= Len(calls')
  <2>1. MaxCalls \in Nat
    BY ConnectionAssumption DEF ConnectionAssumption
  <2> QED
    BY <2>1, <1>1, <1>2, <1>7
<1>15. \A i \in 1 .. Len(calls') : ~(i \in 1 .. Len(calls)) =>
         calls'[i].on = s /\ calls'[i].is = "waiting"
  <2>1. \A i \in 1 .. Len(calls') : i \in 1 .. Len(calls) \/ i = n
    BY <1>2, <1>7
  <2> QED
    BY <2>1, <1>6, <1>7
<1>16. /\ running' \in BOOLEAN /\ known' \subseteq keyed' /\ keyed' \subseteq Peers
       /\ ends' \in 0 .. MaxEnds /\ handled' = handled
  BY <1>1, <1>2 DEF TalkTyped
<1>17. \A i \in 1 .. Len(calls) : /\ calls'[i].on = calls[i].on /\ calls'[i].verb = calls[i].verb
                                  /\ calls'[i].is = calls[i].is
  BY <1>7
<1>18. \A k \in 1 .. Len(c.outbox) : AnswerOK(c.outbox[k], sock, calls, handled)
  BY <1>2, <1>5
<1> QED
  BY <1>3, <1>5, <1>7, <1>12, <1>13, <1>14, <1>15, <1>16, <1>17, <1>18, QuietSocketStep

\* What the steps that leave the calls' connections and verbs alone share.
LEMMA CallsSame ==
    ASSUME TalkInv, UNCHANGED << running, known, keyed, handled, ends >>
    PROVE  /\ running' \in BOOLEAN /\ known' \subseteq keyed' /\ keyed' \subseteq Peers
           /\ ends' \in 0 .. MaxEnds /\ handled' = handled
           /\ MaxCalls \in Nat /\ Len(calls) <= MaxCalls
BY ConnectionAssumption DEF TalkInv, TalkTyped, ConnectionAssumption

LEMMA TalkReads ==
    ASSUME TalkInv, NEW s \in 1 .. Len(sock), ReadsAnswer(s)
    PROVE  TalkInv'
<1> DEFINE x == sock[s]
           a == Head(x.outbox)
           w == IF a = Welcome THEN "open" ELSE x.near
           c == [x EXCEPT !.outbox = Tail(x.outbox), !.near = w]
<1>1. /\ x.near # "closed" /\ x.outbox # << >>
      /\ sock' = [sock EXCEPT ![s].outbox = Tail(@), ![s].near = IF a = Welcome THEN "open" ELSE @]
      /\ calls' = IF a.of = 0 THEN calls ELSE [calls EXCEPT ![a.of].is = a.result]
      /\ UNCHANGED << running, known, keyed, handled, ends >>
  BY DEF ReadsAnswer
<1>2. /\ TalkTyped /\ sock \in Seq(SocketType) /\ x \in SocketType
      /\ x.near \in EndStates /\ x.outbox \in Seq(AnswerType) /\ Len(x.outbox) \in Nat
      /\ calls \in Seq(CallType) /\ Len(calls) \in Nat /\ SocketOK(x, s, calls)
      /\ \A k \in 1 .. Len(x.outbox) : AnswerOK(x.outbox[k], sock, calls, handled)
  BY SocketIs
<1>3. sock' = [sock EXCEPT ![s] = c]
  BY <1>1
<1>4. /\ w \in EndStates /\ Tail(x.outbox) \in Seq(AnswerType)
      /\ Len(Tail(x.outbox)) = Len(x.outbox) - 1 /\ a \in AnswerType /\ a = x.outbox[1]
      /\ \A k \in 1 .. Len(x.outbox) - 1 : Tail(x.outbox)[k] = x.outbox[k + 1]
      /\ Len(x.outbox) >= 1
  BY <1>1, <1>2 DEF EndStates
<1> HIDE DEF w
<1>5. /\ c \in SocketType /\ c.client = x.client /\ c.near = w /\ c.far = x.far
      /\ c.inbox = x.inbox /\ c.busy = x.busy /\ c.outbox = Tail(x.outbox)
  BY <1>2, <1>4 DEF SocketType
<1> HIDE DEF c
<1>6. AnswerOK(a, sock, calls, handled)
  BY <1>2, <1>4
<1>7. /\ calls' \in Seq(CallType) /\ Len(calls') = Len(calls)
      /\ \A i \in 1 .. Len(calls) :
           /\ calls'[i].on = calls[i].on /\ calls'[i].verb = calls[i].verb
           /\ calls'[i].is = calls[i].is \/ (i = a.of /\ a.of # 0 /\ calls'[i].is = a.result)
  <2>1. CASE a.of = 0
    BY <2>1, <1>1, <1>2
  <2>2. CASE a.of # 0
    <3> DEFINE e == [calls[a.of] EXCEPT !.is = a.result]
    <3>1. a.of \in 1 .. Len(calls) /\ a.result # "welcome"
      BY <2>2, <1>6 DEF AnswerOK
    <3>2. a.result \in CallEnds
      BY <3>1, <1>4 DEF AnswerType, Results, CallEnds
    <3>3. calls[a.of] \in CallType
      BY <3>1, <1>2
    <3>4. /\ e \in CallType /\ e.on = calls[a.of].on /\ e.verb = calls[a.of].verb
          /\ e.is = a.result
      BY <3>2, <3>3 DEF CallType
    <3>5. calls' = [calls EXCEPT ![a.of] = e]
      BY <2>2, <1>1
    <3> HIDE DEF e
    <3>6. /\ calls' \in Seq(CallType) /\ Len(calls') = Len(calls) /\ calls'[a.of] = e
          /\ \A i \in 1 .. Len(calls) : i # a.of => calls'[i] = calls[i]
      BY <3>1, <3>4, <3>5, <1>2
    <3> QED
      BY <3>4, <3>6, <2>2
  <2> QED
    BY <2>1, <2>2
<1>8. SocketOK(c, s, calls')
  <2>1. \A i : MadeOn(i, s, calls) => MadeOn(i, s, calls') /\ calls'[i].verb = calls[i].verb
    BY <1>7 DEF MadeOn
  <2>2. c.far = "hello" => FALSE
    BY <1>1, <1>2, <1>5 DEF SocketOK
  <2> QED
    BY <2>1, <2>2, <1>2, <1>5 DEF SocketOK
<1>9. \A k \in 1 .. Len(c.outbox) : AnswerOK(c.outbox[k], sock, calls, handled)
  <2> SUFFICES ASSUME NEW k \in 1 .. Len(x.outbox) - 1
               PROVE  AnswerOK(x.outbox[k + 1], sock, calls, handled)
    BY <1>4, <1>5
  <2>1. k + 1 \in 1 .. Len(x.outbox)
    BY <1>2
  <2> QED
    BY <2>1, <1>2
<1>10. \A i \in 1 .. Len(calls) : Behind(x, i) => Behind(c, i)
  BY <1>5 DEF Behind
<1>11. \A i \in 1 .. Len(calls) : \/ calls'[i].is \in {calls[i].is, "lost"}
                                  \/ Told(i, calls'[i].is, sock, calls, handled)
  BY <1>6, <1>7 DEF AnswerOK
<1>12. /\ running' \in BOOLEAN /\ known' \subseteq keyed' /\ keyed' \subseteq Peers
       /\ ends' \in 0 .. MaxEnds /\ handled' = handled
       /\ Len(calls') <= MaxCalls /\ Len(calls) <= Len(calls')
  BY <1>1, <1>2, <1>7, CallsSame
<1>13. \A i \in 1 .. Len(calls') : i \in 1 .. Len(calls)
  BY <1>7
<1> QED
  BY <1>3, <1>5, <1>7, <1>8, <1>9, <1>10, <1>11, <1>12, <1>13, QuietSocketStep

LEMMA TalkLoses ==
    ASSUME TalkInv, NEW s \in 1 .. Len(sock), Loses(s)
    PROVE  TalkInv'
<1> DEFINE x == sock[s]
           none == << >>
           c == [x EXCEPT !.near = "closed", !.outbox = none]
<1>1. /\ sock' = [sock EXCEPT ![s].near = "closed", ![s].outbox = << >>]
      /\ calls' = [i \in CallIds |-> IF i \in StillWaiting(s) THEN [calls[i] EXCEPT !.is = "lost"]
                                     ELSE calls[i]]
      /\ UNCHANGED << running, known, keyed, handled, ends >>
  BY DEF Loses
<1>2. /\ TalkTyped /\ sock \in Seq(SocketType) /\ x \in SocketType
      /\ calls \in Seq(CallType) /\ Len(calls) \in Nat /\ SocketOK(x, s, calls)
      /\ DOMAIN calls = 1 .. Len(calls)
  BY SocketIs
<1>3. sock' = [sock EXCEPT ![s] = c] /\ none \in Seq(AnswerType) /\ Len(none) = 0
  <2>1. sock' = [sock EXCEPT ![s] = c]
    BY <1>1
  <2>2. none \in Seq(AnswerType) /\ Len(none) = 0
    OBVIOUS
  <2> QED
    BY <2>1, <2>2
<1> HIDE DEF none
<1>4. /\ c \in SocketType /\ c.client = x.client /\ c.near = "closed" /\ c.far = x.far
      /\ c.inbox = x.inbox /\ c.busy = x.busy /\ c.outbox = none
  BY <1>2, <1>3 DEF SocketType, EndStates
<1> HIDE DEF c
<1>5. ASSUME NEW i \in 1 .. Len(calls)
      PROVE  /\ calls'[i] \in CallType
             /\ calls'[i].on = calls[i].on /\ calls'[i].verb = calls[i].verb
             /\ calls'[i].is \in {calls[i].is, "lost"}
  <2> DEFINE e == [calls[i] EXCEPT !.is = "lost"]
  <2>1. calls[i] \in CallType
    BY <1>2
  <2>2. e \in CallType /\ e.on = calls[i].on /\ e.verb = calls[i].verb /\ e.is = "lost"
    BY <2>1 DEF CallType, CallEnds
  <2>3. calls'[i] = e \/ calls'[i] = calls[i]
    BY <1>1, <1>2 DEF CallIds
  <2> HIDE DEF e
  <2> QED
    BY <2>1, <2>2, <2>3
<1>6. calls' \in Seq(CallType) /\ Len(calls') = Len(calls)
  <2>1. calls' = [i \in 1 .. Len(calls) |-> calls'[i]]
    BY <1>1, <1>2 DEF CallIds
  <2> QED
    BY <2>1, <1>2, <1>5
<1>7. SocketOK(c, s, calls')
  <2>1. \A i : MadeOn(i, s, calls) => MadeOn(i, s, calls') /\ calls'[i].verb = calls[i].verb
    BY <1>5, <1>6 DEF MadeOn
  <2> QED
    BY <2>1, <1>2, <1>4 DEF SocketOK, none
<1>8. \A i \in 1 .. Len(calls) : Behind(x, i) => Behind(c, i)
  BY <1>4 DEF Behind
<1>9. /\ running' \in BOOLEAN /\ known' \subseteq keyed' /\ keyed' \subseteq Peers
      /\ ends' \in 0 .. MaxEnds /\ handled' = handled
      /\ Len(calls') <= MaxCalls /\ Len(calls) <= Len(calls')
  BY <1>1, <1>2, <1>6, CallsSame
<1>10. \A k \in 1 .. Len(c.outbox) : FALSE
  BY <1>3, <1>4
<1>11. \A i \in 1 .. Len(calls') : i \in 1 .. Len(calls)
  BY <1>6
<1> QED
  BY <1>3, <1>4, <1>5, <1>6, <1>7, <1>8, <1>9, <1>10, <1>11, QuietSocketStep

LEMMA TalkAuthenticates ==
    ASSUME TalkInv, NEW s \in 1 .. Len(sock), Authenticate(s)
    PROVE  TalkInv'
<1> DEFINE x == sock[s]
           ok == x.client \in known
           f == IF ok THEN "open" ELSE "closed"
           o == IF ok THEN Sent(s, Welcome) ELSE x.outbox
           c == [x EXCEPT !.far = f, !.outbox = o]
<1>1. /\ x.far = "hello"
      /\ ok => sock' = [sock EXCEPT ![s].far = "open", ![s].outbox = Sent(s, Welcome)]
      /\ ~ok => sock' = [sock EXCEPT ![s].far = "closed"]
      /\ UNCHANGED << running, known, keyed, calls, handled, ends >>
  BY DEF Authenticate
<1>2. /\ TalkTyped /\ sock \in Seq(SocketType) /\ x \in SocketType
      /\ x.outbox \in Seq(AnswerType) /\ calls \in Seq(CallType) /\ Len(calls) \in Nat
      /\ SocketOK(x, s, calls)
  BY SocketIs
<1>3. sock' = [sock EXCEPT ![s] = c]
  <2>1. CASE ok
    BY <2>1, <1>1
  <2>2. CASE ~ok
    <3>1. [x EXCEPT !.far = "closed"] = [x EXCEPT !.far = "closed", !.outbox = x.outbox]
      BY <1>2 DEF SocketType
    <3> QED
      BY <2>2, <3>1, <1>1
  <2> QED
    BY <2>1, <2>2
<1>4. x.busy = 0 /\ x.outbox = << >>
  BY <1>1, <1>2 DEF SocketOK
<1>5. Welcome \in AnswerType /\ Welcome.of = 0 /\ Welcome.result = "welcome"
  BY DEF Welcome, Answer, AnswerType, Results
<1>6. o = << >> \/ o = << Welcome >>
  BY <1>4 DEF Sent
<1>7. f \in EndStates /\ f # "hello" /\ o \in Seq(AnswerType)
  <2>1. f \in EndStates /\ f # "hello"
    BY DEF EndStates
  <2> HIDE DEF f, o
  <2>2. << Welcome >> \in Seq(AnswerType) /\ << >> \in Seq(AnswerType)
    BY <1>5
  <2> QED
    BY <2>1, <2>2, <1>6
<1> HIDE DEF f, o
<1>8. /\ c \in SocketType /\ c.client = x.client /\ c.far = f
      /\ c.inbox = x.inbox /\ c.busy = x.busy /\ c.outbox = o
  BY <1>2, <1>7 DEF SocketType
<1> HIDE DEF c
<1>9. SocketOK(c, s, calls')
  BY <1>1, <1>2, <1>4, <1>7, <1>8 DEF SocketOK
<1>10. \A i \in 1 .. Len(calls) : Behind(x, i) => Behind(c, i)
  BY <1>8 DEF Behind
<1>11. \A k \in 1 .. Len(c.outbox) : AnswerOK(c.outbox[k], sock, calls, handled)
  <2>1. \A k \in 1 .. Len(o) : o[k] = Welcome
    BY <1>6
  <2> QED
    BY <2>1, <1>5, <1>8 DEF AnswerOK
<1>12. /\ running' \in BOOLEAN /\ known' \subseteq keyed' /\ keyed' \subseteq Peers
       /\ ends' \in 0 .. MaxEnds /\ handled' = handled /\ calls' = calls
       /\ Len(calls') <= MaxCalls /\ Len(calls) <= Len(calls')
  BY <1>1, <1>2, CallsSame
<1> QED
  BY <1>2, <1>3, <1>8, <1>9, <1>10, <1>11, <1>12, QuietSocketStep

\* What the daemon puts into a connection's outbox stays in front of the new answer.
LEMMA SentIs ==
    ASSUME TalkInv, NEW s \in 1 .. Len(sock), NEW a \in AnswerType
    PROVE  /\ Sent(s, a) \in Seq(AnswerType)
           /\ \A k \in 1 .. Len(Sent(s, a)) :
                \/ Sent(s, a)[k] = a
                \/ k \in 1 .. Len(sock[s].outbox) /\ Sent(s, a)[k] = sock[s].outbox[k]
<1>1. sock[s].outbox \in Seq(AnswerType) /\ Len(sock[s].outbox) \in Nat
  BY SocketIs
<1>2. CASE sock[s].near = "closed"
  <2>1. Sent(s, a) = << >>
    BY <1>2 DEF Sent
  <2> QED
    BY <2>1
<1>3. CASE sock[s].near # "closed"
  <2> DEFINE o == sock[s].outbox
  <2>1. Sent(s, a) = Append(o, a)
    BY <1>3 DEF Sent
  <2> HIDE DEF o
  <2>2. o \in Seq(AnswerType) /\ Len(o) \in Nat
    BY <1>1 DEF o
  <2>3. /\ Append(o, a) \in Seq(AnswerType) /\ Len(Append(o, a)) = Len(o) + 1
        /\ Append(o, a)[Len(o) + 1] = a
        /\ \A k \in 1 .. Len(o) : Append(o, a)[k] = o[k]
    BY <2>2
  <2>4. \A k \in 1 .. Len(Append(o, a)) : k \in 1 .. Len(o) \/ k = Len(o) + 1
    BY <2>2, <2>3
  <2> QED
    BY <2>1, <2>3, <2>4 DEF o
<1> QED
  BY <1>2, <1>3

\* The inbox without its first call: what is left is after it.
LEMMA InboxTail ==
    ASSUME TalkInv, NEW s \in 1 .. Len(sock), sock[s].inbox # << >>
    PROVE  LET x == sock[s]
               i == Head(x.inbox)
           IN  /\ Tail(x.inbox) \in Seq(Nat) /\ i \in Nat /\ i # 0
               /\ MadeOn(i, s, calls)
               /\ \A k \in 1 .. Len(Tail(x.inbox)) : /\ i < Tail(x.inbox)[k]
                                                     /\ MadeOn(Tail(x.inbox)[k], s, calls)
               /\ \A k, m \in 1 .. Len(Tail(x.inbox)) : k < m => Tail(x.inbox)[k] < Tail(x.inbox)[m]
               /\ \A j : Behind(x, j) => /\ j < i
                                         /\ \A k \in 1 .. Len(Tail(x.inbox)) : j < Tail(x.inbox)[k]
<1> DEFINE x == sock[s]
           q == x.inbox
           i == Head(q)
<1>1. /\ q \in Seq(Nat) /\ Len(q) \in Nat /\ SocketOK(x, s, calls) /\ Len(calls) \in Nat
  BY SocketIs
<1>2. \A k \in 1 .. Len(q) : MadeOn(q[k], s, calls)
  BY <1>1 DEF SocketOK
<1>3. \A k, m \in 1 .. Len(q) : k < m => q[k] < q[m]
  BY <1>1 DEF SocketOK
<1>4. \A j : Behind(x, j) => \A k \in 1 .. Len(q) : j < q[k]
  BY DEF Behind
<1>5. q # << >>
  OBVIOUS
<1> HIDE DEF q
<1>6. /\ Tail(q) \in Seq(Nat) /\ Len(Tail(q)) = Len(q) - 1 /\ i \in Nat /\ i = q[1]
      /\ \A k \in 1 .. Len(q) - 1 : Tail(q)[k] = q[k + 1]
      /\ Len(q) >= 1
  BY <1>1, <1>5
<1>7. \A k \in 1 .. Len(Tail(q)) : k + 1 \in 1 .. Len(q) /\ 1 < k + 1 /\ Tail(q)[k] = q[k + 1]
  BY <1>1, <1>6
<1>8. MadeOn(i, s, calls) /\ i # 0
  BY <1>1, <1>2, <1>6 DEF MadeOn
<1>9. \A k \in 1 .. Len(Tail(q)) : i < Tail(q)[k] /\ MadeOn(Tail(q)[k], s, calls)
  BY <1>1, <1>2, <1>3, <1>6, <1>7
<1>10. \A k, m \in 1 .. Len(Tail(q)) : k < m => Tail(q)[k] < Tail(q)[m]
  <2> SUFFICES ASSUME NEW k \in 1 .. Len(Tail(q)), NEW m \in 1 .. Len(Tail(q)), k < m
               PROVE  Tail(q)[k] < Tail(q)[m]
    OBVIOUS
  <2>1. k + 1 < m + 1
    BY <1>1, <1>6
  <2> QED
    BY <2>1, <1>3, <1>7
<1>11. \A j : Behind(x, j) => /\ j < i
                              /\ \A k \in 1 .. Len(Tail(q)) : j < Tail(q)[k]
  <2> SUFFICES ASSUME NEW j, Behind(x, j)
               PROVE  j < i /\ \A k \in 1 .. Len(Tail(q)) : j < Tail(q)[k]
    OBVIOUS
  <2>1. \A k \in 1 .. Len(q) : j < q[k]
    BY <1>4
  <2> QED
    BY <2>1, <1>1, <1>6, <1>7
<1> QED
  BY <1>6, <1>8, <1>9, <1>10, <1>11 DEF q

LEMMA TalkTakes ==
    ASSUME TalkInv, NEW s \in 1 .. Len(sock), TakesNext(s)
    PROVE  TalkInv'
<1> DEFINE x == sock[s]
           i == Head(x.inbox)
           routed == calls[i].verb \in Routes(ScopeOf[x.client])
           b == IF routed THEN i ELSE 0
           o == IF routed THEN x.outbox ELSE Sent(s, Answer(i, "refused"))
           q == Tail(x.inbox)
           c == [x EXCEPT !.inbox = q, !.busy = b, !.outbox = o]
<1>1. /\ x.far = "open" /\ x.busy = 0 /\ x.inbox # << >>
      /\ sock' = [sock EXCEPT ![s].inbox = Tail(@),
                              ![s].busy = IF routed THEN i ELSE 0,
                              ![s].outbox = IF routed THEN @ ELSE Sent(s, Answer(i, "refused"))]
      /\ UNCHANGED << running, known, keyed, calls, handled, ends >>
  BY DEF TakesNext
<1>2. /\ TalkTyped /\ sock \in Seq(SocketType) /\ x \in SocketType
      /\ x.outbox \in Seq(AnswerType) /\ calls \in Seq(CallType) /\ Len(calls) \in Nat
      /\ SocketOK(x, s, calls) /\ HandledOK(sock, calls, handled) /\ Len(sock) \in Nat
      /\ \A k \in 1 .. Len(x.outbox) : AnswerOK(x.outbox[k], sock, calls, handled)
  BY SocketIs
<1>3. sock' = [sock EXCEPT ![s] = c]
  BY <1>1
<1>4. /\ q \in Seq(Nat) /\ i \in Nat /\ i # 0 /\ MadeOn(i, s, calls)
      /\ \A k \in 1 .. Len(q) : i < q[k] /\ MadeOn(q[k], s, calls)
      /\ \A k, m \in 1 .. Len(q) : k < m => q[k] < q[m]
      /\ \A j : Behind(x, j) => j < i /\ \A k \in 1 .. Len(q) : j < q[k]
  BY <1>1, InboxTail
<1>5. /\ Answer(i, "refused") \in AnswerType /\ Answer(i, "refused").of = i
      /\ Answer(i, "refused").result = "refused"
  BY <1>4 DEF Answer, AnswerType, Results
<1>6. /\ o \in Seq(AnswerType)
      /\ \A k \in 1 .. Len(o) : \/ k \in 1 .. Len(x.outbox) /\ o[k] = x.outbox[k]
                                \/ ~routed /\ o[k] = Answer(i, "refused")
  BY <1>2, <1>5, SentIs
<1>7. b \in Nat /\ b \in {0, i} /\ (b = i <=> routed)
  BY <1>4
<1> HIDE DEF b, o, q, i
<1>8. /\ c \in SocketType /\ c.client = x.client /\ c.near = x.near /\ c.far = x.far
      /\ c.inbox = q /\ c.busy = b /\ c.outbox = o
  BY <1>2, <1>4, <1>6, <1>7 DEF SocketType
<1> HIDE DEF c
<1>9. SocketOK(c, s, calls')
  BY <1>1, <1>4, <1>7, <1>8 DEF SocketOK
<1>10. \A j \in 1 .. Len(calls) : Behind(x, j) => Behind(c, j)
  BY <1>4, <1>7, <1>8 DEF Behind
<1>11. sock'[s] = c
  BY <1>2, <1>3
<1>12. ~routed => AnswerOK(Answer(i, "refused"), sock', calls', handled')
  <2> SUFFICES ASSUME ~routed
               PROVE  AnswerOK(Answer(i, "refused"), sock', calls', handled')
    OBVIOUS
  <2>1. i \in 1 .. Len(calls) /\ calls[i].on = s
    BY <1>4 DEF MadeOn
  <2>2. ~Served(i, handled)
    <3> SUFFICES ASSUME NEW k \in 1 .. Len(handled), handled[k] = i PROVE FALSE
      BY DEF Served
    <3>1. Behind(x, i)
      BY <2>1, <1>2 DEF HandledOK
    <3> QED
      BY <3>1, <1>4
  <2>3. Behind(c, i)
    BY <1>4, <1>7, <1>8 DEF Behind
  <2> QED
    BY <2>1, <2>2, <2>3, <1>1, <1>4, <1>5, <1>11 DEF AnswerOK, Told
<1>13. \A k \in 1 .. Len(c.outbox) : \/ AnswerOK(c.outbox[k], sock, calls, handled)
                                     \/ AnswerOK(c.outbox[k], sock', calls', handled')
  BY <1>2, <1>6, <1>8, <1>12
<1>14. /\ running' \in BOOLEAN /\ known' \subseteq keyed' /\ keyed' \subseteq Peers
       /\ ends' \in 0 .. MaxEnds /\ handled' = handled /\ calls' = calls
       /\ Len(calls') <= MaxCalls /\ Len(calls) <= Len(calls')
  BY <1>1, <1>2, CallsSame
<1> QED
  BY <1>2, <1>3, <1>8, <1>9, <1>10, <1>13, <1>14, QuietSocketStep

LEMMA TalkPerforms ==
    ASSUME TalkInv, NEW s \in 1 .. Len(sock), Perform(s)
    PROVE  TalkInv'
<1> DEFINE x == sock[s]
           i == x.busy
           n == Len(handled)
           f == IF calls[i].verb = "daemon.shutdown" THEN "closed" ELSE x.far
           o == Sent(s, Answer(i, "ok"))
           c == [x EXCEPT !.busy = 0, !.outbox = o, !.far = f]
<1>1. /\ i # 0 /\ x.far = "open" /\ handled' = Append(handled, i)
      /\ sock' = [sock EXCEPT ![s].busy = 0, ![s].outbox = Sent(s, Answer(i, "ok")),
                              ![s].far = IF calls[i].verb = "daemon.shutdown" THEN "closed" ELSE @]
      /\ known' = known \cup Given(calls[i].verb) /\ keyed' = keyed \cup Given(calls[i].verb)
      /\ UNCHANGED << running, calls, ends >>
  BY DEF Perform
<1>2. /\ TalkTyped /\ sock \in Seq(SocketType) /\ x \in SocketType /\ i \in Nat
      /\ x.outbox \in Seq(AnswerType) /\ calls \in Seq(CallType) /\ Len(calls) \in Nat
      /\ SocketOK(x, s, calls) /\ HandledOK(sock, calls, handled) /\ Len(sock) \in Nat
      /\ \A k \in 1 .. Len(x.outbox) : AnswerOK(x.outbox[k], sock, calls, handled)
      /\ handled \in Seq(Nat) /\ CallsOK
  BY SocketIs
<1>3. sock' = [sock EXCEPT ![s] = c]
  BY <1>1
<1>4. /\ MadeOn(i, s, calls) /\ i \in 1 .. Len(calls) /\ calls[i].on = s
      /\ calls[i].verb \in Routes(ScopeOf[x.client])
      /\ \A k \in 1 .. Len(x.inbox) : i < x.inbox[k]
  BY <1>1, <1>2 DEF SocketOK, MadeOn
<1>5. /\ Answer(i, "ok") \in AnswerType /\ Answer(i, "ok").of = i
      /\ Answer(i, "ok").result = "ok"
  BY <1>2 DEF Answer, AnswerType, Results
<1>6. /\ o \in Seq(AnswerType)
      /\ \A k \in 1 .. Len(o) : \/ k \in 1 .. Len(x.outbox) /\ o[k] = x.outbox[k]
                                \/ o[k] = Answer(i, "ok")
  BY <1>5, SentIs
<1>7. f \in {"open", "closed"} /\ f \in EndStates
  BY <1>1 DEF EndStates
<1>8. known' \subseteq keyed' /\ keyed' \subseteq Peers
  <2>1. Given(calls[i].verb) \subseteq Peers
    BY DEF Given
  <2> QED
    BY <2>1, <1>1, <1>2 DEF TalkTyped
<1> HIDE DEF f, o
<1>9. /\ c \in SocketType /\ c.client = x.client /\ c.near = x.near /\ c.far = f
      /\ c.inbox = x.inbox /\ c.busy = 0 /\ c.outbox = o
  BY <1>2, <1>6, <1>7 DEF SocketType
<1> HIDE DEF c, i, n
<1>10. SocketOK(c, s, calls')
  BY <1>1, <1>2, <1>7, <1>9 DEF SocketOK
<1>11. /\ sock'[s] = c /\ \A t \in 1 .. Len(sock) : t # s => sock'[t] = sock[t]
  BY <1>2, <1>3
<1>12. ASSUME NEW j \in 1 .. Len(calls)
       PROVE  /\ Behind(sock[calls[j].on], j) => Behind(sock'[calls[j].on], j)
              /\ sock'[calls[j].on].client = sock[calls[j].on].client
              /\ Behind(sock[calls[j].on], j) => j # i
  <2>1. calls[j].on \in 1 .. Len(sock)
    BY <1>2 DEF CallsOK
  <2>2. CASE calls[j].on = s
    <3>1. Behind(x, j) => Behind(c, j) /\ j < i
      BY <1>1, <1>9 DEF Behind, i
    <3> QED
      BY <3>1, <2>2, <1>2, <1>9, <1>11
  <2>3. CASE calls[j].on # s
    BY <2>1, <2>3, <1>4, <1>11
  <2> QED
    BY <2>2, <2>3
<1>13. /\ n \in Nat /\ Len(handled') = n + 1 /\ handled'[n + 1] = i /\ handled' \in Seq(Nat)
       /\ \A k \in 1 .. n : handled'[k] = handled[k]
       /\ \A k \in 1 .. Len(handled') : k \in 1 .. n \/ k = n + 1
  <2>1. handled \in Seq(Nat) /\ i \in Nat /\ n \in Nat /\ n = Len(handled)
    BY <1>2 DEF n
  <2>2. /\ Append(handled, i) \in Seq(Nat) /\ Len(Append(handled, i)) = n + 1
        /\ Append(handled, i)[n + 1] = i
        /\ \A k \in 1 .. n : Append(handled, i)[k] = handled[k]
    BY <2>1
  <2> QED
    BY <2>1, <2>2, <1>1
<1>14. \A j : Served(j, handled') <=> Served(j, handled) \/ j = i
  BY <1>13 DEF Served, n
<1>15. ASSUME NEW j \in 1 .. Len(calls), NEW r, Told(j, r, sock, calls, handled)
       PROVE  Told(j, r, sock', calls', handled')
  BY <1>1, <1>12, <1>14, <1>15 DEF Told
<1>16. HandledOK(sock', calls', handled')
  <2>1. \A k \in 1 .. n : /\ handled[k] \in 1 .. Len(calls)
                          /\ Behind(sock[calls[handled[k]].on], handled[k])
                          /\ calls[handled[k]].verb \in
                               Routes(ScopeOf[sock[calls[handled[k]].on].client])
    BY <1>2 DEF HandledOK, n
  <2>2. ASSUME NEW k \in 1 .. Len(handled')
        PROVE  /\ handled'[k] \in 1 .. Len(calls)
               /\ Behind(sock'[calls[handled'[k]].on], handled'[k])
               /\ calls[handled'[k]].verb \in
                    Routes(ScopeOf[sock'[calls[handled'[k]].on].client])
    <3>1. CASE k \in 1 .. n
      BY <3>1, <2>1, <1>12, <1>13
    <3>2. CASE k = n + 1
      <4>1. Behind(c, i)
        BY <1>4, <1>9 DEF Behind
      <4> QED
        BY <4>1, <3>2, <1>4, <1>9, <1>11, <1>13
    <3> QED
      BY <3>1, <3>2, <1>13
  <2>3. ASSUME NEW k \in 1 .. Len(handled'), NEW m \in 1 .. Len(handled'),
               k < m, calls[handled'[k]].on = calls[handled'[m]].on
        PROVE  handled'[k] < handled'[m]
    <3>1. k \in 1 .. n
      BY <2>3, <1>13
    <3>2. CASE m \in 1 .. n
      <4>1. handled[k] < handled[m]
        BY <3>1, <3>2, <2>3, <1>2, <1>13 DEF HandledOK, n
      <4> QED
        BY <4>1, <3>1, <3>2, <1>13
    <3>3. CASE m = n + 1
      <4>1. calls[handled[k]].on = s /\ Behind(x, handled[k])
        BY <3>1, <3>3, <2>1, <2>3, <1>4, <1>13
      <4>2. handled[k] < i
        BY <4>1, <1>1 DEF Behind, i
      <4> QED
        BY <4>2, <3>1, <3>3, <1>13
    <3> QED
      BY <3>2, <3>3, <1>13
  <2> QED
    BY <2>2, <2>3, <1>1 DEF HandledOK
<1>17. AnswerOK(Answer(i, "ok"), sock', calls', handled')
  BY <1>1, <1>4, <1>5, <1>14 DEF AnswerOK, Told
<1>18. \A k \in 1 .. Len(c.outbox) : \/ AnswerOK(c.outbox[k], sock, calls, handled)
                                     \/ AnswerOK(c.outbox[k], sock', calls', handled')
  BY <1>2, <1>6, <1>9, <1>17
<1>19. /\ running' \in BOOLEAN /\ ends' \in 0 .. MaxEnds /\ calls' = calls
       /\ Len(calls') <= MaxCalls /\ Len(calls) <= Len(calls')
  BY <1>1, <1>2 DEF TalkTyped
<1> QED
  BY <1>2, <1>3, <1>8, <1>9, <1>10, <1>13, <1>15, <1>16, <1>18, <1>19, OneSocketStep

LEMMA TalkNotices ==
    ASSUME TalkInv, NEW s \in 1 .. Len(sock), Notices(s)
    PROVE  TalkInv'
<1> DEFINE x == sock[s]
<1>1. /\ x.far # "closed" /\ x.busy = 0
      /\ UNCHANGED << running, known, keyed, calls, handled, ends >>
  BY DEF Notices
<1>2. /\ TalkTyped /\ sock \in Seq(SocketType) /\ x \in SocketType
      /\ x.inbox \in Seq(Nat) /\ Len(x.inbox) \in Nat /\ x.far \in EndStates
      /\ calls \in Seq(CallType) /\ Len(calls) \in Nat /\ SocketOK(x, s, calls)
      /\ \A k \in 1 .. Len(x.outbox) : AnswerOK(x.outbox[k], sock, calls, handled)
  BY SocketIs
<1>3. PICK n \in 0 .. Len(x.inbox), f \in {x.far, "closed"} :
        sock' = [sock EXCEPT ![s] = [x EXCEPT !.inbox = SubSeq(x.inbox, 1, n), !.far = f]]
  <2>1. CASE x.inbox = << >> /\ sock' = [sock EXCEPT ![s].far = "closed"]
    <3>1. SubSeq(x.inbox, 1, 0) = x.inbox
      BY <2>1
    <3>2. [x EXCEPT !.far = "closed"] = [x EXCEPT !.inbox = x.inbox, !.far = "closed"]
      BY <1>2 DEF SocketType
    <3>3. sock' = [sock EXCEPT ![s] = [x EXCEPT !.inbox = SubSeq(x.inbox, 1, 0), !.far = "closed"]]
      BY <3>1, <3>2, <2>1
    <3>4. 0 \in 0 .. Len(x.inbox)
      BY <1>2
    <3> QED
      BY <3>3, <3>4
  <2>2. CASE \E n \in 0 .. Len(x.inbox) - 1 :
               sock' = [sock EXCEPT ![s].inbox = SubSeq(@, 1, n),
                                    ![s].far = IF n = 0 THEN "closed" ELSE @]
    <3>1. PICK n \in 0 .. Len(x.inbox) - 1 :
                 sock' = [sock EXCEPT ![s].inbox = SubSeq(@, 1, n),
                                      ![s].far = IF n = 0 THEN "closed" ELSE @]
      BY <2>2
    <3> DEFINE f == IF n = 0 THEN "closed" ELSE x.far
    <3>2. sock' = [sock EXCEPT ![s] = [x EXCEPT !.inbox = SubSeq(x.inbox, 1, n), !.far = f]]
      BY <3>1
    <3>3. n \in 0 .. Len(x.inbox) /\ f \in {x.far, "closed"}
      BY <1>2
    <3> QED
      BY <3>2, <3>3
  <2> QED
    BY <2>1, <2>2 DEF Notices
<1> DEFINE q == SubSeq(x.inbox, 1, n)
           c == [x EXCEPT !.inbox = q, !.far = f]
<1>4. /\ q \in Seq(Nat) /\ Len(q) = n
      /\ \A k \in 1 .. Len(q) : k \in 1 .. Len(x.inbox) /\ q[k] = x.inbox[k]
  <2>1. n \in Nat /\ n <= Len(x.inbox)
    BY <1>2
  <2> QED
    BY <2>1, <1>2
<1>5. f \in EndStates
  BY <1>2 DEF EndStates
<1> HIDE DEF q
<1>6. /\ c \in SocketType /\ c.client = x.client /\ c.near = x.near /\ c.far = f
      /\ c.inbox = q /\ c.busy = x.busy /\ c.outbox = x.outbox
  BY <1>2, <1>4, <1>5 DEF SocketType
<1>7. sock' = [sock EXCEPT ![s] = c]
  BY <1>3 DEF q
<1> HIDE DEF c
<1>8. SocketOK(c, s, calls')
  <2>1. c.busy = 0
    BY <1>1, <1>6
  <2>2. \A k \in 1 .. Len(c.inbox) : MadeOn(c.inbox[k], s, calls)
    BY <1>2, <1>4, <1>6 DEF SocketOK
  <2>3. \A k, m \in 1 .. Len(c.inbox) : k < m => c.inbox[k] < c.inbox[m]
    BY <1>2, <1>4, <1>6 DEF SocketOK
  <2>4. c.far = "hello" => c.near # "open" /\ c.outbox = << >>
    BY <1>2, <1>6 DEF SocketOK
  <2> QED
    BY <2>1, <2>2, <2>3, <2>4, <1>1 DEF SocketOK
<1>9. \A i \in 1 .. Len(calls) : Behind(x, i) => Behind(c, i)
  BY <1>4, <1>6 DEF Behind
<1>10. /\ running' \in BOOLEAN /\ known' \subseteq keyed' /\ keyed' \subseteq Peers
       /\ ends' \in 0 .. MaxEnds /\ handled' = handled /\ calls' = calls
       /\ Len(calls') <= MaxCalls /\ Len(calls) <= Len(calls')
  BY <1>1, <1>2, CallsSame
<1>11. \A k \in 1 .. Len(c.outbox) : AnswerOK(c.outbox[k], sock, calls, handled)
  BY <1>2, <1>6
<1> QED
  BY <1>2, <1>6, <1>7, <1>8, <1>9, <1>10, <1>11, QuietSocketStep

LEMMA TalkDies ==
    ASSUME TalkInv, Dies
    PROVE  TalkInv'
<1> DEFINE none == << >>
<1>1. /\ running' = FALSE /\ ends < MaxEnds /\ ends' = ends + 1
      /\ known' = {p \in known : ScopeOf[p] \in {"root", "phone"}}
      /\ sock' = [s \in Sockets |-> [sock[s] EXCEPT !.far = "closed", !.inbox = none,
                                                    !.busy = 0, !.outbox = none]]
      /\ UNCHANGED << keyed, calls, handled >>
  BY DEF Dies
<1>2. /\ none \in Seq(Nat) /\ none \in Seq(AnswerType) /\ Len(none) = 0
  OBVIOUS
<1> HIDE DEF none
<1>3. /\ TalkTyped /\ CallsOK /\ HandledOK(sock, calls, handled)
      /\ sock \in Seq(SocketType) /\ Len(sock) \in Nat /\ Sockets = 1 .. Len(sock)
      /\ calls \in Seq(CallType) /\ Len(calls) \in Nat /\ handled \in Seq(Nat)
  BY DEF TalkInv, TalkTyped, Sockets
<1>4. ASSUME NEW s \in 1 .. Len(sock)
      PROVE  /\ sock'[s] \in SocketType /\ sock'[s].client = sock[s].client
             /\ sock'[s].far = "closed" /\ sock'[s].inbox = none /\ sock'[s].busy = 0
             /\ sock'[s].outbox = none
  <2> DEFINE c == [sock[s] EXCEPT !.far = "closed", !.inbox = none, !.busy = 0, !.outbox = none]
  <2>1. sock[s] \in SocketType
    BY <1>3
  <2>2. /\ c \in SocketType /\ c.client = sock[s].client /\ c.far = "closed"
        /\ c.inbox = none /\ c.busy = 0 /\ c.outbox = none
    BY <2>1, <1>2 DEF SocketType, EndStates
  <2>3. sock'[s] = c
    BY <1>1, <1>3
  <2> HIDE DEF c
  <2> QED
    BY <2>2, <2>3
<1>5. sock' \in Seq(SocketType) /\ Len(sock') = Len(sock)
  <2>1. sock' = [s \in 1 .. Len(sock) |-> sock'[s]]
    BY <1>1, <1>3
  <2>2. \A s \in 1 .. Len(sock) : sock'[s] \in SocketType
    BY <1>4
  <2>3. Len(sock) \in Nat
    BY <1>3
  <2> HIDE DEF none
  <2>4. sock' \in [1 .. Len(sock) -> SocketType]
    BY <2>1, <2>2, Zenon
  <2> QED
    BY <2>3, <2>4
<1>6. TalkTyped'
  <2>1. ends' \in 0 .. MaxEnds
    <3>1. MaxEnds \in Nat
      BY ConnectionAssumption DEF ConnectionAssumption
    <3>2. ends \in 0 .. MaxEnds
      BY <1>3 DEF TalkTyped
    <3>3. ends < MaxEnds /\ ends' = ends + 1
      BY <1>1
    <3> QED
      BY <3>1, <3>2, <3>3
  <2> QED
    BY <2>1, <1>1, <1>3, <1>5 DEF TalkTyped
<1>7. SocketsOK' /\ AnswersOK'
  BY <1>2, <1>4, <1>5 DEF SocketsOK, AnswersOK, SocketOK
<1>8. \A i \in 1 .. Len(calls) : /\ calls[i].on \in 1 .. Len(sock)
                                 /\ Behind(sock'[calls[i].on], i)
  BY <1>2, <1>3, <1>4 DEF CallsOK, Behind
<1>9. CallsOK'
  BY <1>1, <1>3, <1>5, <1>8 DEF CallsOK, Told
<1>10. HandledOK(sock', calls', handled')
  <2>1. calls' = calls /\ handled' = handled
    BY <1>1
  <2>2. ASSUME NEW k \in 1 .. Len(handled)
        PROVE  /\ handled[k] \in 1 .. Len(calls)
               /\ Behind(sock'[calls[handled[k]].on], handled[k])
               /\ calls[handled[k]].verb \in Routes(ScopeOf[sock'[calls[handled[k]].on].client])
    <3>1. /\ handled[k] \in 1 .. Len(calls)
          /\ calls[handled[k]].verb \in Routes(ScopeOf[sock[calls[handled[k]].on].client])
      BY <1>3 DEF HandledOK
    <3>2. sock'[calls[handled[k]].on].client = sock[calls[handled[k]].on].client
      BY <3>1, <1>4, <1>8
    <3> QED
      BY <3>1, <3>2, <1>8
  <2> QED
    BY <2>1, <2>2, <1>3 DEF HandledOK
<1> QED
  BY <1>6, <1>7, <1>9, <1>10 DEF TalkInv

LEMMA TalkRests ==
    ASSUME TalkInv, UNCHANGED << sock, calls, handled >>,
           running' \in BOOLEAN, known' \subseteq keyed', keyed' \subseteq Peers,
           ends' \in 0 .. MaxEnds
    PROVE  TalkInv'
BY DEF TalkInv, TalkTyped, SocketsOK, AnswersOK, CallsOK

LEMMA TalkSteps ==
    ASSUME TalkInv, ConnNext \/ UNCHANGED talkVars
    PROVE  TalkInv'
<1>1. /\ Sockets = 1 .. Len(sock) /\ running \in BOOLEAN /\ known \subseteq keyed
      /\ keyed \subseteq Peers /\ ends \in 0 .. MaxEnds
  BY DEF TalkInv, TalkTyped, Sockets
<1>2. CASE \E p \in Peers : Dial(p)
  BY <1>2, TalkDials
<1>3. CASE \E p \in Peers : Revoke(p) \/ RevokePhone(p)
  <2>1. /\ known' \subseteq known /\ UNCHANGED << running, keyed, sock, calls, handled, ends >>
    BY <1>3 DEF Revoke, RevokePhone
  <2> QED
    BY <2>1, <1>1, TalkRests
<1>4. CASE \E s \in Sockets : \E v \in Asked[sock[s].client] : Request(s, v)
  BY <1>1, <1>4, TalkRequests
<1>5. CASE \E s \in Sockets : ReadsAnswer(s)
  BY <1>1, <1>5, TalkReads
<1>6. CASE \E s \in Sockets : SeesClose(s) \/ Cut(s)
  BY <1>1, <1>6, TalkLoses DEF SeesClose, Cut
<1>7. CASE \E s \in Sockets : Authenticate(s)
  BY <1>1, <1>7, TalkAuthenticates
<1>8. CASE \E s \in Sockets : TakesNext(s)
  BY <1>1, <1>8, TalkTakes
<1>9. CASE \E s \in Sockets : Perform(s)
  BY <1>1, <1>9, TalkPerforms
<1>10. CASE \E s \in Sockets : Notices(s)
  BY <1>1, <1>10, TalkNotices
<1>11. CASE Dies
  BY <1>11, TalkDies
<1>12. CASE Boots
  BY <1>1, <1>12, TalkRests DEF Boots
<1>13. CASE UNCHANGED talkVars
  BY <1>1, <1>13, TalkRests DEF talkVars
<1> QED
  BY <1>2, <1>3, <1>4, <1>5, <1>6, <1>7, <1>8, <1>9, <1>10, <1>11, <1>12, <1>13
  DEF ConnNext, DaemonEnd

--------------------------------------------------------------------------------
(* What follows of calls.                                                      *)

\* A table has no verb that its scope is not to have.
LEMMA TablesAreNarrow ==
    ASSUME NEW scope \in TokenScopes, NEW v \in Routes(scope)
    PROVE  /\ scope # "root" => v \notin Excludes
           /\ scope \in {"phone", "round", "agent"} => Given(v) = {}
<1>1. CASE scope = "agent"
  <2>1. v \in AgentVerbs
    BY <1>1 DEF Routes
  <2> QED
    BY <2>1, <1>1 DEF AgentVerbs, KnowReads, Excludes, Given
<1>2. CASE scope = "concertmaster"
  <2>1. v \in ConcertmasterVerbs
    BY <1>2 DEF Routes
  <2> QED
    BY <2>1, <1>2 DEF ConcertmasterVerbs, ReadVerbs, KnowReads, Excludes
<1>3. CASE scope = "round"
  <2>1. v \in RoundVerbs
    BY <1>3 DEF Routes
  <2> QED
    BY <2>1, <1>3 DEF RoundVerbs, ReadVerbs, KnowReads, Excludes, Given
<1>4. CASE scope = "phone"
  <2>1. v \in PhoneVerbs
    BY <1>4 DEF Routes
  <2> QED
    BY <2>1, <1>4 DEF PhoneVerbs, ReadVerbs, Excludes, Given
<1> QED
  BY <1>1, <1>2, <1>3, <1>4 DEF TokenScopes

LEMMA ScopesFollow ==
    ASSUME TalkInv
    PROVE  ScopesHold
<1> SUFFICES ASSUME NEW k \in DOMAIN handled
             PROVE  LET c == sock[calls[handled[k]].on].client
                        v == calls[handled[k]].verb
                    IN  /\ ScopeOf[c] # "root" => v \notin Excludes
                        /\ ScopeOf[c] \in {"phone", "round", "agent"} => Given(v) = {}
  BY DEF ScopesHold
<1> DEFINE t == calls[handled[k]].on
           c == sock[t].client
           v == calls[handled[k]].verb
<1>1. k \in 1 .. Len(handled)
  BY DEF TalkInv, TalkTyped
<1>2. handled[k] \in 1 .. Len(calls) /\ v \in Routes(ScopeOf[c])
  BY <1>1 DEF TalkInv, HandledOK
<1>3. t \in 1 .. Len(sock)
  BY <1>2 DEF TalkInv, CallsOK
<1>4. c \in Peers
  BY <1>3, SocketIs
<1>5. ScopeOf[c] \in TokenScopes
  BY <1>4, ConnectionAssumption DEF ConnectionAssumption
<1> QED
  BY <1>2, <1>5, TablesAreNarrow

LEMMA AnswersFollow ==
    ASSUME TalkInv
    PROVE  AnsweredMeansDone
<1>1. /\ handled \in Seq(Nat) /\ Len(handled) \in Nat /\ DOMAIN handled = 1 .. Len(handled)
      /\ calls \in Seq(CallType) /\ CallIds = 1 .. Len(calls)
  BY DEF TalkInv, TalkTyped, CallIds
<1>2. \A k, m \in 1 .. Len(handled) :
        k < m /\ calls[handled[k]].on = calls[handled[m]].on => handled[k] < handled[m]
  BY DEF TalkInv, HandledOK
<1>3. ASSUME NEW i \in 1 .. Len(calls)
      PROVE  LET times == Cardinality({k \in DOMAIN handled : handled[k] = i})
             IN  /\ times <= 1
                 /\ calls[i].is = "ok" => times = 1
                 /\ calls[i].is = "refused" => times = 0
  <2> DEFINE P == {k \in DOMAIN handled : handled[k] = i}
  <2>1. calls[i].is = "ok" => P # {}
    BY <1>1 DEF TalkInv, CallsOK, Told, Served
  <2>2. calls[i].is = "refused" => P = {}
    BY <1>1 DEF TalkInv, CallsOK, Told, Served
  <2>3. \A k, m \in P : k = m
    <3> SUFFICES ASSUME NEW k \in P, NEW m \in P, k # m PROVE FALSE
      OBVIOUS
    <3>1. /\ k \in 1 .. Len(handled) /\ m \in 1 .. Len(handled)
          /\ handled[k] = i /\ handled[m] = i
      BY <1>1
    <3>2. k < m \/ m < k
      BY <3>1
    <3>3. i < i
      BY <3>1, <3>2, <1>2
    <3> QED
      BY <3>3
  <2>4. CASE P = {}
    BY <2>1, <2>4, FS_EmptySet
  <2>5. CASE P # {}
    <3>1. PICK k : P = {k}
      BY <2>3, <2>5
    <3>2. Cardinality(P) = 1
      BY <3>1, FS_Singleton
    <3> QED
      BY <3>2, <2>2, <2>5
  <2> QED
    BY <2>4, <2>5
<1> QED
  BY <1>1, <1>2, <1>3 DEF AnsweredMeansDone

LEMMA TalkTypesFollow ==
    ASSUME TalkInv
    PROVE  ConnTypeOK
<1>1. /\ TalkTyped /\ Sockets = 1 .. Len(sock) /\ CallIds = 1 .. Len(calls)
      /\ DOMAIN handled = 1 .. Len(handled)
  BY DEF TalkInv, TalkTyped, Sockets, CallIds
<1>2. ASSUME NEW s \in 1 .. Len(sock)
      PROVE  /\ sock[s].client \in Peers
             /\ sock[s].near \in {"hello", "open", "closed"}
             /\ sock[s].far \in {"hello", "open", "closed"}
             /\ sock[s].near = "open" => sock[s].far # "hello"
             /\ sock[s].busy # 0 => sock[s].far = "open" /\ calls[sock[s].busy].on = s
  BY SocketIs DEF SocketOK, EndStates, MadeOn
<1>3. ASSUME NEW i \in 1 .. Len(calls)
      PROVE  calls[i].is \in {"waiting", "ok", "refused", "lost"}
  <2>1. calls[i] \in CallType
    BY <1>1 DEF TalkTyped
  <2> QED
    BY <2>1 DEF CallType, CallEnds
<1>4. \A k \in 1 .. Len(handled) : handled[k] \in 1 .. Len(calls)
  BY DEF TalkInv, HandledOK
<1> QED
  BY <1>1, <1>2, <1>3, <1>4 DEF TalkTyped, ConnTypeOK

--------------------------------------------------------------------------------
(* The LAN listener.                                                           *)

AskVerbs == {"none", "enable", "disable", "pair"}
AskSteps == {"done", "bind", "stop", "hold", "on", "port", "off", "read", "mint"}
AskType  == [verb : AskVerbs, at : AskSteps, port : Ports \cup {NoPort}]

AskOK(a) ==
    /\ a.at = "done" => a = NoAsk
    /\ a.at \in {"bind", "hold", "on", "port"} => a.port \in Ports /\ a.verb # "disable"
    /\ a.at = "mint" => a.port \in Ports
    /\ a.at = "stop" => a.verb = "disable" \/ a.port \in Ports

LanTyped ==
    /\ daemonUp \in BOOLEAN /\ enabled \in BOOLEAN /\ lanApart \in BOOLEAN
    /\ serving \subseteq Ports \ foreign /\ foreign \subseteq Ports
    /\ inner \in serving \cup {NoPort} /\ lanPort \in Ports \cup {NoPort}
    /\ pairing \in [Phones -> {"none", "live", "revoked"}]
    /\ address \in [Phones -> Ports \cup {NoPort}]
    /\ \A t \in Phones : address[t] = NoPort <=> pairing[t] = "none"
    /\ linked \subseteq {t \in Phones : pairing[t] # "none"}
    /\ promised \subseteq {t \in Phones : pairing[t] = "live"}
    /\ ask \in [Owners -> AskType] /\ \A o \in Owners : AskOK(ask[o])
    /\ ~daemonUp => serving = {} /\ linked = {} /\ Quiet
    /\ asks \in 0 .. MaxAsks /\ stops \in 0 .. MaxStops

\* A request that has bound its port and not yet stored the handle.
Claims(a) == a.at \in {"stop", "hold"} /\ a.verb # "disable"

\* Such a port is nobody else's: not the held handle's, not another request's.
ClaimsOK ==
    /\ \A o \in Owners : Claims(ask[o]) => ask[o].port \in serving \ {inner}
    /\ \A o, u \in Owners :
         Claims(ask[o]) /\ Claims(ask[u]) /\ ask[o].port = ask[u].port => o = u

Matches == serving = {inner} \ {NoPort}
Settled == Matches /\ serving = (IF enabled THEN {PersistedPort} ELSE {})

\* How far the one request that runs has brought listener and settings.
Stage(a) ==
    /\ a.at \in {"bind", "read", "mint"} => Settled
    /\ a.at = "stop" /\ a.verb = "disable" => Matches
    /\ a.at = "stop" /\ a.verb # "disable" => serving = ({inner} \ {NoPort}) \cup {a.port}
    /\ a.at = "hold" => serving = {a.port} /\ inner = NoPort
    /\ a.at = "off" => serving = {} /\ inner = NoPort
    /\ a.at \in {"on", "port"} => serving = {a.port} /\ inner = a.port
    /\ a.at = "port" => enabled

ToggleInv ==
    daemonUp /\ lanApart =>
        /\ \A o, u \in Owners : ask[o] # NoAsk /\ ask[u] # NoAsk => o = u
        /\ Quiet => Settled
        /\ \A o \in Owners : Stage(ask[o])

LanInv == LanTyped /\ ClaimsOK /\ ToggleInv

LEMMA LanStarts == LanInit => LanInv
<1> SUFFICES ASSUME LanInit PROVE LanInv
  OBVIOUS
<1>1. /\ daemonUp = TRUE /\ serving = {} /\ inner = NoPort /\ enabled = FALSE /\ lanPort = NoPort
      /\ foreign = {} /\ pairing = [t \in Phones |-> "none"] /\ linked = {}
      /\ address = [t \in Phones |-> NoPort] /\ ask = [o \in Owners |-> NoAsk]
      /\ asks = 0 /\ stops = 0 /\ lanApart = TRUE /\ promised = {}
  BY DEF LanInit
<1>2. {MaxAsks, MaxStops} \subseteq Nat
  BY LanAccessAssumption DEF LanAccessAssumption
<1>3. asks \in 0 .. MaxAsks /\ stops \in 0 .. MaxStops
  BY <1>1, <1>2
<1>4. NoAsk \in AskType /\ AskOK(NoAsk) /\ ~Claims(NoAsk) /\ Stage(NoAsk)
  BY DEF NoAsk, AskType, AskVerbs, AskSteps, AskOK, Claims, Stage
<1>5. \A o \in Owners : ask[o] = NoAsk
  BY <1>1
<1>6. LanTyped
  BY <1>1, <1>3, <1>4, <1>5 DEF LanTyped
<1>7. ClaimsOK
  BY <1>4, <1>5 DEF ClaimsOK
<1>8. Settled
  BY <1>1 DEF Settled, Matches
<1>9. ToggleInv
  BY <1>4, <1>5, <1>8 DEF ToggleInv
<1> QED
  BY <1>6, <1>7, <1>9 DEF LanInv

\* A step of the request of o, which goes on as a: what it owes to the others is that
\* their ports stay theirs, and, when it runs alone, that it brings listener and
\* settings where a says.
LEMMA RequestStep ==
    ASSUME LanInv, NEW o \in Owners, NEW a \in AskType, AskOK(a), ask[o] # NoAsk,
           ask' = [ask EXCEPT ![o] = a],
           UNCHANGED << daemonUp, foreign, linked, asks, stops, lanApart >>,
           enabled' \in BOOLEAN, lanPort' \in Ports \cup {NoPort},
           serving' \subseteq Ports \ foreign, inner' \in serving' \cup {NoPort},
           pairing' \in [Phones -> {"none", "live", "revoked"}],
           address' \in [Phones -> Ports \cup {NoPort}],
           \A t \in Phones : address'[t] = NoPort <=> pairing'[t] = "none",
           \A t \in Phones : pairing[t] # "none" => pairing'[t] # "none",
           promised' \subseteq {t \in Phones : pairing'[t] = "live"},
           \A u \in Owners \ {o} : Claims(ask[u]) => ask[u].port \in serving' \ {inner'},
           Claims(a) => a.port \in serving' \ {inner'},
           Claims(a) /\ ~Claims(ask[o]) => a.port \notin serving,
           Claims(a) /\ Claims(ask[o]) => a.port = ask[o].port,
           lanApart => (Stage(a)' /\ (a = NoAsk => Settled'))
    PROVE  LanInv'
<1>1. /\ LanTyped /\ ClaimsOK /\ ToggleInv
      /\ ask \in [Owners -> AskType] /\ \A u \in Owners : AskOK(ask[u])
  BY DEF LanInv, LanTyped
<1>2. /\ ask' \in [Owners -> AskType] /\ ask'[o] = a
      /\ \A u \in Owners : u # o => ask'[u] = ask[u]
  BY <1>1
<1>3. daemonUp
  BY <1>1 DEF LanTyped, Quiet
<1>4. LanTyped'
  <2>1. \A u \in Owners : AskOK(ask'[u])
    BY <1>1, <1>2
  <2>2. \A u \in Owners : AskOK(ask[u])'
    BY <2>1 DEF AskOK
  <2>3. linked' \subseteq {t \in Phones : pairing'[t] # "none"}
    BY <1>1 DEF LanTyped
  <2> QED
    BY <2>2, <2>3, <1>1, <1>2, <1>3 DEF LanTyped
<1>5. ClaimsOK'
  <2>1. \A u \in Owners : Claims(ask'[u]) => ask'[u].port \in serving' \ {inner'}
    BY <1>2
  <2>2. ASSUME NEW u \in Owners, u # o, Claims(ask[u]), Claims(a)
        PROVE  ask[u].port # a.port
    <3>1. ask[u].port \in serving
      BY <2>2, <1>1 DEF ClaimsOK
    <3>2. Claims(ask[o]) => ask[u].port # ask[o].port
      BY <2>2, <1>1 DEF ClaimsOK
    <3> QED
      BY <3>1, <3>2, <2>2
  <2>3. ASSUME NEW u \in Owners, NEW w \in Owners, Claims(ask'[u]), Claims(ask'[w]),
               ask'[u].port = ask'[w].port
        PROVE  u = w
    <3>1. CASE u = o /\ w # o
      BY <3>1, <2>2, <2>3, <1>2
    <3>2. CASE u # o /\ w = o
      BY <3>2, <2>2, <2>3, <1>2
    <3>3. CASE u # o /\ w # o
      BY <3>3, <2>3, <1>1, <1>2 DEF ClaimsOK
    <3> QED
      BY <3>1, <3>2, <3>3
  <2> QED
    BY <2>1, <2>3 DEF ClaimsOK, Claims
<1>6. ToggleInv'
  <2> SUFFICES ASSUME lanApart
               PROVE  /\ \A u, w \in Owners : ask'[u] # NoAsk /\ ask'[w] # NoAsk => u = w
                      /\ Quiet' => Settled'
                      /\ \A u \in Owners : Stage(ask[u])'
    BY DEF ToggleInv, NoAsk
  <2>1. \A u \in Owners : u # o => ask[u] = NoAsk
    BY <1>1, <1>3 DEF ToggleInv
  <2>2. \A u \in Owners : u # o => ask'[u] = NoAsk
    BY <2>1, <1>2
  <2>3. ASSUME NEW u \in Owners PROVE Stage(ask[u])'
    <3>1. CASE u = o
      BY <3>1, <1>2 DEF Stage
    <3>2. CASE u # o
      BY <3>2, <2>2 DEF Stage, NoAsk
    <3> QED
      BY <3>1, <3>2
  <2>4. Quiet' => a = NoAsk
    BY <1>2 DEF Quiet, NoAsk
  <2> QED
    BY <2>2, <2>3, <2>4, <1>2
<1> QED
  BY <1>4, <1>5, <1>6 DEF LanInv

\* A request that comes in: it has no port yet, and runs alone when all was quiet.
LEMMA LanAsks ==
    ASSUME LanInv, NEW o \in Owners, NEW verb \in {"enable", "disable", "pair"},
           NEW at \in {"bind", "stop", "read"}, NEW port \in Ports \cup {NoPort},
           at = "stop" <=> verb = "disable", at = "bind" => port \in Ports,
           Asks(o, verb, at, port)
    PROVE  LanInv'
<1> DEFINE a == [verb |-> verb, at |-> at, port |-> port]
<1>1. /\ LanTyped /\ ClaimsOK /\ ToggleInv
      /\ ask \in [Owners -> AskType] /\ \A u \in Owners : AskOK(ask[u])
  BY DEF LanInv, LanTyped
<1>2. /\ daemonUp /\ ask[o] = NoAsk /\ asks < MaxAsks /\ asks' = asks + 1
      /\ ask' = [ask EXCEPT ![o] = a] /\ lanApart' = (lanApart /\ Quiet)
      /\ UNCHANGED << daemonUp, serving, inner, enabled, lanPort, foreign, pairing, address,
                      linked, stops, promised >>
  BY DEF Asks, lanSettings
<1>3. a \in AskType /\ AskOK(a) /\ ~Claims(a) /\ a # NoAsk
  <2>1. a.verb = verb /\ a.at = at /\ a.port = port
    OBVIOUS
  <2>2. a \in AskType
    BY DEF AskType, AskVerbs, AskSteps
  <2>3. AskOK(a) /\ ~Claims(a)
    BY <2>1 DEF AskOK, Claims
  <2>4. a.at # NoAsk.at
    BY <2>1 DEF NoAsk
  <2> QED
    BY <2>2, <2>3, <2>4
<1>4. (a.at \in {"bind", "read"} \/ (a.at = "stop" /\ a.verb = "disable"))
  OBVIOUS
<1> HIDE DEF a
<1>5. /\ ask' \in [Owners -> AskType] /\ ask'[o] = a
      /\ \A u \in Owners : u # o => ask'[u] = ask[u]
  BY <1>1, <1>2, <1>3
<1>6. asks' \in 0 .. MaxAsks
  <2>1. MaxAsks \in Nat /\ asks \in 0 .. MaxAsks
    BY <1>1, LanAccessAssumption DEF LanAccessAssumption, LanTyped
  <2> QED
    BY <2>1, <1>2
<1>7. LanTyped'
  <2>1. \A u \in Owners : AskOK(ask[u])'
    BY <1>1, <1>3, <1>5 DEF AskOK
  <2>2. lanApart' \in BOOLEAN
    BY <1>1, <1>2 DEF LanTyped, Quiet
  <2> QED
    BY <2>1, <2>2, <1>1, <1>2, <1>5, <1>6 DEF LanTyped
<1>8. ClaimsOK'
  <2>1. \A u \in Owners : Claims(ask'[u]) => u # o /\ Claims(ask[u]) /\ ask'[u] = ask[u]
    BY <1>3, <1>5
  <2>2. \A u \in Owners : Claims(ask'[u]) => ask'[u].port \in serving \ {inner}
    BY <2>1, <1>1 DEF ClaimsOK
  <2>3. \A u, w \in Owners :
          Claims(ask'[u]) /\ Claims(ask'[w]) /\ ask'[u].port = ask'[w].port => u = w
    BY <2>1, <1>1 DEF ClaimsOK
  <2>4. serving' = serving /\ inner' = inner
    BY <1>2
  <2> QED
    BY <2>2, <2>3, <2>4 DEF ClaimsOK, Claims
<1>9. ToggleInv'
  <2> SUFFICES ASSUME lanApart'
               PROVE  /\ \A u, w \in Owners : ask'[u] # NoAsk /\ ask'[w] # NoAsk => u = w
                      /\ Quiet' => Settled'
                      /\ \A u \in Owners : Stage(ask[u])'
    BY DEF ToggleInv, NoAsk
  <2>1. lanApart /\ Quiet /\ Settled
    BY <1>1, <1>2 DEF ToggleInv
  <2>2. \A u \in Owners : u # o => ask'[u] = NoAsk
    BY <2>1, <1>5 DEF Quiet
  <2>3. Matches' /\ Settled'
    BY <2>1, <1>2 DEF Matches, Settled, PersistedPort
  <2>4. ASSUME NEW u \in Owners PROVE Stage(ask[u])'
    <3>1. CASE u = o
      BY <3>1, <2>3, <1>4, <1>5 DEF Stage
    <3>2. CASE u # o
      BY <3>2, <2>2 DEF Stage, NoAsk
    <3> QED
      BY <3>1, <3>2
  <2> QED
    BY <2>2, <2>3, <2>4
<1> QED
  BY <1>7, <1>8, <1>9 DEF LanInv

\* The request moves on, or is over.
LEMMA RequestGoes ==
    ASSUME LanTyped, NEW o \in Owners, NEW at \in AskSteps, GoesTo(o, at)
    PROVE  \E a \in AskType : /\ ask' = [ask EXCEPT ![o] = a]
                              /\ a.verb = ask[o].verb /\ a.at = at /\ a.port = ask[o].port
<1> DEFINE a == [ask[o] EXCEPT !.at = at]
<1>1. ask[o] \in AskType
  BY DEF LanTyped
<1>2. a \in AskType /\ a.verb = ask[o].verb /\ a.at = at /\ a.port = ask[o].port
  BY <1>1 DEF AskType
<1>3. ask' = [ask EXCEPT ![o] = a]
  BY DEF GoesTo
<1> HIDE DEF a
<1> QED
  BY <1>2, <1>3

LEMMA AskIs ==
    ASSUME LanInv, NEW o \in Owners
    PROVE  /\ LanTyped /\ ClaimsOK /\ ToggleInv
           /\ ask[o] \in AskType /\ AskOK(ask[o]) /\ ask[o].port \in Ports \cup {NoPort}
           /\ ask[o].verb \in AskVerbs /\ ask[o].at \in AskSteps
           /\ ask[o].at # "done" <=> ask[o] # NoAsk
           /\ NoAsk \in AskType /\ AskOK(NoAsk) /\ ~Claims(NoAsk) /\ Stage(NoAsk)
           /\ NoPort \notin Ports /\ DefaultPort \in Ports
<1>1. LanTyped /\ ClaimsOK /\ ToggleInv
  BY DEF LanInv
<1>2. ask[o] \in AskType /\ AskOK(ask[o])
  BY <1>1 DEF LanTyped
<1>3. NoAsk \in AskType /\ AskOK(NoAsk) /\ ~Claims(NoAsk) /\ Stage(NoAsk) /\ NoAsk.at = "done"
  BY DEF NoAsk, AskType, AskVerbs, AskSteps, AskOK, Claims, Stage
<1>4. ask[o].at # "done" <=> ask[o] # NoAsk
  BY <1>2, <1>3 DEF AskOK
<1> QED
  BY <1>1, <1>2, <1>3, <1>4, LanAccessAssumption DEF AskType, LanAccessAssumption

\* What holds for a request that runs alone.
LEMMA StageIs ==
    ASSUME LanInv, NEW o \in Owners, ask[o] # NoAsk, lanApart
    PROVE  Stage(ask[o])
BY DEF LanInv, LanTyped, Quiet, ToggleInv

LEMMA LanBinds ==
    ASSUME LanInv, NEW o \in Owners, Binds(o)
    PROVE  LanInv'
<1> DEFINE p == ask[o].port
<1>1. /\ ask[o].at = "bind"
      /\ \/ p \in serving \cup foreign /\ Replies(o) /\ serving' = serving
         \/ p \notin serving \cup foreign /\ GoesTo(o, "stop") /\ serving' = serving \cup {p}
      /\ UNCHANGED << daemonUp, inner, enabled, lanPort, foreign, pairing, address, linked, asks,
                      stops, lanApart, promised >>
  BY DEF Binds, lanSettings
<1>2. /\ LanTyped /\ ClaimsOK /\ ask[o] \in AskType /\ AskOK(ask[o]) /\ p \in Ports
      /\ ask[o].verb # "disable" /\ ask[o] # NoAsk
      /\ NoAsk \in AskType /\ AskOK(NoAsk) /\ ~Claims(NoAsk) /\ NoPort \notin Ports
  BY <1>1, AskIs DEF AskOK
<1>3. lanApart => Settled
  BY <1>1, <1>2, StageIs DEF Stage
<1>4. /\ serving' \subseteq Ports \ foreign /\ inner' \in serving' \cup {NoPort}
      /\ enabled' \in BOOLEAN /\ lanPort' \in Ports \cup {NoPort}
      /\ pairing' = pairing /\ address' = address /\ promised' = promised
      /\ pairing \in [Phones -> {"none", "live", "revoked"}]
      /\ address \in [Phones -> Ports \cup {NoPort}]
      /\ \A t \in Phones : address[t] = NoPort <=> pairing[t] = "none"
      /\ promised \subseteq {t \in Phones : pairing[t] = "live"}
  BY <1>1, <1>2 DEF LanTyped
<1>5. \A u \in Owners \ {o} : Claims(ask[u]) => ask[u].port \in serving' \ {inner'}
  BY <1>1, <1>2 DEF ClaimsOK
<1>6. CASE p \in serving \cup foreign
  <2>1. ask' = [ask EXCEPT ![o] = NoAsk] /\ serving' = serving
    BY <1>1, <1>6 DEF Replies
  <2>2. lanApart => Stage(NoAsk)' /\ Settled'
    BY <2>1, <1>1, <1>3 DEF Stage, NoAsk, Settled, Matches, PersistedPort
  <2> QED
    BY <2>1, <2>2, <1>1, <1>2, <1>4, <1>5, RequestStep
<1>7. CASE p \notin serving \cup foreign
  <2>1. PICK a \in AskType : /\ ask' = [ask EXCEPT ![o] = a]
                             /\ a.verb = ask[o].verb /\ a.at = "stop" /\ a.port = p
    BY <1>1, <1>2, <1>7, RequestGoes DEF AskSteps
  <2>2. AskOK(a) /\ a # NoAsk
    BY <2>1, <1>2 DEF AskOK, NoAsk
  <2>3. inner # p /\ inner' = inner /\ serving' = serving \cup {p}
    BY <1>1, <1>2, <1>7 DEF LanTyped
  <2>4. lanApart => Stage(a)'
    BY <2>1, <2>3, <1>1, <1>2, <1>3 DEF Stage, Settled, Matches
  <2>5. a.port \in serving' \ {inner'} /\ a.port \notin serving
    BY <2>1, <2>3, <1>7
  <2>6. ~Claims(ask[o])
    BY <1>1 DEF Claims
  <2> QED
    BY <2>1, <2>2, <2>4, <2>5, <2>6, <1>1, <1>2, <1>4, <1>5, RequestStep
<1> QED
  BY <1>6, <1>7

LEMMA LanStops ==
    ASSUME LanInv, NEW o \in Owners, StopsOld(o)
    PROVE  LanInv'
<1> DEFINE at == IF ask[o].verb = "disable" THEN "off" ELSE "hold"
<1>1. /\ ask[o].at = "stop" /\ serving' = serving \ {inner} /\ inner' = NoPort
      /\ GoesTo(o, at) /\ promised' \subseteq promised
      /\ UNCHANGED << daemonUp, enabled, lanPort, foreign, pairing, address, linked, asks,
                      stops, lanApart >>
  BY DEF StopsOld, lanSettings
<1>2. /\ LanTyped /\ ClaimsOK /\ ask[o] \in AskType /\ AskOK(ask[o])
      /\ ask[o] # NoAsk /\ NoPort \notin Ports
  BY <1>1, AskIs
<1>3. lanApart => Stage(ask[o])
  BY <1>2, StageIs
<1>4. PICK a \in AskType : /\ ask' = [ask EXCEPT ![o] = a]
                           /\ a.verb = ask[o].verb /\ a.at = at /\ a.port = ask[o].port
  BY <1>1, <1>2, RequestGoes DEF AskSteps
<1>5. AskOK(a) /\ a # NoAsk
  BY <1>1, <1>2, <1>4 DEF AskOK, NoAsk
<1>6. /\ serving' \subseteq Ports \ foreign /\ inner' \in serving' \cup {NoPort}
      /\ enabled' \in BOOLEAN /\ lanPort' \in Ports \cup {NoPort}
      /\ pairing' = pairing /\ address' = address /\ serving \subseteq Ports
      /\ pairing \in [Phones -> {"none", "live", "revoked"}]
      /\ address \in [Phones -> Ports \cup {NoPort}]
      /\ \A t \in Phones : address[t] = NoPort <=> pairing[t] = "none"
      /\ promised' \subseteq {t \in Phones : pairing[t] = "live"}
  BY <1>1, <1>2 DEF LanTyped
<1>7. \A u \in Owners : Claims(ask[u]) => ask[u].port \in serving' \ {inner'}
  BY <1>1, <1>2, <1>6 DEF ClaimsOK
<1>8. Claims(a) => Claims(ask[o]) /\ a.port = ask[o].port
  BY <1>1, <1>4 DEF Claims
<1>9. lanApart => Stage(a)'
  <2>1. CASE ask[o].verb = "disable"
    BY <2>1, <1>1, <1>3, <1>4 DEF Stage, Matches
  <2>2. CASE ask[o].verb # "disable"
    <3>1. ask[o].port # inner /\ ask[o].port \in Ports
      BY <2>2, <1>1, <1>2, <1>6 DEF ClaimsOK, Claims
    <3> QED
      BY <3>1, <2>2, <1>1, <1>2, <1>3, <1>4 DEF Stage
  <2> QED
    BY <2>1, <2>2
<1> QED
  BY <1>1, <1>2, <1>4, <1>5, <1>6, <1>7, <1>8, <1>9, RequestStep

LEMMA LanHolds ==
    ASSUME LanInv, NEW o \in Owners, Holds(o)
    PROVE  LanInv'
<1>1. /\ ask[o].at = "hold" /\ serving' = serving /\ inner' = ask[o].port
      /\ GoesTo(o, "on") /\ promised' \subseteq promised
      /\ UNCHANGED << daemonUp, enabled, lanPort, foreign, pairing, address, linked, asks,
                      stops, lanApart >>
  BY DEF Holds, lanSettings
<1>2. /\ LanTyped /\ ClaimsOK /\ ask[o] \in AskType /\ AskOK(ask[o])
      /\ ask[o] # NoAsk /\ NoPort \notin Ports
  BY <1>1, AskIs
<1>3. lanApart => Stage(ask[o])
  BY <1>2, StageIs
<1>4. PICK a \in AskType : /\ ask' = [ask EXCEPT ![o] = a]
                           /\ a.verb = ask[o].verb /\ a.at = "on" /\ a.port = ask[o].port
  BY <1>1, <1>2, RequestGoes DEF AskSteps
<1>5. AskOK(a) /\ a # NoAsk /\ ~Claims(a)
  BY <1>1, <1>2, <1>4 DEF AskOK, NoAsk, Claims
<1>6. Claims(ask[o])
  BY <1>1, <1>2 DEF AskOK, Claims
<1>7. ask[o].port \in serving
  BY <1>2, <1>6 DEF ClaimsOK
<1>8. /\ serving' \subseteq Ports \ foreign /\ inner' \in serving' \cup {NoPort}
      /\ enabled' \in BOOLEAN /\ lanPort' \in Ports \cup {NoPort}
      /\ pairing' = pairing /\ address' = address
      /\ pairing \in [Phones -> {"none", "live", "revoked"}]
      /\ address \in [Phones -> Ports \cup {NoPort}]
      /\ \A t \in Phones : address[t] = NoPort <=> pairing[t] = "none"
      /\ promised' \subseteq {t \in Phones : pairing[t] = "live"}
  BY <1>1, <1>2, <1>7 DEF LanTyped
<1>9. \A u \in Owners \ {o} : Claims(ask[u]) => ask[u].port \in serving' \ {inner'}
  BY <1>1, <1>2, <1>6 DEF ClaimsOK
<1>10. lanApart => Stage(a)'
  BY <1>1, <1>3, <1>4 DEF Stage
<1> QED
  BY <1>1, <1>2, <1>4, <1>5, <1>8, <1>9, <1>10, RequestStep

\* The settings change with listener and pairings as they are.
LEMMA SettingsStep ==
    ASSUME LanInv, NEW o \in Owners, NEW a \in AskType, AskOK(a), ~Claims(a), ask[o] # NoAsk,
           ask' = [ask EXCEPT ![o] = a], enabled' \in BOOLEAN, lanPort' \in Ports \cup {NoPort},
           UNCHANGED << daemonUp, serving, inner, foreign, pairing, address, linked, asks, stops,
                        lanApart, promised >>,
           lanApart => (Stage(a)' /\ (a = NoAsk => Settled'))
    PROVE  LanInv'
<1>1. LanTyped /\ ClaimsOK
  BY DEF LanInv
<1>2. /\ serving' \subseteq Ports \ foreign /\ inner' \in serving' \cup {NoPort}
      /\ pairing' = pairing /\ address' = address
      /\ pairing \in [Phones -> {"none", "live", "revoked"}]
      /\ address \in [Phones -> Ports \cup {NoPort}]
      /\ \A t \in Phones : address[t] = NoPort <=> pairing[t] = "none"
      /\ promised' \subseteq {t \in Phones : pairing[t] = "live"}
  BY <1>1 DEF LanTyped
<1>3. \A u \in Owners : Claims(ask[u]) => ask[u].port \in serving' \ {inner'}
  BY <1>1 DEF ClaimsOK
<1> QED
  BY <1>2, <1>3, RequestStep

LEMMA LanSetsOn ==
    ASSUME LanInv, NEW o \in Owners, SetsOn(o)
    PROVE  LanInv'
<1>1. /\ ask[o].at = "on" /\ enabled' = TRUE /\ GoesTo(o, "port")
      /\ UNCHANGED << daemonUp, serving, inner, lanPort, foreign, pairing, address, linked,
                      asks, stops, lanApart, promised >>
  BY DEF SetsOn
<1>2. /\ LanTyped /\ ask[o] \in AskType /\ AskOK(ask[o]) /\ ask[o] # NoAsk
  BY <1>1, AskIs
<1>3. lanApart => Stage(ask[o])
  BY <1>2, StageIs
<1>4. PICK a \in AskType : /\ ask' = [ask EXCEPT ![o] = a]
                           /\ a.verb = ask[o].verb /\ a.at = "port" /\ a.port = ask[o].port
  BY <1>1, <1>2, RequestGoes DEF AskSteps
<1>5. AskOK(a) /\ a # NoAsk /\ ~Claims(a)
  BY <1>1, <1>2, <1>4 DEF AskOK, NoAsk, Claims
<1>6. lanApart => Stage(a)'
  BY <1>1, <1>3, <1>4 DEF Stage
<1>7. enabled' \in BOOLEAN /\ lanPort' \in Ports \cup {NoPort}
  BY <1>1, <1>2 DEF LanTyped
<1> QED
  BY <1>1, <1>2, <1>4, <1>5, <1>6, <1>7, SettingsStep

LEMMA LanSetsPort ==
    ASSUME LanInv, NEW o \in Owners, SetsPort(o)
    PROVE  LanInv'
<1> DEFINE p == ask[o].port
<1>1. /\ ask[o].at = "port" /\ lanPort' = p
      /\ \/ ask[o].verb = "pair" /\ GoesTo(o, "read")
         \/ Replies(o)
      /\ UNCHANGED << daemonUp, serving, inner, enabled, foreign, pairing, address, linked,
                      asks, stops, lanApart, promised >>
  BY DEF SetsPort
<1>2. /\ LanTyped /\ ask[o] \in AskType /\ AskOK(ask[o]) /\ ask[o] # NoAsk /\ NoPort \notin Ports
      /\ NoAsk \in AskType /\ AskOK(NoAsk) /\ ~Claims(NoAsk) /\ p \in Ports
  BY <1>1, AskIs DEF AskOK
<1>3. lanApart => Matches' /\ Settled'
  <2>1. lanApart => serving = {p} /\ inner = p /\ enabled
    BY <1>1, <1>2, StageIs DEF Stage
  <2>2. PersistedPort' = p
    BY <1>1, <1>2 DEF PersistedPort
  <2> QED
    BY <2>1, <2>2, <1>1, <1>2 DEF Matches, Settled
<1>4. enabled' \in BOOLEAN /\ lanPort' \in Ports \cup {NoPort}
  BY <1>1, <1>2 DEF LanTyped
<1>5. CASE Replies(o)
  <2>1. ask' = [ask EXCEPT ![o] = NoAsk]
    BY <1>5 DEF Replies
  <2>2. Stage(NoAsk)'
    BY DEF Stage, NoAsk
  <2> QED
    BY <2>1, <2>2, <1>1, <1>2, <1>3, <1>4, SettingsStep
<1>6. CASE ask[o].verb = "pair" /\ GoesTo(o, "read")
  <2>1. PICK a \in AskType : /\ ask' = [ask EXCEPT ![o] = a]
                             /\ a.verb = ask[o].verb /\ a.at = "read" /\ a.port = p
    BY <1>6, <1>2, RequestGoes DEF AskSteps
  <2>2. AskOK(a) /\ a # NoAsk /\ ~Claims(a)
    BY <2>1 DEF AskOK, NoAsk, Claims
  <2>3. lanApart => Stage(a)'
    BY <2>1, <1>3 DEF Stage
  <2> QED
    BY <2>1, <2>2, <2>3, <1>1, <1>2, <1>4, SettingsStep
<1> QED
  BY <1>1, <1>5, <1>6

LEMMA LanSetsOff ==
    ASSUME LanInv, NEW o \in Owners, SetsOff(o)
    PROVE  LanInv'
<1>1. /\ ask[o].at = "off" /\ enabled' = FALSE /\ ask' = [ask EXCEPT ![o] = NoAsk]
      /\ UNCHANGED << daemonUp, serving, inner, lanPort, foreign, pairing, address, linked,
                      asks, stops, lanApart, promised >>
  BY DEF SetsOff, Replies
<1>2. /\ LanTyped /\ ask[o] # NoAsk
      /\ NoAsk \in AskType /\ AskOK(NoAsk) /\ ~Claims(NoAsk)
  BY <1>1, AskIs
<1>3. lanApart => serving = {} /\ inner = NoPort
  BY <1>1, <1>2, StageIs DEF Stage
<1>4. lanApart => Stage(NoAsk)' /\ Settled'
  BY <1>1, <1>3 DEF Stage, NoAsk, Settled, Matches
<1>5. enabled' \in BOOLEAN /\ lanPort' \in Ports \cup {NoPort}
  BY <1>1, <1>2 DEF LanTyped
<1> QED
  BY <1>1, <1>2, <1>4, <1>5, SettingsStep

LEMMA LanReads ==
    ASSUME LanInv, NEW o \in Owners, ReadsPort(o)
    PROVE  LanInv'
<1>1. /\ ask[o].at = "read"
      /\ ask' = [ask EXCEPT ![o].at = "mint",
                            ![o].port = IF inner = NoPort THEN PersistedPort ELSE inner]
      /\ UNCHANGED << daemonUp, serving, inner, enabled, lanPort, foreign, pairing, address,
                      linked, asks, stops, lanApart, promised >>
  BY DEF ReadsPort, lanSettings
<1>2. /\ LanTyped /\ ask[o] \in AskType /\ ask[o] # NoAsk /\ DefaultPort \in Ports
  BY <1>1, AskIs
<1>3. PICK p \in Ports : p = IF inner = NoPort THEN PersistedPort ELSE inner
  BY <1>2 DEF LanTyped, PersistedPort
<1>4. PICK a \in AskType : a.at = "mint" /\ a.port = p /\ ask' = [ask EXCEPT ![o] = a]
  <2> DEFINE r == [ask[o] EXCEPT !.at = "mint", !.port = p]
  <2>1. r \in AskType /\ r.at = "mint" /\ r.port = p
    BY <1>2 DEF AskType, AskSteps
  <2>2. ask' = [ask EXCEPT ![o] = r]
    BY <1>1, <1>3
  <2> HIDE DEF r
  <2> QED
    BY <2>1, <2>2
<1>6. AskOK(a) /\ ~Claims(a) /\ a # NoAsk
  BY <1>4 DEF AskOK, Claims, NoAsk
<1>7. lanApart => Settled
  BY <1>1, <1>2, StageIs DEF Stage
<1>8. lanApart => Stage(a)'
  BY <1>1, <1>4, <1>7 DEF Stage, Settled, Matches, PersistedPort
<1>9. enabled' \in BOOLEAN /\ lanPort' \in Ports \cup {NoPort}
  BY <1>1, <1>2 DEF LanTyped
<1> QED
  BY <1>1, <1>2, <1>4, <1>6, <1>8, <1>9, SettingsStep

LEMMA LanAdds ==
    ASSUME LanInv, NEW o \in Owners, AddsToken(o)
    PROVE  LanInv'
<1>1. /\ ask[o].at = "mint" /\ ask' = [ask EXCEPT ![o] = NoAsk]
      /\ UNCHANGED << daemonUp, serving, inner, enabled, lanPort, foreign, linked, asks, stops,
                      lanApart >>
  BY DEF AddsToken, Replies, lanSettings
<1>2. /\ LanTyped /\ ClaimsOK /\ ask[o] \in AskType /\ AskOK(ask[o]) /\ ask[o] # NoAsk
      /\ NoAsk \in AskType /\ AskOK(NoAsk) /\ ~Claims(NoAsk) /\ NoPort \notin Ports
  BY <1>1, AskIs
<1>3. ask[o].port \in Ports
  BY <1>1, <1>2 DEF AskOK
<1>4. PICK t \in Phones :
        /\ pairing[t] = "none" /\ pairing' = [pairing EXCEPT ![t] = "live"]
        /\ address' = [address EXCEPT ![t] = ask[o].port]
        /\ promised' \subseteq promised \cup {t}
  BY DEF AddsToken
<1>5. /\ serving' \subseteq Ports \ foreign /\ inner' \in serving' \cup {NoPort}
      /\ enabled' \in BOOLEAN /\ lanPort' \in Ports \cup {NoPort}
      /\ pairing \in [Phones -> {"none", "live", "revoked"}]
      /\ address \in [Phones -> Ports \cup {NoPort}]
      /\ \A u \in Phones : address[u] = NoPort <=> pairing[u] = "none"
      /\ promised \subseteq {u \in Phones : pairing[u] = "live"}
  BY <1>1, <1>2 DEF LanTyped
<1>6. /\ pairing' \in [Phones -> {"none", "live", "revoked"}]
      /\ address' \in [Phones -> Ports \cup {NoPort}]
      /\ \A u \in Phones : address'[u] = NoPort <=> pairing'[u] = "none"
      /\ \A u \in Phones : pairing[u] # "none" => pairing'[u] # "none"
      /\ promised' \subseteq {u \in Phones : pairing'[u] = "live"}
  BY <1>2, <1>3, <1>4, <1>5
<1>7. \A u \in Owners : Claims(ask[u]) => ask[u].port \in serving' \ {inner'}
  BY <1>1, <1>2 DEF ClaimsOK
<1>8. lanApart => Settled
  BY <1>1, <1>2, StageIs DEF Stage
<1>9. lanApart => Stage(NoAsk)' /\ Settled'
  BY <1>1, <1>8 DEF Stage, NoAsk, Settled, Matches, PersistedPort
<1> QED
  BY <1>1, <1>2, <1>5, <1>6, <1>7, <1>9, RequestStep

\* Listener, settings and requests rest.
LEMMA LanRests ==
    ASSUME LanInv, UNCHANGED << daemonUp, serving, inner, enabled, lanPort, ask, lanApart >>,
           LanTyped'
    PROVE  LanInv'
<1>1. ClaimsOK'
  BY DEF LanInv, ClaimsOK, Claims
<1>2. Settled' <=> Settled
  BY DEF Settled, Matches, PersistedPort
<1>3. ASSUME NEW o \in Owners PROVE Stage(ask[o])' <=> Stage(ask[o])
  BY <1>2 DEF Stage, Matches
<1>4. ToggleInv'
  BY <1>2, <1>3 DEF LanInv, ToggleInv, Quiet, NoAsk
<1> QED
  BY <1>1, <1>4 DEF LanInv

LEMMA LanOthers ==
    ASSUME LanInv,
           \/ \E o \in Owners, t \in Phones : LanRevoke(o, t)
           \/ \E t \in Phones : Handshake(t) \/ PhoneDrops(t)
           \/ OthersBind
           \/ UNCHANGED lanVars
    PROVE  LanInv'
<1>1. LanTyped
  BY DEF LanInv
<1>2. ASSUME NEW o \in Owners, NEW t \in Phones, LanRevoke(o, t) PROVE LanInv'
  <2>1. /\ daemonUp /\ pairing[t] = "live" /\ pairing' = [pairing EXCEPT ![t] = "revoked"]
        /\ promised' = promised \ {t}
        /\ UNCHANGED << daemonUp, serving, inner, enabled, lanPort, foreign, address, linked,
                        ask, asks, stops, lanApart >>
    BY <1>2 DEF LanRevoke, lanSettings
  <2>2. /\ pairing' \in [Phones -> {"none", "live", "revoked"}]
        /\ \A u \in Phones : pairing'[u] = "none" <=> pairing[u] = "none"
        /\ \A u \in Phones : u # t /\ pairing[u] = "live" => pairing'[u] = "live"
    BY <2>1, <1>1 DEF LanTyped
  <2>3. LanTyped'
    BY <2>1, <2>2, <1>1 DEF LanTyped, Quiet, NoAsk, AskOK
  <2> QED
    BY <2>1, <2>3, LanRests
<1>3. ASSUME NEW t \in Phones, Handshake(t) \/ PhoneDrops(t) PROVE LanInv'
  <2>1. /\ \/ linked' = linked \cup {t} /\ pairing[t] = "live" /\ address[t] \in serving
           \/ linked' = linked \ {t}
        /\ UNCHANGED << daemonUp, serving, inner, enabled, lanPort, foreign, pairing, address,
                        ask, asks, stops, lanApart, promised >>
    BY <1>3 DEF Handshake, PhoneDrops, lanSettings
  <2>2. LanTyped'
    BY <2>1, <1>1 DEF LanTyped, Quiet, NoAsk, AskOK
  <2> QED
    BY <2>1, <2>2, LanRests
<1>4. CASE OthersBind
  <2>1. /\ UNCHANGED << daemonUp, serving, inner, enabled, lanPort, pairing, address, linked,
                        ask, asks, stops, lanApart, promised >>
        /\ \E p \in Ports \ serving : foreign' = foreign \ {p} \/ foreign' = foreign \cup {p}
    BY <1>4 DEF OthersBind, lanSettings
  <2>2. serving' \subseteq Ports \ foreign' /\ foreign' \subseteq Ports
    BY <2>1, <1>1 DEF LanTyped
  <2>3. LanTyped'
    BY <2>1, <2>2, <1>1 DEF LanTyped, Quiet, NoAsk, AskOK
  <2> QED
    BY <2>1, <2>3, LanRests
<1>5. CASE UNCHANGED lanVars
  <2>1. UNCHANGED << daemonUp, serving, inner, enabled, lanPort, foreign, pairing, address,
                     linked, ask, asks, stops, lanApart, promised >>
    BY <1>5 DEF lanVars, lanSettings
  <2>2. LanTyped'
    BY <2>1, <1>1 DEF LanTyped, Quiet, NoAsk, AskOK
  <2> QED
    BY <2>1, <2>2, LanRests
<1> QED
  BY <1>2, <1>3, <1>4, <1>5

\* The daemon ends, and starts again as the settings say.
LEMMA LanRestarts ==
    ASSUME LanInv, Ends \/ Starts
    PROVE  LanInv'
<1>1. LanTyped
  BY DEF LanInv
<1>2. NoAsk \in AskType /\ AskOK(NoAsk) /\ ~Claims(NoAsk) /\ DefaultPort \in Ports /\ NoPort \notin Ports
  BY LanAccessAssumption
     DEF NoAsk, AskType, AskVerbs, AskSteps, AskOK, Claims, LanAccessAssumption
<1>3. ASSUME \A o \in Owners : ask'[o] = NoAsk PROVE ClaimsOK'
  BY <1>2, <1>3 DEF ClaimsOK, Claims
<1>4. CASE Ends
  <2>1. /\ daemonUp /\ stops < MaxStops /\ daemonUp' = FALSE /\ stops' = stops + 1
        /\ serving' = {} /\ inner' = NoPort /\ linked' = {}
        /\ ask' = [o \in Owners |-> NoAsk]
        /\ UNCHANGED << enabled, lanPort, foreign, pairing, address, asks, lanApart, promised >>
    BY <1>4 DEF Ends, lanSettings
  <2>2. stops' \in 0 .. MaxStops
    <3>1. MaxStops \in Nat /\ stops \in 0 .. MaxStops
      BY <1>1, LanAccessAssumption DEF LanAccessAssumption, LanTyped
    <3> QED
      BY <3>1, <2>1
  <2>3. \A o \in Owners : ask'[o] = NoAsk
    BY <2>1
  <2>4. ask' \in [Owners -> AskType] /\ (\A o \in Owners : AskOK(ask[o])') /\ Quiet'
    BY <2>1, <2>3, <1>2 DEF Quiet, NoAsk, AskOK
  <2>5. LanTyped'
    BY <2>1, <2>2, <2>4, <1>1 DEF LanTyped
  <2>6. ToggleInv'
    BY <2>1 DEF ToggleInv
  <2> QED
    BY <2>3, <2>5, <2>6, <1>3 DEF LanInv
<1>5. CASE Starts
  <2> DEFINE rebinds == enabled /\ PersistedPort \notin foreign
  <2>1. /\ ~daemonUp /\ daemonUp' = TRUE
        /\ serving' = IF rebinds THEN {PersistedPort} ELSE {}
        /\ inner' = IF rebinds THEN PersistedPort ELSE NoPort
        /\ lanApart' = (enabled => rebinds)
        /\ promised' = IF lanApart' THEN promised ELSE {}
        /\ UNCHANGED << enabled, lanPort, foreign, pairing, address, linked, ask, asks, stops >>
    BY <1>5 DEF Starts, lanSettings
  <2>2. /\ Quiet /\ linked = {} /\ PersistedPort \in Ports /\ rebinds \in BOOLEAN
        /\ (enabled => rebinds) \in BOOLEAN
    BY <2>1, <1>1, <1>2 DEF LanTyped, PersistedPort
  <2>3. \A o \in Owners : ask'[o] = NoAsk
    BY <2>1, <2>2 DEF Quiet
  <2>4. \A o \in Owners : AskOK(ask[o])'
    BY <2>3, <1>2 DEF NoAsk, AskOK
  <2>5. serving' \subseteq Ports \ foreign' /\ inner' \in serving' \cup {NoPort}
    BY <2>1, <2>2
  <2>6. promised' \subseteq promised
    BY <2>1
  <2>7. LanTyped'
    BY <2>1, <2>2, <2>4, <2>5, <2>6, <1>1 DEF LanTyped
  <2>8. PersistedPort' = PersistedPort
    BY <2>1 DEF PersistedPort
  <2>9. lanApart' => Settled'
    BY <2>1, <2>2, <2>8, <1>2 DEF Settled, Matches
  <2>10. \A o \in Owners : Stage(ask[o])'
    BY <2>3 DEF Stage, NoAsk
  <2>11. ToggleInv'
    BY <2>3, <2>9, <2>10 DEF ToggleInv, NoAsk
  <2> QED
    BY <2>3, <2>7, <2>11, <1>3 DEF LanInv
<1> QED
  BY <1>4, <1>5

LEMMA LanSteps ==
    ASSUME LanInv, LanNext \/ UNCHANGED lanVars
    PROVE  LanInv'
<1>1. LanTyped /\ DefaultPort \in Ports /\ NoPort \notin Ports
  BY LanAccessAssumption DEF LanInv, LanAccessAssumption
<1>2. PersistedPort \in Ports
  BY <1>1 DEF LanTyped, PersistedPort
<1>3. ASSUME NEW o \in Owners, LanEnable(o) \/ LanDisable(o) \/ LanPair(o) \/ PairHandler(o)
      PROVE  LanInv'
  <2>1. ASSUME LanEnable(o) PROVE LanInv'
    <3>1. PICK p \in Ports : Asks(o, "enable", "bind", p)
      BY <2>1, <1>2 DEF LanEnable
    <3> QED
      BY <3>1, LanAsks
  <2>2. ASSUME LanDisable(o) PROVE LanInv'
    BY <2>2, LanAsks DEF LanDisable
  <2>3. ASSUME LanPair(o) PROVE LanInv'
    BY <2>3, LanAsks DEF LanPair
  <2>4. ASSUME PairHandler(o) PROVE LanInv'
    <3>1. PICK p \in Ports : p = PersistedPort
      BY <1>2
    <3>2. Asks(o, "pair", "bind", p) \/ Asks(o, "pair", "read", NoPort)
      BY <2>4, <3>1 DEF PairHandler
    <3> QED
      BY <3>2, LanAsks
  <2> QED
    BY <1>3, <2>1, <2>2, <2>3, <2>4
<1>4. ASSUME NEW o \in Owners, LanRequest(o) PROVE LanInv'
  BY <1>4, LanBinds, LanStops, LanHolds, LanSetsOn, LanSetsPort, LanSetsOff, LanReads, LanAdds
  DEF LanRequest
<1> QED
  BY <1>3, <1>4, LanOthers, LanRestarts DEF LanNext

LEMMA LanTypesFollow ==
    ASSUME LanInv
    PROVE  LanTypeOK /\ ToggleIsTrue
<1>1. LanTypeOK
  BY DEF LanInv, LanTyped, LanTypeOK
<1>2. ToggleIsTrue
  BY DEF LanInv, ToggleInv, ToggleIsTrue, Settled, Matches
<1> QED
  BY <1>1, <1>2

\* No step gives a revoked pairing back, or lets its phone in.
LEMMA RevokedStays ==
    ASSUME LanInv, LanNext \/ UNCHANGED lanVars, NEW t \in Phones, pairing[t] = "revoked"
    PROVE  pairing'[t] = "revoked" /\ (t \in linked' => t \in linked)
<1>1. pairing \in [Phones -> {"none", "live", "revoked"}]
  BY DEF LanInv, LanTyped
<1>2. CASE \E o \in Owners : AddsToken(o)
  <2>1. \E u \in Phones : pairing[u] = "none" /\ pairing' = [pairing EXCEPT ![u] = "live"]
    BY <1>2 DEF AddsToken
  <2>2. linked' = linked
    BY <1>2 DEF AddsToken
  <2> QED
    BY <2>1, <2>2, <1>1
<1>3. CASE \E o \in Owners, u \in Phones : LanRevoke(o, u)
  <2>1. linked' = linked /\ \E u \in Phones : pairing' = [pairing EXCEPT ![u] = "revoked"]
    BY <1>3 DEF LanRevoke
  <2> QED
    BY <2>1, <1>1
<1>4. CASE \E u \in Phones : Handshake(u) \/ PhoneDrops(u)
  BY <1>4 DEF Handshake, PhoneDrops
<1>5. CASE Ends \/ Starts \/ OthersBind
  BY <1>5 DEF Ends, Starts, OthersBind
<1>6. CASE UNCHANGED lanVars
  BY <1>6 DEF lanVars
<1>7. CASE \E o \in Owners : LanEnable(o) \/ LanDisable(o) \/ LanPair(o) \/ PairHandler(o)
  BY <1>7 DEF LanEnable, LanDisable, LanPair, PairHandler, Asks
<1>8. CASE \E o \in Owners : \/ Binds(o) \/ StopsOld(o) \/ Holds(o) \/ SetsOn(o) \/ SetsPort(o)
                             \/ SetsOff(o) \/ ReadsPort(o)
  BY <1>8 DEF Binds, StopsOld, Holds, SetsOn, SetsPort, SetsOff, ReadsPort
<1> QED
  BY <1>2, <1>3, <1>4, <1>5, <1>6, <1>7, <1>8 DEF LanNext, LanRequest

--------------------------------------------------------------------------------
(* The parts together.                                                         *)

SuiteInv == TalkInv /\ BudgetInv /\ LanInv

LEMMA SuiteStarts == MCInit => SuiteInv
BY TalkStarts, BudgetStarts, LanStarts DEF MCInit, SuiteInv

LEMMA PartsStep ==
    ASSUME [MCNext]_<< part, parts >>
    PROVE  /\ ConnNext \/ UNCHANGED talkVars
           /\ BudgetNext \/ UNCHANGED budgetVars
           /\ LanNext \/ UNCHANGED lanVars
BY DEF MCNext, ConnectionPart, BudgetPart, LanPart, parts

LEMMA SuiteSteps ==
    ASSUME SuiteInv, [MCNext]_<< part, parts >>
    PROVE  SuiteInv'
BY PartsStep, TalkSteps, BudgetSteps, LanSteps DEF SuiteInv

LEMMA SuiteHolds == MCSpec => []SuiteInv
BY SuiteStarts, SuiteSteps, PTL DEF MCSpec

\* The variables of the connections, of the steer budget and of the LAN listener keep
\* their types: an answer is of a call that was made, a listener that is held accepts
\* on a port no other program has, a phone has an address when it was paired, and an
\* ended daemon serves nobody (protocol server.rs, steer.rs, lan.rs).
THEOREM ClientTypesCorrect == MCSpec => []ClientTypesOK
<1>1. SuiteInv => ClientTypesOK
  BY TalkTypesFollow, BudgetHolds, LanTypesFollow DEF SuiteInv, ClientTypesOK
<1> QED
  BY <1>1, SuiteHolds, PTL

\* A call answered with ok was done once, one refused was not done, on whatever of
\* its connections a client asked; no token reaches a verb its scope was not given
\* (server.rs, auth.rs); and no server of the Concertmaster's sends more steers in an
\* hour than its budget (SteerBudget::try_acquire of steer.rs).
THEOREM CallsStayTrue == MCSpec => []CallsAreTrue
<1>1. SuiteInv => CallsAreTrue
  BY AnswersFollow, ScopesFollow, BudgetHolds DEF SuiteInv, CallsAreTrue
<1> QED
  BY <1>1, SuiteHolds, PTL

\* With no daemon.lan.* request running, and none that met another since the daemon
\* started, the daemon listens on the LAN exactly when LAN_ENABLED says so, at the
\* kept port and nowhere else, whatever crashed between a request's steps
\* (LanListener of lan.rs, the rebind of server.rs).
THEOREM ToggleStaysTrue == MCSpec => []ToggleIsTrue
<1>1. SuiteInv => ToggleIsTrue
  BY LanTypesFollow DEF SuiteInv
<1> QED
  BY <1>1, SuiteHolds, PTL

\* A revoked pairing is revoked for good, and its phone opens no connection again
\* (resolve_phone_token of store/phone.rs finds live rows only).
THEOREM RevokedPhonesStayOut == MCSpec => RevokedStaysOut
<1>1. SuiteInv /\ [MCNext]_<< part, parts >>
        => [\A t \in Phones : pairing[t] = "revoked" =>
               pairing'[t] = "revoked" /\ (t \in linked' => t \in linked)]_lanVars
  BY PartsStep, RevokedStays DEF SuiteInv
<1> QED
  BY <1>1, SuiteHolds, PTL DEF MCSpec, RevokedStaysOut
================================================================================
