-------------------------- MODULE RateLimiterProofs --------------------------
(***************************************************************************)
(* Proofs of RateLimitProperties, for any keys, limits, windows and times. *)
(*                                                                         *)
(* The argument: the windows of a key are at least Window apart, and the   *)
(* admissions within one window have different ranks.  An interval as long *)
(* as a window meets at most two of them, of the earlier one not its first *)
(* admission: so at most Limit admissions of the later and Limit - 1 of    *)
(* the earlier window fall into it.                                        *)
(***************************************************************************)
EXTENDS RateLimitProperties, FiniteSetTheorems, TLAPS

(* The history is that of admissions which happened. *)
Recorded(k) ==
  /\ IsFiniteSet(admitted[k])
  /\ \A a \in admitted[k] : a[1] <= now

(* The first admissions of two windows. *)
WindowsApart(k) ==
  \A a, b \in admitted[k] :
    (a[2] = 1 /\ b[2] = 1 /\ a[1] <= b[1]) => a = b \/ a[1] + Window[k] <= b[1]

(* Of two admissions of one rank, the later one is of a later window. *)
RanksApart(k) ==
  \A a, b \in admitted[k] :
    (a[2] = b[2] /\ a[1] <= b[1] /\ a # b) =>
      \E d \in admitted[k] : d[2] = 1 /\ a[1] < d[1] /\ d[1] <= b[1]

(* Without an entry every window of the key is over. *)
Vacant(k) ==
  store[k] = None =>
    /\ retryAt[k] <= now
    /\ \A a \in admitted[k] : a[1] < now /\ (a[2] = 1 => a[1] + Window[k] <= now)

(* An entry stands for the admissions of its window, and bounds the others. *)
Current(k) ==
  store[k] # None =>
    LET opened == store[k].expiresAt - Window[k] IN
    /\ 0 <= opened /\ opened <= now
    /\ <<opened, 1>> \in admitted[k]
    /\ \A c \in 1..store[k].count : \E a \in admitted[k] : a[2] = c /\ opened <= a[1]
    /\ \A a \in admitted[k] :
         /\ a[1] < store[k].expiresAt
         /\ a[2] = 1 => a[1] <= opened
         /\ a[2] > store[k].count => a[1] < opened
    /\ retryAt[k] = store[k].expiresAt \/ retryAt[k] <= opened

KeyOK(k) ==
  Recorded(k) /\ WindowsApart(k) /\ RanksApart(k) /\ Vacant(k) /\ Current(k)

IInv == TypeOK /\ \A k \in Keys : KeyOK(k)

-----------------------------------------------------------------------------
(* Limits, windows and entries of a key. *)
LEMMA KeyFacts ==
  ASSUME NEW k \in Keys
  PROVE  /\ Limit[k] \in Nat /\ 1 <= Limit[k] /\ Window[k] \in Nat /\ 1 <= Window[k]
         /\ \A entry \in Entry(k) : /\ entry # None /\ entry.count \in 1..Limit[k] /\ entry.expiresAt \in Nat
                                    /\ entry = [count |-> entry.count, expiresAt |-> entry.expiresAt]
  BY LimitsPositive DEF Entry

LEMMA InitIInv == Init => IInv
<1> SUFFICES ASSUME Init PROVE IInv
  OBVIOUS
<1>1. TypeOK
  BY DEF Init, TypeOK
<1>2. ASSUME NEW k \in Keys PROVE KeyOK(k)
  <2>1. store[k] = None /\ admitted[k] = {} /\ retryAt[k] = 0 /\ now = 0
    BY DEF Init
  <2>2. IsFiniteSet(admitted[k])
    BY <2>1, FS_EmptySet
  <2>3. QED BY <2>1, <2>2 DEF KeyOK, Recorded, WindowsApart, RanksApart, Vacant, Current
<1>3. QED BY <1>1, <1>2 DEF IInv

-----------------------------------------------------------------------------
(* What a check does to one key. *)

Live(k) == store[k] # None /\ now < store[k].expiresAt

(* An expired entry, or none, gives way to an admission of a new window. *)
Opens(k) ==
  /\ ~Live(k)
  /\ store'[k] = [count |-> 1, expiresAt |-> now + Window[k]]
  /\ admitted'[k] = admitted[k] \cup {<<now, 1>>}
  /\ retryAt'[k] = retryAt[k]

Counts(k) ==
  /\ Live(k) /\ store[k].count < Limit[k]
  /\ store'[k] = [count |-> store[k].count + 1, expiresAt |-> store[k].expiresAt]
  /\ admitted'[k] = admitted[k] \cup {<<now, store[k].count + 1>>}
  /\ retryAt'[k] = retryAt[k]

Refuses(k) ==
  /\ Live(k) /\ store[k].count = Limit[k]
  /\ store'[k] = store[k]
  /\ admitted'[k] = admitted[k]
  /\ retryAt'[k] = store[k].expiresAt

(* The check was about other keys. *)
Sweeps(k) ==
  /\ store'[k] = IF Live(k) THEN store[k] ELSE None
  /\ admitted'[k] = admitted[k]
  /\ retryAt'[k] = retryAt[k]

(* What check(k) makes of the entry of k. *)
Checked(k) ==
  IF ~Live(k) THEN [count |-> 1, expiresAt |-> now + Window[k]]
  ELSE IF store[k].count < Limit[k]
  THEN [count |-> store[k].count + 1, expiresAt |-> store[k].expiresAt]
  ELSE store[k]

LEMMA SweptAt ==
  ASSUME TypeOK, NEW k \in Keys
  PROVE  /\ Swept(store)[k] = IF Live(k) THEN store[k] ELSE None
         /\ store[k] \in Entry(k) \cup {None}
         /\ Live(k) => store[k] \in Entry(k) /\ Swept(store)[k] # None
         /\ Allowed(store, k) = (Live(k) => store[k].count < Limit[k])
<1>1. store[k] \in Entry(k) \cup {None} /\ now \in Nat
  BY DEF TypeOK
<1>2. Swept(store)[k] = IF Live(k) THEN store[k] ELSE None
  BY <1>1, KeyFacts DEF Swept, Expired, Live
<1>3. QED BY <1>1, <1>2 DEF Allowed, Live

LEMMA CountedAt ==
  ASSUME TypeOK, NEW k \in Keys, NEW j \in Keys
  PROVE  /\ Counted(store, k)[j] = IF j = k THEN Checked(k) ELSE Swept(store)[j]
         /\ Swept(Counted(store, k))[j] = Counted(store, k)[j]
<1>1. Counted(store, k)[j] = IF j = k THEN Checked(k) ELSE Swept(store)[j]
  <2>1. CASE ~Live(k)
    <3>1. Swept(store)[k] = None
      BY <2>1, SweptAt
    <3>2. QED BY <2>1, <3>1 DEF Counted, Checked, Swept
  <2>2. CASE Live(k) /\ Allowed(store, k)
    <3>1. /\ Swept(store)[k] = store[k] /\ store[k] # None /\ store[k] \in Entry(k)
          /\ store[k].count < Limit[k]
      BY <2>2, SweptAt, KeyFacts
    <3>2. PICK entry \in Entry(k) : entry = store[k]
      BY <3>1
    <3>3. [entry EXCEPT !.count = @ + 1] = [count |-> entry.count + 1, expiresAt |-> entry.expiresAt]
      BY DEF Entry
    <3>4. Counted(store, k) = [Swept(store) EXCEPT ![k].count = @ + 1]
      BY <2>2, <3>1 DEF Counted
    <3>5. Counted(store, k)[j] = IF j = k THEN [Swept(store)[k] EXCEPT !.count = @ + 1] ELSE Swept(store)[j]
      BY <3>4 DEF Swept
    <3>6. QED BY <2>2, <3>1, <3>2, <3>3, <3>5 DEF Checked
  <2>3. CASE Live(k) /\ ~Allowed(store, k)
    <3>1. /\ Swept(store)[k] = store[k] /\ store[k] # None /\ ~(store[k].count < Limit[k])
      BY <2>3, SweptAt, KeyFacts
    <3>2. QED BY <2>3, <3>1 DEF Counted, Checked, Swept
  <2>4. QED BY <2>1, <2>2, <2>3
<1>2. ~Expired(Counted(store, k)[j])
  <2>1. CASE j = k
    <3>1. now \in Nat /\ Window[k] \in Nat /\ 1 <= Window[k]
      BY KeyFacts DEF TypeOK
    <3>2. Checked(k).expiresAt > now
      BY <3>1, SweptAt DEF Checked, Live, Entry
    <3>3. QED BY <1>1, <2>1, <3>1, <3>2, SweptAt DEF Expired, Checked, Entry, Live
  <2>2. CASE j # k
    BY <1>1, <2>2, SweptAt DEF Expired, Live, Entry, TypeOK
  <2>3. QED BY <2>1, <2>2
<1>3. QED BY <1>1, <1>2 DEF Swept

LEMMA CountedElsewhere ==
  ASSUME NEW map, NEW k \in Keys, NEW j \in Keys \ {k}
  PROVE  Counted(map, k)[j] = Swept(map)[j]
  BY DEF Counted, Swept

LEMMA CountedBySwept ==
  ASSUME NEW map, NEW other, NEW k \in Keys, Swept(map)[k] = Swept(other)[k]
  PROVE  Counted(map, k)[k] = Counted(other, k)[k]
<1>1. Allowed(map, k) = Allowed(other, k)
  BY DEF Allowed
<1>2. ASSUME NEW m, Swept(m)[k] # None, Allowed(m, k)
      PROVE  Counted(m, k)[k] = [Swept(m)[k] EXCEPT !.count = @ + 1]
  BY <1>2 DEF Counted, Swept
<1>3. ASSUME NEW m, Swept(m)[k] = None
      PROVE  Counted(m, k)[k] = [count |-> 1, expiresAt |-> now + Window[k]]
  BY <1>3 DEF Counted, Swept
<1>4. ASSUME NEW m, Swept(m)[k] # None, ~Allowed(m, k)
      PROVE  Counted(m, k)[k] = Swept(m)[k]
  BY <1>4 DEF Counted
<1>5. QED BY <1>1, <1>2, <1>3, <1>4

LEMMA KeyOutcome ==
  ASSUME TypeOK, NEW k \in Keys, NEW checked,
         store'[k] = IF k \in checked THEN Checked(k) ELSE Swept(store)[k],
         Report(store, checked)
  PROVE  Opens(k) \/ Counts(k) \/ Refuses(k) \/ Sweeps(k)
<1>1. /\ Swept(store)[k] = IF Live(k) THEN store[k] ELSE None
      /\ Allowed(store, k) = (Live(k) => store[k].count < Limit[k])
      /\ Counted(store, k)[k] = Checked(k)
  BY SweptAt, CountedAt
<1>2. /\ admitted'[k] = IF k \in checked /\ Allowed(store, k)
                        THEN admitted[k] \cup {<<now, Checked(k).count>>} ELSE admitted[k]
      /\ retryAt'[k] = IF k \in checked /\ ~Allowed(store, k)
                       THEN Swept(store)[k].expiresAt ELSE retryAt[k]
  BY <1>1 DEF Report
<1>3. CASE k \notin checked
  BY <1>1, <1>2, <1>3 DEF Sweeps
<1>4. CASE k \in checked /\ ~Live(k)
  BY <1>1, <1>2, <1>4 DEF Opens, Checked
<1>5. CASE k \in checked /\ Live(k) /\ store[k].count < Limit[k]
  BY <1>1, <1>2, <1>5 DEF Counts, Checked
<1>6. CASE k \in checked /\ Live(k) /\ ~(store[k].count < Limit[k])
  <2>1. store[k].count = Limit[k]
    BY <1>6, SweptAt, KeyFacts
  <2>2. QED BY <1>1, <1>2, <1>6, <2>1 DEF Refuses, Checked
<1>7. QED BY <1>3, <1>4, <1>5, <1>6

LEMMA AskedOutcome ==
  ASSUME TypeOK, Asked
  PROVE  /\ now' = now /\ DOMAIN store' = Keys
         /\ \A k \in Keys : Opens(k) \/ Counts(k) \/ Refuses(k) \/ Sweeps(k)
<1>1. ASSUME NEW map, NEW k \in Keys PROVE DOMAIN Counted(map, k) = Keys
  BY DEF Counted, Swept
<1>2. ASSUME NEW k \in Keys, store' = Counted(store, k), Report(store, {k})
      PROVE  /\ DOMAIN store' = Keys
             /\ \A j \in Keys : Opens(j) \/ Counts(j) \/ Refuses(j) \/ Sweeps(j)
  <2>1. \A j \in Keys : store'[j] = IF j \in {k} THEN Checked(j) ELSE Swept(store)[j]
    BY <1>2, CountedAt
  <2>2. DOMAIN store' = Keys
    BY <1>1, <1>2
  <2>3. ASSUME NEW j \in Keys PROVE Opens(j) \/ Counts(j) \/ Refuses(j) \/ Sweeps(j)
    <3>1. store'[j] = IF j \in {k} THEN Checked(j) ELSE Swept(store)[j]
      BY <2>1
    <3>2. QED BY <1>2, <3>1, KeyOutcome
  <2>4. QED BY <2>2, <2>3
<1>3. ASSUME NEW k \in Addresses, NEW e \in Subjects,
             store' = Counted(Counted(store, k), e), Report(store, {k, e})
      PROVE  /\ DOMAIN store' = Keys
             /\ \A j \in Keys : Opens(j) \/ Counts(j) \/ Refuses(j) \/ Sweeps(j)
  <2>1. k \in Keys /\ e \in Keys /\ k # e
    BY KeysDistinct DEF Keys
  <2> DEFINE map == Counted(store, k)
  <2>2. \A j \in Keys : Swept(map)[j] = IF j = k THEN Checked(k) ELSE Swept(store)[j]
    BY <2>1, CountedAt
  <2>3. store' = Counted(map, e)
    BY <1>3
  <2> HIDE DEF map
  <2>4. store'[e] = Checked(e)
    BY <2>1, <2>2, <2>3, CountedBySwept, CountedAt
  <2>5. \A j \in Keys \ {e} : store'[j] = Swept(map)[j]
    BY <2>1, <2>3, CountedElsewhere
  <2>6. \A j \in Keys : store'[j] = IF j \in {k, e} THEN Checked(j) ELSE Swept(store)[j]
    BY <2>1, <2>2, <2>4, <2>5
  <2>7. DOMAIN store' = Keys
    BY <1>1, <2>1, <2>3
  <2>8. ASSUME NEW j \in Keys PROVE Opens(j) \/ Counts(j) \/ Refuses(j) \/ Sweeps(j)
    <3>1. store'[j] = IF j \in {k, e} THEN Checked(j) ELSE Swept(store)[j]
      BY <2>6
    <3>2. QED BY <1>3, <3>1, KeyOutcome
  <2>9. QED BY <2>7, <2>8
<1>4. Addresses \subseteq Keys
  BY DEF Keys
<1>5. QED
  BY <1>2, <1>3, <1>4 DEF Asked, CheckOne, CheckBoth

-----------------------------------------------------------------------------
(* Each outcome keeps the invariant of its key. *)

(* The part of the types that is about one key. *)
KeyTyped(k) ==
  /\ store[k] \in Entry(k) \cup {None}
  /\ admitted[k] \subseteq Nat \X (1..Limit[k])
  /\ retryAt[k] \in Nat
  /\ store[k] # None => store[k].expiresAt <= now + Window[k]

(* When the entry has expired, or there is none, every window is over.      *)
LEMMA OverWithoutEntry ==
  ASSUME IInv, NEW k \in Keys, ~Live(k)
  PROVE  /\ retryAt[k] <= now
         /\ \A a \in admitted[k] : a[1] < now /\ (a[2] = 1 => a[1] + Window[k] <= now)
<1>1. /\ now \in Nat /\ Window[k] \in Nat /\ 1 <= Window[k] /\ retryAt[k] \in Nat
      /\ \A a \in admitted[k] : a[1] \in Nat
      /\ store[k] \in Entry(k) \cup {None} /\ Vacant(k) /\ Current(k)
  BY KeyFacts DEF IInv, TypeOK, KeyOK
<1>2. CASE store[k] = None
  BY <1>1, <1>2 DEF Vacant
<1>3. CASE store[k] # None
  <2>1. store[k].expiresAt \in Nat /\ store[k].expiresAt <= now
    BY <1>1, <1>3, KeyFacts DEF Live
  <2>2. QED BY <1>1, <1>3, <2>1 DEF Current
<1>4. QED BY <1>2, <1>3

LEMMA OpensKeeps ==
  ASSUME IInv, NEW k \in Keys, now' = now, Opens(k)
  PROVE  KeyTyped(k)' /\ KeyOK(k)'
<1>1. /\ now \in Nat /\ Limit[k] \in Nat /\ 1 <= Limit[k] /\ Window[k] \in Nat /\ 1 <= Window[k]
      /\ admitted[k] \subseteq Nat \X (1..Limit[k]) /\ retryAt[k] \in Nat
      /\ store[k] \in Entry(k) \cup {None}
      /\ Recorded(k) /\ WindowsApart(k) /\ RanksApart(k) /\ Vacant(k) /\ Current(k)
  BY KeyFacts DEF IInv, TypeOK, KeyOK
<1>2. /\ store'[k] \in Entry(k) /\ store'[k] # None
      /\ store'[k].count = 1 /\ store'[k].expiresAt = now + Window[k]
  BY <1>1, KeyFacts DEF Opens, Entry
<1>3. /\ admitted'[k] = admitted[k] \cup {<<now, 1>>} /\ retryAt'[k] = retryAt[k]
  BY DEF Opens
<1>4. /\ retryAt[k] <= now
      /\ \A a \in admitted[k] : a[1] < now /\ (a[2] = 1 => a[1] + Window[k] <= now)
  BY OverWithoutEntry DEF Opens
<1>5. \A a \in admitted[k] : a[1] \in Nat /\ a[2] \in 1..Limit[k] /\ a = <<a[1], a[2]>>
  BY <1>1
<1>6. KeyTyped(k)'
  BY <1>1, <1>2, <1>3 DEF KeyTyped, Entry
<1>7. Recorded(k)'
  <2>1. IsFiniteSet(admitted[k] \cup {<<now, 1>>})
    BY <1>1, FS_AddElement DEF Recorded
  <2>2. QED BY <1>1, <1>3, <2>1 DEF Recorded
<1>8. WindowsApart(k)'
  BY <1>1, <1>3, <1>4, <1>5 DEF WindowsApart
<1>9. RanksApart(k)'
  BY <1>1, <1>3, <1>4, <1>5 DEF RanksApart
<1>10. Vacant(k)' /\ Current(k)'
  BY <1>1, <1>2, <1>3, <1>4, <1>5 DEF Vacant, Current
<1>11. QED BY <1>6, <1>7, <1>8, <1>9, <1>10 DEF KeyOK

LEMMA CountsKeeps ==
  ASSUME IInv, NEW k \in Keys, now' = now, Counts(k)
  PROVE  KeyTyped(k)' /\ KeyOK(k)'
<1>1. /\ now \in Nat /\ Limit[k] \in Nat /\ 1 <= Limit[k] /\ Window[k] \in Nat /\ 1 <= Window[k]
      /\ admitted[k] \subseteq Nat \X (1..Limit[k]) /\ retryAt[k] \in Nat
      /\ store[k] \in Entry(k) \cup {None}
      /\ store[k] # None => store[k].expiresAt <= now + Window[k]
      /\ Recorded(k) /\ WindowsApart(k) /\ RanksApart(k) /\ Vacant(k) /\ Current(k)
  BY KeyFacts DEF IInv, TypeOK, KeyOK
<1> DEFINE c == store[k].count
           e == store[k].expiresAt
<1>2. /\ store[k] # None /\ c \in 1..Limit[k] /\ e \in Nat /\ c < Limit[k] /\ now < e
      /\ e <= now + Window[k]
      /\ store'[k] = [count |-> c + 1, expiresAt |-> e]
      /\ admitted'[k] = admitted[k] \cup {<<now, c + 1>>} /\ retryAt'[k] = retryAt[k]
  BY <1>1, KeyFacts DEF Counts, Live
<1>3. /\ 0 <= e - Window[k] /\ e - Window[k] <= now
      /\ <<e - Window[k], 1>> \in admitted[k]
      /\ \A x \in 1..c : \E a \in admitted[k] : a[2] = x /\ e - Window[k] <= a[1]
      /\ \A a \in admitted[k] :
           /\ a[1] < e
           /\ a[2] = 1 => a[1] <= e - Window[k]
           /\ a[2] > c => a[1] < e - Window[k]
      /\ retryAt[k] = e \/ retryAt[k] <= e - Window[k]
  BY <1>1, <1>2 DEF Current
<1> HIDE DEF c, e
<1>4. store'[k] \in Entry(k) /\ store'[k] # None /\ store'[k].count = c + 1 /\ store'[k].expiresAt = e
  <2>1. store'[k] \in Entry(k)
    BY <1>1, <1>2 DEF Entry
  <2>2. QED BY <1>2, <2>1, KeyFacts
<1>5. \A a \in admitted[k] : a[1] \in Nat /\ a[2] \in 1..Limit[k] /\ a = <<a[1], a[2]>>
  BY <1>1
<1>6. KeyTyped(k)'
  BY <1>1, <1>2, <1>4 DEF KeyTyped, Entry
<1>7. Recorded(k)'
  <2>1. IsFiniteSet(admitted[k] \cup {<<now, c + 1>>})
    BY <1>1, FS_AddElement DEF Recorded
  <2>2. QED BY <1>1, <1>2, <2>1 DEF Recorded
<1>8. WindowsApart(k)'
  BY <1>1, <1>2, <1>5 DEF WindowsApart
<1>9. RanksApart(k)'
  <2>1. SUFFICES ASSUME NEW a \in admitted'[k], NEW b \in admitted'[k],
                        a[2] = b[2], a[1] <= b[1], a # b
                 PROVE  \E d \in admitted'[k] : d[2] = 1 /\ a[1] < d[1] /\ d[1] <= b[1]
    BY DEF RanksApart
  <2>2. CASE a \in admitted[k] /\ b \in admitted[k]
    BY <1>1, <1>2, <2>1, <2>2 DEF RanksApart
  <2>3. CASE a \in admitted[k] /\ b = <<now, c + 1>>
    <3>1. a[1] < e - Window[k]
      BY <1>2, <1>3, <1>5, <2>1, <2>3
    <3>2. <<e - Window[k], 1>> \in admitted'[k]
      BY <1>2, <1>3
    <3>3. QED BY <1>3, <2>3, <3>1, <3>2
  <2>4. CASE a = <<now, c + 1>> /\ b \in admitted[k]
    <3>1. b[1] < e - Window[k] /\ b[1] \in Nat
      BY <1>2, <1>3, <1>5, <2>1, <2>4
    <3>2. QED BY <1>1, <1>2, <1>3, <2>1, <2>4, <3>1
  <2>5. QED BY <1>2, <2>1, <2>2, <2>3, <2>4
<1>10. Vacant(k)'
  BY <1>4 DEF Vacant
<1>11. Current(k)'
  <2>1. \A x \in 1..(c + 1) : \E a \in admitted'[k] : a[2] = x /\ e - Window[k] <= a[1]
    <3>1. SUFFICES ASSUME NEW x \in 1..(c + 1)
                   PROVE  \E a \in admitted'[k] : a[2] = x /\ e - Window[k] <= a[1]
      OBVIOUS
    <3>2. CASE x \in 1..c
      BY <1>2, <1>3, <3>2
    <3>3. CASE x = c + 1
      <4>1. <<now, c + 1>> \in admitted'[k]
        BY <1>2
      <4>2. QED BY <1>3, <3>3, <4>1
    <3>4. QED BY <1>2, <3>2, <3>3
  <2>2. \A a \in admitted'[k] :
           /\ a[1] < e
           /\ a[2] = 1 => a[1] <= e - Window[k]
           /\ a[2] > c + 1 => a[1] < e - Window[k]
    BY <1>1, <1>2, <1>3, <1>5
  <2>3. <<e - Window[k], 1>> \in admitted'[k]
    BY <1>2, <1>3
  <2>4. QED BY <1>2, <1>3, <1>4, <2>1, <2>2, <2>3 DEF Current
<1>12. QED BY <1>6, <1>7, <1>8, <1>9, <1>10, <1>11 DEF KeyOK

LEMMA RefusesKeeps ==
  ASSUME IInv, NEW k \in Keys, now' = now, Refuses(k)
  PROVE  KeyTyped(k)' /\ KeyOK(k)'
<1>1. /\ KeyTyped(k) /\ now \in Nat /\ Recorded(k) /\ WindowsApart(k) /\ RanksApart(k)
      /\ Vacant(k) /\ Current(k)
  BY DEF IInv, TypeOK, KeyTyped, KeyOK
<1>2. /\ store[k] # None /\ store'[k] = store[k] /\ admitted'[k] = admitted[k]
      /\ retryAt'[k] = store[k].expiresAt /\ store[k].expiresAt \in Nat
  BY <1>1, KeyFacts DEF Refuses, Live, KeyTyped
<1>3. KeyTyped(k)'
  BY <1>1, <1>2 DEF KeyTyped, Entry
<1>4. Recorded(k)' /\ WindowsApart(k)' /\ RanksApart(k)'
  BY <1>1, <1>2 DEF Recorded, WindowsApart, RanksApart
<1>5. Vacant(k)' /\ Current(k)'
  BY <1>1, <1>2 DEF Vacant, Current
<1>6. QED BY <1>3, <1>4, <1>5 DEF KeyOK

LEMMA SweepsKeeps ==
  ASSUME IInv, NEW k \in Keys, now' = now, Sweeps(k)
  PROVE  KeyTyped(k)' /\ KeyOK(k)'
<1>1. /\ KeyTyped(k) /\ now \in Nat /\ Recorded(k) /\ WindowsApart(k) /\ RanksApart(k)
      /\ Vacant(k) /\ Current(k)
  BY DEF IInv, TypeOK, KeyTyped, KeyOK
<1>2. admitted'[k] = admitted[k] /\ retryAt'[k] = retryAt[k]
  BY DEF Sweeps
<1>3. store'[k] = store[k] \/ store'[k] = None
  BY DEF Sweeps
<1>4. KeyTyped(k)'
  BY <1>1, <1>2, <1>3 DEF KeyTyped, Entry
<1>5. Recorded(k)' /\ WindowsApart(k)' /\ RanksApart(k)'
  BY <1>1, <1>2 DEF Recorded, WindowsApart, RanksApart
<1>6. Vacant(k)'
  BY <1>2, OverWithoutEntry DEF Vacant, Sweeps, Live
<1>7. Current(k)'
  BY <1>1, <1>2, <1>3 DEF Current
<1>8. QED BY <1>4, <1>5, <1>6, <1>7 DEF KeyOK

LEMMA TickKeeps ==
  ASSUME IInv, NEW k \in Keys, now' = now + 1, UNCHANGED <<store, admitted, retryAt>>
  PROVE  KeyTyped(k)' /\ KeyOK(k)'
<1>1. /\ KeyTyped(k) /\ now \in Nat /\ Recorded(k) /\ WindowsApart(k) /\ RanksApart(k)
      /\ Vacant(k) /\ Current(k) /\ Window[k] \in Nat
      /\ \A a \in admitted[k] : a[1] \in Nat
      /\ store[k] # None => store[k].expiresAt \in Nat
  BY KeyFacts DEF IInv, TypeOK, KeyTyped, KeyOK
<1>2. KeyTyped(k)'
  BY <1>1 DEF KeyTyped, Entry
<1>3. Recorded(k)' /\ WindowsApart(k)' /\ RanksApart(k)'
  BY <1>1 DEF Recorded, WindowsApart, RanksApart
<1>4. Vacant(k)'
  BY <1>1 DEF Vacant, KeyTyped
<1>5. Current(k)'
  BY <1>1 DEF Current
<1>6. QED BY <1>2, <1>3, <1>4, <1>5 DEF KeyOK

LEMMA NextStep == IInv /\ [Next]_vars => IInv'
<1> SUFFICES ASSUME IInv, [Next]_vars PROVE IInv'
  OBVIOUS
<1>1. ASSUME now' \in Nat, DOMAIN store' = Keys, \A k \in Keys : KeyTyped(k)' /\ KeyOK(k)'
      PROVE  IInv'
  BY <1>1 DEF IInv, TypeOK, KeyTyped
<1>2. CASE Asked
  <2>1. now' = now /\ now \in Nat /\ DOMAIN store' = Keys
        /\ \A k \in Keys : Opens(k) \/ Counts(k) \/ Refuses(k) \/ Sweeps(k)
    BY <1>2, AskedOutcome DEF IInv, TypeOK
  <2>2. \A k \in Keys : KeyTyped(k)' /\ KeyOK(k)'
    BY <2>1, OpensKeeps, CountsKeeps, RefusesKeeps, SweepsKeeps
  <2>3. QED BY <1>1, <2>1, <2>2
<1>3. CASE Tick
  <2>1. now' \in Nat /\ DOMAIN store' = Keys /\ now' = now + 1 /\ UNCHANGED <<store, admitted, retryAt>>
    BY <1>3 DEF Tick, IInv, TypeOK
  <2>2. \A k \in Keys : KeyTyped(k)' /\ KeyOK(k)'
    BY <2>1, TickKeeps
  <2>3. QED BY <1>1, <2>1, <2>2
<1>4. CASE Restart
  <2>1. now' = now /\ now \in Nat /\ DOMAIN store' = Keys
        /\ \A k \in Keys : store'[k] = None /\ admitted'[k] = {} /\ retryAt'[k] = 0
    BY <1>4 DEF Restart, IInv, TypeOK
  <2>2. ASSUME NEW k \in Keys PROVE KeyTyped(k)' /\ KeyOK(k)'
    <3>1. store'[k] = None /\ admitted'[k] = {} /\ retryAt'[k] = 0 /\ now' \in Nat
      BY <2>1
    <3>2. IsFiniteSet(admitted'[k])
      BY <3>1, FS_EmptySet
    <3>3. QED BY <3>1, <3>2 DEF KeyTyped, KeyOK, Recorded, WindowsApart, RanksApart, Vacant, Current
  <2>3. QED BY <1>1, <2>1, <2>2
<1>5. CASE UNCHANGED vars
  BY <1>5 DEF vars, IInv, TypeOK, KeyOK, Recorded, WindowsApart, RanksApart, Vacant, Current
<1>6. QED
  BY <1>2, <1>3, <1>4, <1>5 DEF Next

-----------------------------------------------------------------------------
(* Counting admissions. *)

(* Admissions of different ranks are no more than there are ranks.          *)
LEMMA OnePerRank ==
  ASSUME NEW S, NEW low \in Nat, NEW high \in Nat, low <= high + 1,
         \A a \in S : a[2] \in low..high,
         \A a, b \in S : a[2] = b[2] => a = b
  PROVE  IsFiniteSet(S) /\ Cardinality(S) <= high - low + 1
<1> DEFINE rank == [a \in S |-> a[2]]
<1>1. rank \in Injection(S, low..high)
  BY DEF Injection, IsInjective
<1>2. IsFiniteSet(low..high) /\ Cardinality(low..high) = high - low + 1
  BY FS_Interval
<1>3. Cardinality(S) <= Cardinality(low..high) /\ IsFiniteSet(S)
  BY <1>1, <1>2, FS_Injection
<1>4. QED BY <1>2, <1>3

LEMMA CountedBelowTwice ==
  ASSUME IInv, NEW k \in Keys
  PROVE  Admissions(k, now - Window[k] + 1, now) < 2 * Limit[k]
<1> DEFINE I == {a \in admitted[k] : now - Window[k] + 1 <= a[1] /\ a[1] <= now}
           Later == {a \in I : \E d \in I : d[2] = 1 /\ d[1] <= a[1]}
           Earlier == I \ Later
<1>1. /\ now \in Nat /\ Limit[k] \in Nat /\ 1 <= Limit[k] /\ Window[k] \in Nat /\ 1 <= Window[k]
      /\ \A a \in admitted[k] : a[1] \in Nat /\ a[2] \in 1..Limit[k] /\ a[1] <= now
      /\ WindowsApart(k) /\ RanksApart(k)
  BY KeyFacts DEF IInv, TypeOK, KeyOK, Recorded
<1>2. \A a, b \in I : (a[2] = b[2] /\ a[1] <= b[1] /\ a # b) =>
        \E d \in I : d[2] = 1 /\ a[1] < d[1] /\ d[1] <= b[1]
  <2>1. SUFFICES ASSUME NEW a \in I, NEW b \in I, a[2] = b[2], a[1] <= b[1], a # b
                 PROVE  \E d \in I : d[2] = 1 /\ a[1] < d[1] /\ d[1] <= b[1]
    OBVIOUS
  <2>2. PICK d \in admitted[k] : d[2] = 1 /\ a[1] < d[1] /\ d[1] <= b[1]
    BY <1>1, <2>1 DEF RanksApart
  <2>3. d \in I
    BY <1>1, <2>1, <2>2
  <2>4. QED BY <2>2, <2>3
<1>3. \A c, d \in I : c[2] = 1 /\ d[2] = 1 => ~(c[1] < d[1])
  BY <1>1 DEF WindowsApart
<1>4. /\ \A a \in I : a[1] \in Nat /\ a[2] \in 1..Limit[k]
      /\ Admissions(k, now - Window[k] + 1, now) = Cardinality(I)
  BY <1>1 DEF Admissions
<1> HIDE DEF I
<1>5. IsFiniteSet(Later) /\ Cardinality(Later) <= Limit[k]
  <2>1. ASSUME NEW a \in Later, NEW b \in Later, a[2] = b[2], a[1] <= b[1], a # b PROVE FALSE
    <3>1. PICK c \in I : c[2] = 1 /\ c[1] <= a[1]
      BY <2>1
    <3>2. PICK d \in I : d[2] = 1 /\ a[1] < d[1]
      BY <1>2, <2>1
    <3>3. c[1] < d[1]
      BY <1>4, <2>1, <3>1, <3>2
    <3>4. QED BY <1>3, <3>1, <3>2, <3>3
  <2>2. \A a, b \in Later : a[2] = b[2] => a = b
    BY <1>4, <2>1
  <2>3. \A a \in Later : a[2] \in 1..Limit[k]
    BY <1>4
  <2> HIDE DEF Later
  <2>4. 1 \in Nat /\ Limit[k] \in Nat /\ 1 <= Limit[k] + 1
    BY <1>1
  <2>5. IsFiniteSet(Later) /\ Cardinality(Later) <= Limit[k] - 1 + 1
    BY <2>2, <2>3, <2>4, OnePerRank
  <2>6. QED BY <2>4, <2>5
<1>6. IsFiniteSet(Earlier) /\ Cardinality(Earlier) <= Limit[k] - 1
  <2>1. ASSUME NEW a \in Earlier, NEW b \in Earlier, a[2] = b[2], a[1] <= b[1], a # b PROVE FALSE
    BY <1>2, <2>1
  <2>2. \A a, b \in Earlier : a[2] = b[2] => a = b
    BY <1>4, <2>1
  <2>3. \A a \in Earlier : a[2] \in 2..Limit[k]
    BY <1>1, <1>4
  <2> HIDE DEF Earlier, Later
  <2>4. 2 \in Nat /\ Limit[k] \in Nat /\ 2 <= Limit[k] + 1
    BY <1>1
  <2>5. IsFiniteSet(Earlier) /\ Cardinality(Earlier) <= Limit[k] - 2 + 1
    BY <2>2, <2>3, <2>4, OnePerRank
  <2>6. QED BY <2>4, <2>5
<1>7. I = Later \cup Earlier /\ Later \cap Earlier = {}
  OBVIOUS
<1> HIDE DEF Later, Earlier
<1>8. Cardinality(I) = Cardinality(Later) + Cardinality(Earlier)
  <2>1. Cardinality(Later \cup Earlier)
          = Cardinality(Later) + Cardinality(Earlier) - Cardinality(Later \cap Earlier)
    BY <1>5, <1>6, FS_Union
  <2>2. Cardinality(Later) \in Nat /\ Cardinality(Earlier) \in Nat
    BY <1>5, <1>6, FS_CardinalityType
  <2>3. Cardinality(Later \cap Earlier) = 0
    BY <1>7, FS_EmptySet
  <2>4. QED BY <1>7, <2>1, <2>2, <2>3
<1>9. Cardinality(Later) \in Nat /\ Cardinality(Earlier) \in Nat
  BY <1>5, <1>6, FS_CardinalityType
<1>10. QED BY <1>1, <1>4, <1>5, <1>6, <1>8, <1>9

LEMMA CountedInterval ==
  ASSUME NEW n \in Nat, 1 <= n
  PROVE  Cardinality(1..n) = n
<1>1. 1 \in Int /\ n \in Int
  OBVIOUS
<1>2. Cardinality(1..n) = IF 1 > n THEN 0 ELSE n - 1 + 1
  BY <1>1, FS_Interval
<1>3. QED BY <1>2

(* A full entry stands for as many admissions as the limit.                 *)
LEMMA FullWindow ==
  ASSUME IInv, NEW k \in Keys, store[k] # None, store[k].count = Limit[k],
         NEW from \in Int, from <= store[k].expiresAt - Window[k]
  PROVE  Admissions(k, from, now) >= Limit[k]
<1> DEFINE I == {a \in admitted[k] : from <= a[1] /\ a[1] <= now}
           first == [c \in 1..Limit[k] |-> CHOOSE a \in I : a[2] = c]
<1>1. /\ Limit[k] \in Nat /\ 1 <= Limit[k] /\ Window[k] \in Nat /\ store[k].expiresAt \in Nat
      /\ now \in Nat /\ \A a \in admitted[k] : a[1] \in Nat /\ a[1] <= now
      /\ IsFiniteSet(admitted[k]) /\ Current(k)
  BY KeyFacts DEF IInv, TypeOK, KeyOK, Recorded
<1>2. ASSUME NEW c \in 1..Limit[k] PROVE \E a \in I : a[2] = c
  <2>1. PICK a \in admitted[k] : a[2] = c /\ store[k].expiresAt - Window[k] <= a[1]
    BY <1>1 DEF Current
  <2>2. QED BY <1>1, <2>1
<1>3. IsFiniteSet(I)
  BY <1>1, FS_Subset
<1>4. Admissions(k, from, now) = Cardinality(I)
  BY DEF Admissions
<1> HIDE DEF I
<1>5. \A c \in 1..Limit[k] : first[c] \in I /\ first[c][2] = c
  BY <1>2
<1>6. first \in Injection(1..Limit[k], I)
  <2>1. first \in [1..Limit[k] -> I]
    BY <1>5
  <2> HIDE DEF first
  <2>2. QED BY <1>5, <2>1 DEF Injection, IsInjective
<1> HIDE DEF first
<1>7. Cardinality(1..Limit[k]) <= Cardinality(I)
  BY <1>3, <1>6, FS_Injection
<1>8. Cardinality(1..Limit[k]) = Limit[k] /\ Cardinality(I) \in Nat
  <2>1. Cardinality(1..Limit[k]) = Limit[k]
    BY <1>1, CountedInterval
  <2>2. Cardinality(I) \in Nat
    BY <1>3, FS_CardinalityType
  <2>3. QED BY <1>1, <2>1, <2>2
<1>9. QED BY <1>1, <1>4, <1>7, <1>8

LEMMA RefusalJustified ==
  ASSUME IInv, NEW k \in Keys, ~Allowed(store, k)
  PROVE  /\ Admissions(k, now - Window[k] + 1, now) >= Limit[k]
         /\ retryAt[k] <= now => Admissions(k, retryAt[k], now) >= Limit[k]
<1>1. TypeOK /\ now \in Nat /\ Window[k] \in Nat /\ retryAt[k] \in Nat /\ Current(k)
  BY KeyFacts DEF IInv, TypeOK, KeyOK
<1>2. /\ Live(k) /\ store[k] # None /\ store[k].count = Limit[k]
      /\ store[k].expiresAt \in Nat /\ now < store[k].expiresAt
  <2>1. Live(k) /\ ~(store[k].count < Limit[k]) /\ store[k] \in Entry(k)
    BY <1>1, SweptAt
  <2>2. Limit[k] \in Nat /\ store[k].count \in 1..Limit[k] /\ store[k].expiresAt \in Nat
    BY <2>1, KeyFacts
  <2>3. QED BY <2>1, <2>2 DEF Live
<1>3. now - Window[k] + 1 \in Int /\ now - Window[k] + 1 <= store[k].expiresAt - Window[k]
  BY <1>1, <1>2
<1>4. Admissions(k, now - Window[k] + 1, now) >= Limit[k]
  BY <1>2, <1>3, FullWindow
<1>5. ASSUME retryAt[k] <= now PROVE Admissions(k, retryAt[k], now) >= Limit[k]
  <2>1. retryAt[k] <= store[k].expiresAt - Window[k] /\ retryAt[k] \in Int
    BY <1>1, <1>2, <1>5 DEF Current
  <2>2. QED BY <1>2, <2>1, FullWindow
<1>6. QED BY <1>4, <1>5

-----------------------------------------------------------------------------
(* The theorems. *)

THEOREM Invariance == Spec => []IInv
  BY InitIInv, NextStep, PTL DEF Spec

(* The Map only holds counters from 1 to the limit that expire within a     *)
(* window's length, for any limits and windows.                             *)
THEOREM TypeCorrect == Spec => []TypeOK
<1>1. IInv => TypeOK
  BY DEF IInv
<1>2. QED BY <1>1, Invariance, PTL

(* Whatever the limit and the window of a key, and however its requests are *)
(* spread over the boundary of two windows, no interval as long as a window *)
(* admits twice the limit (createInMemoryRateLimiter, utils/rateLimit).     *)
THEOREM BelowTwice == Spec => []LessThanTwiceTheLimit
<1>1. IInv => LessThanTwiceTheLimit
  BY CountedBelowTwice DEF LessThanTwiceTheLimit
<1>2. QED BY <1>1, Invariance, PTL

(* A key is only refused after as many admissions as its limit within the   *)
(* last window, and from the time on that retryAfterMs named only after as  *)
(* many since then.                                                         *)
THEOREM RefusedFairly == Spec => RefusalsJustified
<1>1. IInv /\ [Next]_vars =>
        [\A k \in Keys : Refused(k) =>
           /\ Admissions(k, now - Window[k] + 1, now) >= Limit[k]
           /\ retryAt[k] <= now => Admissions(k, retryAt[k], now) >= Limit[k]]_vars
  <2>1. \A k \in Keys : Refused(k) => ~Allowed(store, k)
    BY DEF Refused
  <2>2. QED BY <2>1, RefusalJustified
<1>2. QED BY <1>1, Invariance, PTL DEF Spec, RefusalsJustified

(* A check sweeps the whole Map: no expired entry of any key is left.       *)
THEOREM MapSwept == Spec => NoDeadKeysAfterCheck
<1>1. IInv /\ [Next]_vars =>
        [Asked => \A k \in Keys : store'[k] # None => store'[k].expiresAt > now]_vars
  <2>1. SUFFICES ASSUME IInv, Asked, NEW k \in Keys, store'[k] # None
                 PROVE  store'[k].expiresAt > now
    OBVIOUS
  <2>2. TypeOK /\ now \in Nat /\ Window[k] \in Nat /\ 1 <= Window[k]
    BY <2>1, KeyFacts DEF IInv, TypeOK
  <2>3. Opens(k) \/ Counts(k) \/ Refuses(k) \/ Sweeps(k)
    BY <2>1, <2>2, AskedOutcome
  <2>4. Live(k) => store[k].expiresAt \in Nat /\ store[k].expiresAt > now
    BY <2>2, SweptAt, KeyFacts DEF Live
  <2>5. QED BY <2>1, <2>2, <2>3, <2>4 DEF Opens, Counts, Refuses, Sweeps
<1>2. QED BY <1>1, Invariance, PTL DEF Spec, NoDeadKeysAfterCheck

=============================================================================
