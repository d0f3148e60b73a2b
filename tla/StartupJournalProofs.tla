------------------------ MODULE StartupJournalProofs ------------------------
(* Theorems about StartupJournal, for any number of calls of the host.      *)
EXTENDS StartupJournal, WellFoundedInduction, TLAPS

(* The events of s are in the order they were made, and only the last may   *)
(* be a final one.                                                         *)
InOrder(s) ==
    \A i, j \in DOMAIN s : i < j =>
        s[i].sequence < s[j].sequence /\ s[i].status \notin Final

(* No event of s was made after the n-th.                                  *)
UpTo(s, n) == \A e \in ToSet(s) : e.sequence <= n

(* The last event a reader of the journal can know of.                     *)
FileEnd == IF file = <<>> THEN 0 ELSE Last(file).sequence

(* The host has made its final event, and is done with it.                 *)
Over == persist = "idle" /\ EndsWith(history, Final)

(* The host: each call makes an event, and perhaps one about the limit; an  *)
(* event that is being written is newer than all that has been.            *)
WriterInv ==
    /\ queued <= calls
    /\ sequence + 2 * queued <= 2 * calls
    /\ persist = "writing" => sequence + 2 * queued < 2 * calls
    /\ InOrder(history) /\ UpTo(history, sequence)
    /\ history # <<>> => Last(history).sequence = sequence
    /\ persist # "idle" => history # <<>> /\ lastPersisted < sequence
    /\ lastPersisted <= sequence
    /\ persist = "limiting" => EndsWith(history, {"failed"})

(* The journal is behind the host by what has not been written, and has     *)
(* nothing the host has forgotten but the progress of a transition.        *)
FileInv ==
    /\ InOrder(file)
    /\ FileEnd <= sequence
    /\ persist # "idle" => FileEnd < sequence
    /\ ~Over => FileEnd <= lastPersisted
    /\ EndsWith(file, Final) => Over
    /\ \A e \in ToSet(file) : e.status # "progress" => e \in ToSet(history)

(* The reader has events the journal had, beyond those it has replayed; a   *)
(* final event, once found, is the end of the journal and of the reading.  *)
ReaderInv ==
    /\ cursor <= FileEnd
    /\ InOrder(batch)
    /\ \A e \in ToSet(batch) :
          /\ cursor < e.sequence /\ e.sequence <= FileEnd
          /\ e.status \in Final \/ e.sequence = FileEnd => e = Last(file)
    /\ \A e \in {ready, failure} \ {NoEvent} :
          EndsWith(file, Final) /\ e = Last(file) /\ cursor = FileEnd
    /\ ready # NoEvent => ready.status = "ready"
    /\ failure # NoEvent => failure.status = "failed"
    /\ EndsWith(file, Final) /\ cursor = FileEnd => Last(file) \in {ready, failure}

(* What is shown is what has been replayed, until the drain is over; then   *)
(* comes the final event, if there is one to tell.                         *)
ShownInv ==
    /\ InOrder(shown)
    /\ outcome = "pending" <=> observe = "attempt"
    /\ drained <=> observe \in {"sink", "delivery", "done"}
    /\ observe = "sink" /\ outcome = "failed" => failure # NoEvent
    /\ observe \in {"attempt", "drain", "sink"} =>
          \A e \in ToSet(shown) :
              /\ e.status \notin Final /\ e.sequence <= cursor
              /\ {ready, failure} # {NoEvent} => e.sequence < cursor
    /\ observe \in {"delivery", "done"} =>
          IF outcome = "started" THEN EndsWith(shown, {"ready"})
          ELSE IF failure # NoEvent THEN EndsWith(shown, {"failed"})
          ELSE ~EndsWith(shown, Final)

(* A failure the journal told of when the attempt settled is found by the   *)
(* last turn of the loop, which began after that, if it finds the journal.  *)
DrainInv ==
    /\ finalRead => outcome # "pending"
    /\ follow = "ended" => (late \/ finalRead) /\ batch = <<>>
    /\ drained /\ "journal" \notin warned => follow = "ended"
    /\ known => EndsWith(file, {"failed"})
    /\ known /\ finalRead /\ ~unread /\ "journal" \notin warned /\ follow # "reading" =>
          failure # NoEvent \/ (batch # <<>> /\ Last(batch) = Last(file))

(* The inductive invariant.                                                *)
IndInv == TypeOK /\ WriterInv /\ FileInv /\ ReaderInv /\ ShownInv /\ DrainInv

-----------------------------------------------------------------------------
(* Sequences of events                                                     *)

(* Induction by the least counterexample, which needs no operator parameter. *)
LEMMA LeastElement ==
    ASSUME NEW T \in SUBSET Nat, T # {}
    PROVE  \E m \in T : \A k \in T : m <= k
<1> DEFINE Less == {p \in Nat \X Nat : p[1] < p[2]}
<1>1. IsWellFoundedOn(Less, Nat)
    BY NatLessThanWellFounded DEF OpToRel
<1>2. PICK m \in T : \A k \in T : <<k, m>> \notin Less
    <2> HIDE DEF Less
    <2>1. QED
        BY <1>1, WFMin
<1>3. \A k \in T : ~(k < m)
    BY <1>2
<1>4. QED
    BY <1>2, <1>3

(* f is the recursive function of Kept, up to m.                            *)
KeptNext(s, S, f, n) ==
    IF n = 0 THEN <<>>
    ELSE IF s[n] \in S THEN Append(f[n - 1], s[n])
    ELSE f[n - 1]

Filters(s, S, f, m) == \A n \in 0..m : f[n] = KeptNext(s, S, f, n)

(* There is such a function: the recursion of Kept has a solution.          *)
LEMMA KeptExists ==
    ASSUME NEW s \in Seq(Event), NEW S
    PROVE  \E f \in [0..Len(s) -> Seq(Event)] : Filters(s, S, f, Len(s))
<1> DEFINE N == Len(s)
           Bad == {m \in 0..N : ~ \E f \in [0..m -> Seq(Event)] : Filters(s, S, f, m)}
<1>0. N \in Nat
    OBVIOUS
<1>1. SUFFICES ASSUME Bad # {} PROVE FALSE
    BY <1>0
<1>2. PICK m \in Bad : \A k \in Bad : m <= k
    <2>1. PICK b : b \in Bad
        BY <1>1
    <2>2. Bad \in SUBSET Nat
        BY <1>0
    <2> HIDE DEF Bad
    <2>3. QED
        BY <2>1, <2>2, LeastElement
<1>3. m # 0
    <2>1. ASSUME m = 0 PROVE FALSE
        <3> DEFINE f == [n \in 0..0 |-> <<>>]
        <3>1. f \in [0..0 -> Seq(Event)]
            OBVIOUS
        <3>2. Filters(s, S, f, 0)
            BY DEF Filters, KeptNext
        <3>3. QED
            BY <2>1, <3>1, <3>2
    <2>2. QED
        BY <2>1
<1>4. m \in 1..N /\ m - 1 \in 0..N
    BY <1>0, <1>3
<1>5. PICK f \in [0..(m - 1) -> Seq(Event)] : Filters(s, S, f, m - 1)
    <2>1. m \in Nat
        BY <1>0, <1>4
    <2>2. m - 1 \notin Bad
        <3> HIDE DEF Bad
        <3>1. QED
            BY <1>2, <2>1
    <2>3. QED
        BY <1>4, <2>2
<1> DEFINE g == [n \in 0..m |-> IF n = m THEN KeptNext(s, S, f, m) ELSE f[n]]
<1>6. g \in [0..m -> Seq(Event)]
    <2>1. s[m] \in Event /\ f[m - 1] \in Seq(Event)
        BY <1>4, <1>5
    <2>2. KeptNext(s, S, f, m) \in Seq(Event)
        BY <2>1, <1>4 DEF KeptNext
    <2>3. \A n \in 0..m : n # m => n \in 0..(m - 1)
        BY <1>4
    <2>4. QED
        BY <2>2, <2>3
<1>7. Filters(s, S, g, m)
    <2> SUFFICES ASSUME NEW n \in 0..m PROVE g[n] = KeptNext(s, S, g, n)
        BY DEF Filters
    <2>1. n # 0 => g[n - 1] = f[n - 1]
        BY <1>4
    <2>2. CASE n = m
        BY <2>1, <2>2 DEF KeptNext
    <2>3. CASE n # m
        <3>1. n \in 0..(m - 1)
            BY <1>4, <2>3
        <3>2. f[n] = KeptNext(s, S, f, n)
            BY <1>5, <3>1 DEF Filters
        <3>3. QED
            BY <2>1, <2>3, <3>2 DEF KeptNext
    <2>4. QED
        BY <2>2, <2>3
<1>8. QED
    BY <1>2, <1>4, <1>6, <1>7

(* And Kept is its last value.                                             *)
LEMMA KeptFilters ==
    ASSUME NEW s \in Seq(Event), NEW S
    PROVE  \E f \in [0..Len(s) -> Seq(Event)] :
               Filters(s, S, f, Len(s)) /\ Kept(s, S) = f[Len(s)]
<1> DEFINE N == Len(s)
           kept[n \in 0..N] ==
               IF n = 0 THEN <<>>
               ELSE IF s[n] \in S THEN Append(kept[n - 1], s[n])
               ELSE kept[n - 1]
<1>1. Kept(s, S) = kept[N]
    BY DEF Kept
<1>2. PICK f \in [0..N -> Seq(Event)] : Filters(s, S, f, N)
    BY KeptExists
<1>3. f = [n \in 0..N |-> IF n = 0 THEN <<>>
                          ELSE IF s[n] \in S THEN Append(f[n - 1], s[n])
                          ELSE f[n - 1]]
    BY <1>2 DEF Filters, KeptNext
<1>4. kept = [n \in 0..N |-> IF n = 0 THEN <<>>
                             ELSE IF s[n] \in S THEN Append(kept[n - 1], s[n])
                             ELSE kept[n - 1]]
    BY <1>3, Zenon
<1> HIDE DEF kept
<1>5. \A n \in 0..N : kept[n] = KeptNext(s, S, kept, n)
    BY <1>4 DEF KeptNext
<1> DEFINE Bad == {n \in 0..N : kept[n] # f[n]}
<1>6. Bad = {}
    <2> SUFFICES ASSUME Bad # {} PROVE FALSE
        OBVIOUS
    <2>1. PICK m \in Bad : \A k \in Bad : m <= k
        <3>1. PICK b : b \in Bad
            OBVIOUS
        <3>2. Bad \in SUBSET Nat
            OBVIOUS
        <3> HIDE DEF Bad
        <3>3. QED
            BY <3>1, <3>2, LeastElement
    <2>2. m # 0 => kept[m - 1] = f[m - 1]
        BY <2>1
    <2>3. kept[m] = f[m]
        BY <1>2, <1>5, <2>2 DEF Filters, KeptNext
    <2>4. QED
        BY <2>3
<1>7. N \in 0..N
    OBVIOUS
<1>8. QED
    BY <1>1, <1>2, <1>6, <1>7

(* One more event at the end.                                              *)
LEMMA AppendFacts ==
    ASSUME NEW s \in Seq(Event), NEW e \in Event
    PROVE  /\ Append(s, e) \in Seq(Event) /\ Append(s, e) # <<>>
           /\ Last(Append(s, e)) = e
           /\ ToSet(Append(s, e)) = ToSet(s) \cup {e}
           /\ InOrder(s) /\ (\A x \in ToSet(s) : x.sequence < e.sequence /\ x.status \notin Final)
                  => InOrder(Append(s, e))
<1> DEFINE t == Append(s, e)
<1>1. /\ t \in Seq(Event) /\ Len(t) = Len(s) + 1 /\ Len(s) \in Nat
      /\ \A i \in 1..Len(s) : t[i] = s[i]
      /\ t[Len(s) + 1] = e
    OBVIOUS
<1> HIDE DEF t
<1>2. t # <<>> /\ Last(t) = e
    BY <1>1 DEF Last
<1>3. DOMAIN t = DOMAIN s \cup {Len(s) + 1} /\ DOMAIN s = 1..Len(s)
    BY <1>1
<1>4. ToSet(t) = ToSet(s) \cup {e}
    BY <1>1, <1>3 DEF ToSet
<1>5. ASSUME InOrder(s), \A x \in ToSet(s) : x.sequence < e.sequence /\ x.status \notin Final
      PROVE  InOrder(t)
    <2> SUFFICES ASSUME NEW i \in DOMAIN t, NEW j \in DOMAIN t, i < j
                 PROVE  t[i].sequence < t[j].sequence /\ t[i].status \notin Final
        BY DEF InOrder
    <2>1. i \in DOMAIN s /\ t[i] = s[i] /\ s[i] \in ToSet(s)
        BY <1>1, <1>3 DEF ToSet
    <2>2. CASE j \in DOMAIN s
        BY <1>1, <1>3, <1>5, <2>1, <2>2 DEF InOrder
    <2>3. CASE j = Len(s) + 1
        BY <1>1, <1>5, <2>1, <2>3
    <2>4. QED
        BY <1>3, <2>2, <2>3
<1>6. QED
    BY <1>1, <1>2, <1>4, <1>5 DEF t

(* Kept has the events of s that are in S, and keeps their order.           *)
LEMMA KeptFacts ==
    ASSUME NEW s \in Seq(Event), NEW S
    PROVE  /\ Kept(s, S) \in Seq(Event)
           /\ ToSet(Kept(s, S)) = ToSet(s) \cap S
           /\ InOrder(s) => InOrder(Kept(s, S))
<1> DEFINE N == Len(s)
<1>1. PICK f \in [0..N -> Seq(Event)] : Filters(s, S, f, N) /\ Kept(s, S) = f[N]
    BY KeptFilters
<1> DEFINE Until(n) == {s[i] : i \in 1..n}
           Good(n) == ToSet(f[n]) = Until(n) \cap S /\ (InOrder(s) => InOrder(f[n]))
           Bad == {n \in 0..N : ~Good(n)}
<1>2. N \in Nat /\ DOMAIN s = 1..N
    OBVIOUS
<1>3. Good(0)
    <2>1. f[0] = <<>>
        BY <1>1, <1>2 DEF Filters, KeptNext
    <2>2. ToSet(<<>>) = {} /\ InOrder(<<>>)
        BY DEF ToSet, InOrder
    <2>3. Until(0) = {}
        OBVIOUS
    <2>4. QED
        BY <2>1, <2>2, <2>3
<1>4. ASSUME NEW n \in 1..N, Good(n - 1) PROVE Good(n)
    <2>1. f[n] = KeptNext(s, S, f, n) /\ n # 0
        BY <1>1, <1>2 DEF Filters
    <2>2. s[n] \in Event /\ f[n - 1] \in Seq(Event)
        BY <1>2
    <2>3. Until(n) = Until(n - 1) \cup {s[n]}
        BY <1>2
    <2>4. CASE s[n] \notin S
        BY <1>4, <2>1, <2>3, <2>4 DEF KeptNext
    <2>5. CASE s[n] \in S
        <3>1. f[n] = Append(f[n - 1], s[n])
            BY <2>1, <2>5 DEF KeptNext
        <3>2. ToSet(f[n]) = Until(n) \cap S
            BY <1>4, <2>2, <2>3, <2>5, <3>1, AppendFacts
        <3>3. ASSUME InOrder(s) PROVE InOrder(f[n])
            <4>1. \A x \in Until(n - 1) : x.sequence < s[n].sequence /\ x.status \notin Final
                BY <1>2, <3>3 DEF InOrder
            <4>2. QED
                BY <1>4, <2>2, <3>1, <3>3, <4>1, AppendFacts
        <3>4. QED
            BY <3>2, <3>3
    <2>6. QED
        BY <2>4, <2>5
<1>5. Bad = {}
    <2> SUFFICES ASSUME Bad # {} PROVE FALSE
        OBVIOUS
    <2>1. PICK m \in Bad : \A k \in Bad : m <= k
        <3>1. PICK b : b \in Bad
            OBVIOUS
        <3>2. Bad \in SUBSET Nat
            BY <1>2
        <3> HIDE DEF Bad
        <3>3. QED
            BY <3>1, <3>2, LeastElement
    <2> HIDE DEF Good
    <2>2. m # 0
        BY <1>3
    <2>3. m \in 1..N /\ m - 1 \in 0..N /\ ~(m <= m - 1)
        BY <1>2, <2>1, <2>2
    <2>4. Good(m - 1)
        BY <2>1, <2>3
    <2>5. QED
        BY <1>4, <2>1, <2>3, <2>4
<1>6. Good(N)
    BY <1>2, <1>5
<1>7. Until(N) = ToSet(s)
    BY <1>2 DEF ToSet
<1>8. QED
    BY <1>1, <1>2, <1>6, <1>7

(* The last event, and what it says of the others.                          *)
LEMMA LastFacts ==
    ASSUME NEW s \in Seq(Event), s # <<>>
    PROVE  /\ Last(s) \in Event /\ Last(s) \in ToSet(s)
           /\ InOrder(s) => \A e \in ToSet(s) :
                 e = Last(s) \/ (e.sequence < Last(s).sequence /\ e.status \notin Final)
<1>1. Len(s) \in Nat /\ Len(s) \in DOMAIN s /\ DOMAIN s = 1..Len(s) /\ Last(s) = s[Len(s)]
    BY DEF Last
<1>2. Last(s) \in Event /\ Last(s) \in ToSet(s)
    BY <1>1 DEF ToSet
<1>3. ASSUME InOrder(s), NEW e \in ToSet(s)
      PROVE  e = Last(s) \/ (e.sequence < Last(s).sequence /\ e.status \notin Final)
    <2>1. PICK i \in DOMAIN s : e = s[i]
        BY DEF ToSet
    <2>2. i = Len(s) \/ i < Len(s)
        BY <1>1
    <2>3. QED
        BY <1>1, <1>3, <2>1, <2>2 DEF InOrder
<1>4. QED
    BY <1>2, <1>3

(* The first event, and the rest.                                          *)
LEMMA HeadFacts ==
    ASSUME NEW s \in Seq(Event), s # <<>>
    PROVE  /\ Head(s) \in Event /\ Head(s) \in ToSet(s)
           /\ Tail(s) \in Seq(Event) /\ ToSet(Tail(s)) \subseteq ToSet(s)
           /\ Tail(s) = <<>> => Last(s) = Head(s)
           /\ Tail(s) # <<>> => Last(Tail(s)) = Last(s)
           /\ InOrder(s) =>
                 /\ InOrder(Tail(s))
                 /\ \A e \in ToSet(Tail(s)) :
                       Head(s).sequence < e.sequence /\ Head(s).status \notin Final
<1> DEFINE t == Tail(s)
<1>1. /\ Len(s) \in Nat /\ Len(s) >= 1 /\ DOMAIN s = 1..Len(s)
      /\ Head(s) = s[1] /\ s[1] \in Event
      /\ t \in Seq(Event) /\ Len(t) = Len(s) - 1 /\ DOMAIN t = 1..(Len(s) - 1)
      /\ \A i \in 1..(Len(s) - 1) : t[i] = s[i + 1]
    OBVIOUS
<1> HIDE DEF t
<1>2. Head(s) \in ToSet(s) /\ ToSet(t) \subseteq ToSet(s)
    <2>1. 1 \in DOMAIN s /\ \A i \in DOMAIN t : i + 1 \in DOMAIN s /\ t[i] = s[i + 1]
        BY <1>1
    <2>2. QED
        BY <1>1, <2>1 DEF ToSet
<1>3. t = <<>> => Last(s) = Head(s)
    <2>1. Len(s) \in Nat /\ Len(t) = Len(s) - 1
        BY <1>1
    <2>2. Len(t) = 0 => Len(s) = 1
        BY <2>1
    <2>3. t = <<>> => Len(s) = 1
        BY <2>2
    <2>4. QED
        BY <1>1, <2>3 DEF Last
<1>4. t # <<>> => Last(t) = Last(s)
    <2> SUFFICES ASSUME t # <<>> PROVE Last(t) = Last(s)
        OBVIOUS
    <2>1. Len(s) - 1 >= 1
        BY <1>1
    <2>2. QED
        BY <1>1, <2>1 DEF Last
<1>5. ASSUME InOrder(s)
      PROVE  /\ InOrder(t)
             /\ \A e \in ToSet(t) : s[1].sequence < e.sequence /\ s[1].status \notin Final
    <2>1. InOrder(t)
        <3> SUFFICES ASSUME NEW i \in DOMAIN t, NEW j \in DOMAIN t, i < j
                     PROVE  t[i].sequence < t[j].sequence /\ t[i].status \notin Final
            BY DEF InOrder
        <3>1. /\ i + 1 \in DOMAIN s /\ j + 1 \in DOMAIN s /\ i + 1 < j + 1
              /\ t[i] = s[i + 1] /\ t[j] = s[j + 1]
            BY <1>1
        <3>2. QED
            BY <1>5, <3>1 DEF InOrder
    <2>2. ASSUME NEW e \in ToSet(t)
          PROVE  s[1].sequence < e.sequence /\ s[1].status \notin Final
        <3>1. PICK i \in 1..(Len(s) - 1) : e = s[i + 1]
            BY <1>1 DEF ToSet
        <3>2. 1 \in DOMAIN s /\ i + 1 \in DOMAIN s /\ 1 < i + 1
            BY <1>1, <3>1
        <3>3. QED
            BY <1>5, <3>1, <3>2 DEF InOrder
    <2>3. QED
        BY <2>1, <2>2
<1>6. QED
    BY <1>1, <1>2, <1>3, <1>4, <1>5 DEF t


-----------------------------------------------------------------------------
(* Types                                                                   *)

(* Events, and that NoEvent is none.                                       *)
LEMMA EventFacts ==
    /\ \A e \in Event : e.sequence \in Nat /\ e.sequence >= 1 /\ e.sequence <= 2 * MaxCalls + 1
    /\ \A e \in Event : e.status \in Statuses
    /\ \A n \in Nat, status \in Statuses : 1 <= n /\ n <= 2 * MaxCalls + 1 =>
          [sequence |-> n, status |-> status] \in Event
    /\ NoEvent \notin Event
    /\ \A s \in Seq(Event) : ToSet(s) \subseteq Event
<1>0. MaxCalls \in Nat
    BY MaxCallsAssumption
<1>1. \A e \in Event : e.sequence \in Nat /\ e.sequence >= 1 /\ e.sequence <= 2 * MaxCalls + 1
    BY <1>0 DEF Event
<1>2. \A e \in Event : e.status \in Statuses
    BY DEF Event
<1>3. \A n \in Nat, status \in Statuses : 1 <= n /\ n <= 2 * MaxCalls + 1 =>
          [sequence |-> n, status |-> status] \in Event
    BY <1>0 DEF Event
<1>4. NoEvent.sequence = 0
    BY DEF NoEvent
<1>5. NoEvent \notin Event
    BY <1>1, <1>4
<1>6. \A s \in Seq(Event) : ToSet(s) \subseteq Event
    BY DEF ToSet
<1>7. QED
    BY <1>1, <1>2, <1>3, <1>5, <1>6

(* emit keeps the order, the last event is the new one, and only progress   *)
(* is dropped.                                                             *)
LEMMA EmittedFacts ==
    ASSUME TypeOK, WriterInv, ~EndsWith(history, Final), sequence + 1 <= 2 * MaxCalls,
           NEW status \in Statuses
    PROVE  LET h == Emitted(status) IN
           /\ h \in Seq(Event) /\ h # <<>>
           /\ Last(h).sequence = sequence + 1 /\ Last(h).status = status
           /\ InOrder(h) /\ UpTo(h, sequence + 1)
           /\ \A e \in ToSet(history) : e.status # "progress" => e \in ToSet(h)
<1> DEFINE event == [sequence |-> sequence + 1, status |-> status]
           rest  == IF status \in {"started", "progress"}
                       THEN Kept(history, {e \in Event : e.status # "progress"}) ELSE history
<1>1. Emitted(status) = Append(rest, event)
    BY DEF Emitted
<1>2. history \in Seq(Event) /\ sequence \in Nat /\ MaxCalls \in Nat
    BY MaxCallsAssumption DEF TypeOK
<1>3. event \in Event
    <2>1. sequence + 1 \in Nat /\ 1 <= sequence + 1 /\ sequence + 1 <= 2 * MaxCalls + 1
        BY <1>2
    <2>2. QED
        BY <2>1, EventFacts
<1>4. event.sequence = sequence + 1 /\ event.status = status
    OBVIOUS
<1>5. /\ rest \in Seq(Event) /\ InOrder(rest)
      /\ ToSet(rest) \subseteq ToSet(history)
      /\ \A e \in ToSet(history) : e.status # "progress" => e \in ToSet(rest)
    BY <1>2, KeptFacts, EventFacts DEF WriterInv
<1> HIDE DEF event, rest
<1>6. \A x \in ToSet(history) : x.sequence <= sequence /\ x.status \notin Final /\ x.sequence \in Nat
    <2> SUFFICES ASSUME NEW x \in ToSet(history)
                 PROVE  x.sequence <= sequence /\ x.status \notin Final /\ x.sequence \in Nat
        OBVIOUS
    <2>1. x \in Event /\ x.sequence <= sequence
        BY <1>2, EventFacts DEF WriterInv, UpTo
    <2>2. history # <<>>
        BY DEF ToSet
    <2>3. x.status \notin Final
        BY <1>2, <2>2, LastFacts DEF WriterInv, EndsWith
    <2>4. QED
        BY <2>1, <2>3, EventFacts
<1>7. \A x \in ToSet(rest) : x.sequence < event.sequence /\ x.status \notin Final
    BY <1>2, <1>4, <1>5, <1>6
<1> DEFINE h == Append(rest, event)
<1>8. /\ h \in Seq(Event) /\ h # <<>> /\ Last(h) = event
      /\ ToSet(h) = ToSet(rest) \cup {event} /\ InOrder(h)
    BY <1>3, <1>5, <1>7, AppendFacts
<1> HIDE DEF h
<1>9. UpTo(h, sequence + 1)
    BY <1>2, <1>4, <1>5, <1>6, <1>8 DEF UpTo
<1>10. QED
    BY <1>1, <1>4, <1>5, <1>8, <1>9 DEF h

(* Numbers, and the room for one more event.                                *)
LEMMA NumberFacts ==
    ASSUME TypeOK, WriterInv
    PROVE  /\ MaxCalls \in Nat /\ calls \in Nat /\ queued \in Nat /\ sequence \in Nat
           /\ lastPersisted \in Nat /\ cursor \in Nat
           /\ queued > 0 \/ persist = "writing" => sequence + 1 <= 2 * MaxCalls
           /\ sequence <= 2 * MaxCalls
<1>1. /\ MaxCalls \in Nat /\ calls \in Nat /\ queued \in Nat /\ sequence \in Nat
      /\ lastPersisted \in Nat /\ cursor \in Nat /\ calls <= MaxCalls
    BY MaxCallsAssumption DEF TypeOK
<1>2. sequence + 2 * queued <= 2 * calls
    BY DEF WriterInv
<1>3. queued > 0 => sequence + 1 <= 2 * MaxCalls
    BY <1>1, <1>2
<1>4. persist = "writing" => sequence + 1 <= 2 * MaxCalls
    <2>1. persist = "writing" => sequence + 2 * queued < 2 * calls
        BY DEF WriterInv
    <2>2. sequence + 2 * queued < 2 * calls => sequence + 1 <= 2 * MaxCalls
        BY <1>1
    <2>3. QED
        BY <2>1, <2>2
<1>5. sequence <= 2 * MaxCalls
    BY <1>1, <1>2
<1>6. QED
    BY <1>1, <1>3, <1>4, <1>5

(* What emitting an event does.                                            *)
LEMMA EmitEffect ==
    ASSUME TypeOK, WriterInv, Emit
    PROVE  /\ history' \in Seq(Event) /\ history' # <<>>
           /\ Last(history').sequence = sequence + 1
           /\ InOrder(history') /\ UpTo(history', sequence + 1)
           /\ \A e \in ToSet(history) : e.status # "progress" => e \in ToSet(history')
<1>1. ~EndsWith(history, Final) /\ queued > 0
    BY NumberFacts DEF Emit
<1>2. sequence + 1 <= 2 * MaxCalls
    BY <1>1, NumberFacts
<1>3. PICK status \in Statuses : history' = Emitted(status)
    <2>1. "failed" \in Statuses
        BY DEF Statuses
    <2>2. QED
        BY <2>1 DEF Emit
<1>4. QED
    BY <1>1, <1>2, <1>3, EmittedFacts

(* What a full journal does.                                               *)
LEMMA LimitEffect ==
    ASSUME TypeOK, WriterInv, LimitReached
    PROVE  /\ history' \in Seq(Event) /\ history' # <<>>
           /\ Last(history').sequence = sequence + 1 /\ EndsWith(history', {"failed"})
           /\ InOrder(history') /\ UpTo(history', sequence + 1)
           /\ \A e \in ToSet(history) : e.status # "progress" => e \in ToSet(history')
<1>1. ~EndsWith(history, Final) /\ sequence + 1 <= 2 * MaxCalls
    BY NumberFacts DEF LimitReached, WriteStep
<1>2. "failed" \in Statuses /\ history' = Emitted("failed")
    BY DEF Statuses, LimitReached
<1>3. QED
    BY <1>1, <1>2, EmittedFacts DEF EndsWith

(* The sequences are sequences of events.                                  *)
LEMMA SeqsTyped ==
    IndInv /\ [Next]_vars =>
        /\ history' \in Seq(Event) /\ file' \in Seq(Event)
        /\ batch' \in Seq(Event)
<1> SUFFICES ASSUME TypeOK, WriterInv, [Next]_vars
             PROVE  /\ history' \in Seq(Event) /\ file' \in Seq(Event)
                    /\ batch' \in Seq(Event)
    BY DEF IndInv
<1>0. history \in Seq(Event) /\ file \in Seq(Event) /\ batch \in Seq(Event) /\ <<>> \in Seq(Event)
    BY DEF TypeOK
<1> USE <1>0
    DEF vars, callVars, eventVars, writerVars, followVars, deliveryVars, readerVars
<1>1. CASE Initialize
    BY <1>1 DEF Initialize
<1>2. CASE Call
    BY <1>2 DEF Call
<1>3. CASE CloseProgress
    BY <1>3 DEF CloseProgress
<1>4. CASE CallRejected
    BY <1>4 DEF CallRejected
<1>5. CASE Emit
    BY <1>5, EmitEffect DEF Emit
<1>6. CASE Written
    BY <1>6 DEF Written, WriteStep
<1>7. CASE WriteFails
    BY <1>7 DEF WriteFails, WriteStep
<1>8. CASE ReadyRefused
    BY <1>8 DEF ReadyRefused, WriteStep
<1>9. CASE LimitReached
    BY <1>9, LimitEffect DEF LimitReached, WriteStep
<1>10. CASE LimitRecorded
    BY <1>10, KeptFacts DEF LimitRecorded
<1>11. CASE Settle
    BY <1>11 DEF Settle
<1>12. CASE Deadline
    BY <1>12 DEF Deadline
<1>13. CASE Read
    BY <1>13, KeptFacts DEF Read, ReaderStep
<1>14. CASE KeepBack
    BY <1>14, HeadFacts DEF KeepBack, Replay, Replaying, ReaderStep
<1>15. CASE DropEvent
    BY <1>15, HeadFacts DEF DropEvent, Replay, Replaying, ReaderStep
<1>16. CASE ShowEvent
    BY <1>16, HeadFacts DEF ShowEvent, Replay, Replaying, ReaderStep
<1>17. CASE Delivered
    BY <1>17 DEF Delivered, ReaderStep
<1>18. CASE TurnEnds
    BY <1>18 DEF TurnEnds, ReaderStep
<1>19. CASE PollEnds
    BY <1>19 DEF PollEnds, ReaderStep
<1>20. CASE SinkSettles
    BY <1>20 DEF SinkSettles, ReaderStep
<1>21. CASE DrainEnds
    BY <1>21 DEF DrainEnds, ReaderStep
<1>22. CASE ShowFinal
    BY <1>22 DEF ShowFinal, ReaderStep
<1>23. CASE FinalShown
    BY <1>23 DEF FinalShown, ReaderStep
<1>24. CASE UNCHANGED vars
    BY <1>24
<1>25. QED
    BY <1>1, <1>2, <1>3, <1>4, <1>5, <1>6, <1>7, <1>8, <1>9, <1>10, <1>11, <1>12, <1>13, <1>14,
       <1>15, <1>16, <1>17, <1>18, <1>19, <1>20, <1>21, <1>22, <1>23, <1>24
    DEF Next, WriterStep, FollowStep

(* The numbers are natural, and calls are bounded.                         *)
LEMMA NumbersTyped ==
    IndInv /\ [Next]_vars =>
        /\ calls' \in 0..MaxCalls /\ queued' \in 0..MaxCalls /\ sequence' \in Nat
        /\ lastPersisted' \in Nat /\ cursor' \in Nat
<1> SUFFICES ASSUME TypeOK, WriterInv, [Next]_vars
             PROVE  /\ calls' \in 0..MaxCalls /\ queued' \in 0..MaxCalls /\ sequence' \in Nat
                    /\ lastPersisted' \in Nat /\ cursor' \in Nat
    BY DEF IndInv
<1>0. /\ calls \in 0..MaxCalls /\ queued \in 0..MaxCalls /\ sequence \in Nat /\ queued <= calls
      /\ lastPersisted \in Nat /\ cursor \in Nat /\ MaxCalls \in Nat
    BY MaxCallsAssumption DEF TypeOK, WriterInv
<1> USE <1>0
    DEF vars, callVars, eventVars, writerVars, followVars, deliveryVars, readerVars
<1>1. CASE Initialize
    BY <1>1 DEF Initialize
<1>2. CASE Call
    BY <1>2 DEF Call
<1>3. CASE CloseProgress
    BY <1>3 DEF CloseProgress
<1>4. CASE CallRejected
    BY <1>4 DEF CallRejected
<1>5. CASE Emit
    BY <1>5 DEF Emit
<1>6. CASE Written
    BY <1>6 DEF Written, WriteStep
<1>7. CASE WriteFails
    BY <1>7 DEF WriteFails, WriteStep
<1>8. CASE ReadyRefused
    BY <1>8 DEF ReadyRefused, WriteStep
<1>9. CASE LimitReached
    BY <1>9 DEF LimitReached, WriteStep
<1>10. CASE LimitRecorded
    BY <1>10 DEF LimitRecorded
<1>11. CASE Settle
    BY <1>11 DEF Settle
<1>12. CASE Deadline
    BY <1>12 DEF Deadline
<1>13. CASE Read
    BY <1>13 DEF Read, ReaderStep
<1>14. CASE KeepBack
    <2>1. Head(batch).sequence \in Nat
        BY <1>14, HeadFacts, EventFacts DEF KeepBack, Replaying, TypeOK
    <2>2. QED
        BY <1>14, <2>1 DEF KeepBack, Replay, ReaderStep
<1>15. CASE DropEvent
    <2>1. Head(batch).sequence \in Nat
        BY <1>15, HeadFacts, EventFacts DEF DropEvent, Replaying, TypeOK
    <2>2. QED
        BY <1>15, <2>1 DEF DropEvent, Replay, ReaderStep
<1>16. CASE ShowEvent
    <2>1. Head(batch).sequence \in Nat
        BY <1>16, HeadFacts, EventFacts DEF ShowEvent, Replaying, TypeOK
    <2>2. QED
        BY <1>16, <2>1 DEF ShowEvent, Replay, ReaderStep
<1>17. CASE Delivered
    BY <1>17 DEF Delivered, ReaderStep
<1>18. CASE TurnEnds
    BY <1>18 DEF TurnEnds, ReaderStep
<1>19. CASE PollEnds
    BY <1>19 DEF PollEnds, ReaderStep
<1>20. CASE SinkSettles
    BY <1>20 DEF SinkSettles, ReaderStep
<1>21. CASE DrainEnds
    BY <1>21 DEF DrainEnds, ReaderStep
<1>22. CASE ShowFinal
    BY <1>22 DEF ShowFinal, ReaderStep
<1>23. CASE FinalShown
    BY <1>23 DEF FinalShown, ReaderStep
<1>24. CASE UNCHANGED vars
    BY <1>24
<1>25. QED
    BY <1>1, <1>2, <1>3, <1>4, <1>5, <1>6, <1>7, <1>8, <1>9, <1>10, <1>11, <1>12, <1>13, <1>14,
       <1>15, <1>16, <1>17, <1>18, <1>19, <1>20, <1>21, <1>22, <1>23, <1>24
    DEF Next, WriterStep, FollowStep

(* What is kept back are events.                                           *)
LEMMA EventsTyped ==
    IndInv /\ [Next]_vars =>
        /\ ready' \in Event \cup {NoEvent} /\ failure' \in Event \cup {NoEvent}
<1> SUFFICES ASSUME TypeOK, [Next]_vars
             PROVE  /\ ready' \in Event \cup {NoEvent} /\ failure' \in Event \cup {NoEvent}
    BY DEF IndInv
<1>0. /\ ready \in Event \cup {NoEvent} /\ failure \in Event \cup {NoEvent}
    BY DEF TypeOK
<1> USE <1>0
    DEF vars, callVars, eventVars, writerVars, followVars, deliveryVars, readerVars
<1>1. CASE Initialize
    BY <1>1 DEF Initialize
<1>2. CASE Call
    BY <1>2 DEF Call
<1>3. CASE CloseProgress
    BY <1>3 DEF CloseProgress
<1>4. CASE CallRejected
    BY <1>4 DEF CallRejected
<1>5. CASE Emit
    BY <1>5 DEF Emit
<1>6. CASE Written
    BY <1>6 DEF Written, WriteStep
<1>7. CASE WriteFails
    BY <1>7 DEF WriteFails, WriteStep
<1>8. CASE ReadyRefused
    BY <1>8 DEF ReadyRefused, WriteStep
<1>9. CASE LimitReached
    BY <1>9 DEF LimitReached, WriteStep
<1>10. CASE LimitRecorded
    BY <1>10 DEF LimitRecorded
<1>11. CASE Settle
    BY <1>11 DEF Settle
<1>12. CASE Deadline
    BY <1>12 DEF Deadline
<1>13. CASE Read
    BY <1>13 DEF Read, ReaderStep
<1>14. CASE KeepBack
    <2>1. Head(batch) \in Event
        BY <1>14, HeadFacts DEF KeepBack, Replaying, TypeOK
    <2>2. QED
        BY <1>14, <2>1 DEF KeepBack
<1>15. CASE DropEvent
    BY <1>15 DEF DropEvent, Replay, Replaying, ReaderStep
<1>16. CASE ShowEvent
    BY <1>16 DEF ShowEvent, Replay, Replaying, ReaderStep
<1>17. CASE Delivered
    BY <1>17 DEF Delivered, ReaderStep
<1>18. CASE TurnEnds
    BY <1>18 DEF TurnEnds, ReaderStep
<1>19. CASE PollEnds
    BY <1>19 DEF PollEnds, ReaderStep
<1>20. CASE SinkSettles
    BY <1>20 DEF SinkSettles, ReaderStep
<1>21. CASE DrainEnds
    BY <1>21 DEF DrainEnds, ReaderStep
<1>22. CASE ShowFinal
    BY <1>22 DEF ShowFinal, ReaderStep
<1>23. CASE FinalShown
    BY <1>23 DEF FinalShown, ReaderStep
<1>24. CASE UNCHANGED vars
    BY <1>24
<1>25. QED
    BY <1>1, <1>2, <1>3, <1>4, <1>5, <1>6, <1>7, <1>8, <1>9, <1>10, <1>11, <1>12, <1>13, <1>14,
       <1>15, <1>16, <1>17, <1>18, <1>19, <1>20, <1>21, <1>22, <1>23, <1>24
    DEF Next, WriterStep, FollowStep

(* The steps of the parts.                                                 *)
LEMMA StepsTyped ==
    IndInv /\ [Next]_vars =>
        /\ persist' \in {"idle", "writing", "limiting"}
        /\ outcome' \in {"pending", "started", "failed"}
        /\ follow' \in {"reading", "replaying", "delivering", "polling", "ended"}
        /\ observe' \in {"attempt", "drain", "sink", "delivery", "done"}
        /\ warned' \subseteq {"journal", "output"}
<1> SUFFICES ASSUME TypeOK, [Next]_vars
             PROVE  /\ persist' \in {"idle", "writing", "limiting"}
                    /\ outcome' \in {"pending", "started", "failed"}
                    /\ follow' \in {"reading", "replaying", "delivering", "polling", "ended"}
                    /\ observe' \in {"attempt", "drain", "sink", "delivery", "done"}
                    /\ warned' \subseteq {"journal", "output"}
    BY DEF IndInv
<1>0. /\ persist \in {"idle", "writing", "limiting"}
      /\ outcome \in {"pending", "started", "failed"}
      /\ follow \in {"reading", "replaying", "delivering", "polling", "ended"}
      /\ observe \in {"attempt", "drain", "sink", "delivery", "done"}
      /\ warned \subseteq {"journal", "output"}
    BY DEF TypeOK
<1> USE <1>0
    DEF vars, callVars, eventVars, writerVars, followVars, deliveryVars, readerVars
<1>1. CASE Initialize
    BY <1>1 DEF Initialize
<1>2. CASE Call
    BY <1>2 DEF Call
<1>3. CASE CloseProgress
    BY <1>3 DEF CloseProgress
<1>4. CASE CallRejected
    BY <1>4 DEF CallRejected
<1>5. CASE Emit
    BY <1>5 DEF Emit
<1>6. CASE Written
    BY <1>6 DEF Written, WriteStep
<1>7. CASE WriteFails
    BY <1>7 DEF WriteFails, WriteStep
<1>8. CASE ReadyRefused
    BY <1>8 DEF ReadyRefused, WriteStep
<1>9. CASE LimitReached
    BY <1>9 DEF LimitReached, WriteStep
<1>10. CASE LimitRecorded
    BY <1>10 DEF LimitRecorded
<1>11. CASE Settle
    BY <1>11 DEF Settle
<1>12. CASE Deadline
    BY <1>12 DEF Deadline
<1>13. CASE Read
    BY <1>13 DEF Read, ReaderStep
<1>14. CASE KeepBack
    BY <1>14 DEF KeepBack, Replay, Replaying, ReaderStep
<1>15. CASE DropEvent
    BY <1>15 DEF DropEvent, Replay, Replaying, ReaderStep
<1>16. CASE ShowEvent
    BY <1>16 DEF ShowEvent, Replay, Replaying, ReaderStep
<1>17. CASE Delivered
    BY <1>17 DEF Delivered, ReaderStep
<1>18. CASE TurnEnds
    BY <1>18 DEF TurnEnds, ReaderStep
<1>19. CASE PollEnds
    BY <1>19 DEF PollEnds, ReaderStep
<1>20. CASE SinkSettles
    BY <1>20 DEF SinkSettles, ReaderStep
<1>21. CASE DrainEnds
    BY <1>21 DEF DrainEnds, ReaderStep
<1>22. CASE ShowFinal
    BY <1>22 DEF ShowFinal, ReaderStep
<1>23. CASE FinalShown
    BY <1>23 DEF FinalShown, ReaderStep
<1>24. CASE UNCHANGED vars
    BY <1>24
<1>25. QED
    BY <1>1, <1>2, <1>3, <1>4, <1>5, <1>6, <1>7, <1>8, <1>9, <1>10, <1>11, <1>12, <1>13, <1>14,
       <1>15, <1>16, <1>17, <1>18, <1>19, <1>20, <1>21, <1>22, <1>23, <1>24
    DEF Next, WriterStep, FollowStep

-----------------------------------------------------------------------------
(* What the steps do to the journal and to the terminal                    *)

(* No event of the journal is beyond its end.                               *)
LEMMA EndFacts ==
    ASSUME file \in Seq(Event), InOrder(file)
    PROVE  /\ FileEnd \in Nat
           /\ \A e \in ToSet(file) : e.sequence <= FileEnd /\ e.sequence >= 1 /\ file # <<>>
           /\ file # <<>> => Last(file) \in Event /\ FileEnd = Last(file).sequence /\ FileEnd >= 1
           /\ \A e \in ToSet(file) : e.status \in Final \/ e.sequence = FileEnd => e = Last(file)
<1>1. CASE file = <<>>
    BY <1>1 DEF FileEnd, ToSet
<1>2. CASE file # <<>>
    <2>1. FileEnd = Last(file).sequence
        BY <1>2 DEF FileEnd
    <2>2. Last(file) \in Event /\ FileEnd \in Nat /\ FileEnd >= 1
        BY <1>2, <2>1, LastFacts, EventFacts
    <2>3. ASSUME NEW e \in ToSet(file)
          PROVE  /\ e.sequence <= FileEnd /\ e.sequence >= 1
                 /\ e.status \in Final \/ e.sequence = FileEnd => e = Last(file)
        <3>1. e \in Event /\ e.sequence \in Nat /\ e.sequence >= 1
            BY EventFacts
        <3>2. e = Last(file) \/ (e.sequence < FileEnd /\ e.status \notin Final)
            BY <1>2, <2>1, LastFacts
        <3>3. CASE e = Last(file)
            BY <2>1, <2>2, <3>1, <3>3
        <3>4. CASE e.sequence < FileEnd /\ e.status \notin Final
            BY <2>2, <3>1, <3>4
        <3>5. QED
            BY <3>2, <3>3, <3>4
    <2>4. QED
        BY <1>2, <2>1, <2>2, <2>3
<1>3. QED
    BY <1>1, <1>2

(* Every change of the journal makes the last event of the host its end,    *)
(* keeps the transitions, and comes before the final event.                *)
LEMMA FileChange ==
    ASSUME IndInv, Written \/ (LimitRecorded /\ file' # file)
    PROVE  /\ file' \in Seq(Event) /\ InOrder(file')
           /\ file' # <<>> /\ Last(file') = Last(history)
           /\ FileEnd' = sequence /\ FileEnd < sequence
           /\ ToSet(file') \subseteq ToSet(history)
           /\ \A e \in ToSet(file) : e.status # "progress" => e \in ToSet(file')
           /\ ~EndsWith(file, Final) /\ FileEnd <= lastPersisted
<1>0. /\ TypeOK /\ WriterInv /\ FileInv
      /\ history \in Seq(Event) /\ file \in Seq(Event)
      /\ sequence \in Nat /\ lastPersisted \in Nat /\ FileEnd \in Nat
    BY NumberFacts, EndFacts DEF IndInv, TypeOK, FileInv
<1>1. persist \in {"writing", "limiting"}
    BY DEF Written, WriteStep, LimitRecorded
<1>2. ~Over
    BY <1>1 DEF Over
<1>3. /\ history # <<>> /\ InOrder(history) /\ Last(history).sequence = sequence
      /\ lastPersisted < sequence /\ UpTo(history, sequence)
    BY <1>0, <1>1 DEF WriterInv
<1>4. FileEnd < sequence /\ FileEnd <= lastPersisted /\ ~EndsWith(file, Final)
    BY <1>0, <1>1, <1>2 DEF FileInv
<1>5. \A e \in ToSet(file) : e.status # "progress" => e \in ToSet(history)
    BY <1>0 DEF FileInv
<1>6. CASE Written
    <2>1. file' = history
        BY <1>6 DEF Written
    <2>2. FileEnd' = sequence
        BY <1>3, <2>1 DEF FileEnd
    <2>3. QED
        BY <1>0, <1>3, <1>4, <1>5, <2>1, <2>2
<1>7. CASE LimitRecorded /\ file' # file
    <2> DEFINE S == {e \in Event : e.sequence \in 1..lastPersisted \cup {sequence}}
    <2>1. file' = Kept(history, S)
        BY <1>7 DEF LimitRecorded
    <2> HIDE DEF S
    <2>2. /\ file' \in Seq(Event) /\ InOrder(file')
          /\ ToSet(file') = ToSet(history) \cap S
        BY <1>0, <1>3, <2>1, KeptFacts
    <2>3. Last(history) \in ToSet(file')
        BY <1>0, <1>3, <2>2, LastFacts DEF S
    <2>4. file' # <<>>
        BY <2>3 DEF ToSet
    <2>5. Last(file') \in ToSet(file') /\ Last(file') \in Event
        BY <2>2, <2>4, LastFacts
    <2>6. Last(file').sequence <= sequence /\ Last(file').sequence \in Nat
        BY <1>3, <2>2, <2>5, EventFacts DEF UpTo
    <2>7. Last(history) = Last(file') \/ Last(history).sequence < Last(file').sequence
        BY <2>2, <2>3, <2>4, LastFacts
    <2>8. Last(file') = Last(history)
        BY <1>0, <1>3, <2>6, <2>7
    <2>9. FileEnd' = sequence
        BY <1>3, <2>4, <2>8 DEF FileEnd
    <2>10. ASSUME NEW e \in ToSet(file), e.status # "progress" PROVE e \in ToSet(file')
        <3>1. e \in ToSet(history) /\ e \in Event
            BY <1>0, <1>5, <2>10, EventFacts
        <3>2. e.sequence <= FileEnd /\ e.sequence >= 1 /\ e.sequence \in Nat
            BY <1>0, <3>1, EndFacts, EventFacts DEF FileInv
        <3>3. e.sequence \in 1..lastPersisted
            BY <1>0, <1>4, <3>2
        <3>4. QED
            BY <2>2, <3>1, <3>3 DEF S
    <2>11. QED
        BY <1>4, <2>2, <2>4, <2>8, <2>9, <2>10
<1>8. QED
    BY <1>6, <1>7

(* What is replayed next is new, and nothing has been kept back yet.        *)
LEMMA ReplayFacts ==
    ASSUME IndInv, batch # <<>>
    PROVE  /\ Head(batch) \in Event /\ Tail(batch) \in Seq(Event)
           /\ cursor < Head(batch).sequence /\ Head(batch).sequence <= FileEnd
           /\ FileEnd \in Nat /\ file # <<>>
           /\ Head(batch).status \in Final \/ Head(batch).sequence = FileEnd =>
                  Head(batch) = Last(file)
           /\ ready = NoEvent /\ failure = NoEvent
           /\ InOrder(Tail(batch))
           /\ \A e \in ToSet(Tail(batch)) :
                 /\ Head(batch).sequence < e.sequence /\ e.sequence <= FileEnd
                 /\ e.status \in Final \/ e.sequence = FileEnd => e = Last(file)
           /\ Head(batch).status \in Final => Tail(batch) = <<>>
<1>1. /\ batch \in Seq(Event) /\ file \in Seq(Event) /\ cursor \in Nat
      /\ InOrder(batch) /\ InOrder(file) /\ FileEnd \in Nat
      /\ TypeOK /\ ReaderInv
    BY EndFacts DEF IndInv, TypeOK, ReaderInv, FileInv
<1>2. /\ Head(batch) \in Event /\ Head(batch) \in ToSet(batch) /\ Head(batch).sequence \in Nat
      /\ Tail(batch) \in Seq(Event) /\ ToSet(Tail(batch)) \subseteq ToSet(batch)
      /\ InOrder(Tail(batch))
      /\ \A e \in ToSet(Tail(batch)) :
            Head(batch).sequence < e.sequence /\ Head(batch).status \notin Final
    BY <1>1, HeadFacts, EventFacts
<1>3. \A e \in ToSet(batch) :
         /\ cursor < e.sequence /\ e.sequence <= FileEnd
         /\ e.status \in Final \/ e.sequence = FileEnd => e = Last(file)
    BY <1>1 DEF ReaderInv
<1>4. cursor < FileEnd
    BY <1>1, <1>2, <1>3
<1>5. ready = NoEvent /\ failure = NoEvent
    <2>1. \A e \in {ready, failure} \ {NoEvent} : cursor = FileEnd
        BY <1>1 DEF ReaderInv
    <2>2. cursor # FileEnd
        BY <1>1, <1>4
    <2>3. QED
        BY <2>1, <2>2
<1>6. file # <<>>
    BY <1>1, <1>4 DEF FileEnd
<1>7. Head(batch).status \in Final => Tail(batch) = <<>>
    <2>1. Tail(batch) # <<>> => Last(Tail(batch)) \in ToSet(Tail(batch))
        BY <1>2, LastFacts
    <2>2. QED
        BY <1>2, <2>1
<1>8. QED
    BY <1>1, <1>2, <1>3, <1>5, <1>6, <1>7

(* A shown transition comes after all others, and none of them is final.    *)
LEMMA ShowEffect ==
    ASSUME IndInv, ShowEvent
    PROVE  /\ shown' \in Seq(Event) /\ InOrder(shown')
           /\ \A e \in ToSet(shown') : e.status \notin Final /\ e.sequence <= cursor'
<1>1. batch # <<>> /\ ~drained /\ Head(batch).status \notin Final
      /\ shown' = Append(shown, Head(batch)) /\ cursor' = Head(batch).sequence
    BY DEF ShowEvent, Replay, Replaying
<1>2. shown \in Seq(Event) /\ cursor \in Nat /\ InOrder(shown)
    BY DEF IndInv, TypeOK, ShownInv
<1>3. Head(batch) \in Event /\ cursor < Head(batch).sequence /\ Head(batch).sequence \in Nat
    BY <1>1, ReplayFacts, EventFacts
<1>4. observe \in {"attempt", "drain", "sink"}
    BY <1>1 DEF IndInv, TypeOK, ShownInv
<1>5. \A e \in ToSet(shown) : e.status \notin Final /\ e.sequence <= cursor /\ e.sequence \in Nat
    BY <1>2, <1>4, EventFacts DEF IndInv, ShownInv
<1>6. \A e \in ToSet(shown) : e.sequence < Head(batch).sequence
    BY <1>2, <1>3, <1>5
<1>7. /\ shown' \in Seq(Event) /\ InOrder(shown')
      /\ ToSet(shown') = ToSet(shown) \cup {Head(batch)}
    BY <1>1, <1>2, <1>3, <1>5, <1>6, AppendFacts
<1>8. \A e \in ToSet(shown') : e.status \notin Final /\ e.sequence <= cursor'
    BY <1>1, <1>3, <1>5, <1>6, <1>7
<1>9. QED
    BY <1>7, <1>8

(* So does the final event, which says how the attempt has ended.           *)
LEMMA FinalEffect ==
    ASSUME IndInv, ShowFinal
    PROVE  /\ shown' \in Seq(Event) /\ InOrder(shown')
           /\ shown' # <<>>
           /\ Last(shown').status = IF outcome = "started" THEN "ready" ELSE "failed"
           /\ outcome = "started" \/ failure # NoEvent
<1>0. observe = "sink" /\ shown' = Append(shown, FinalEvent)
    BY DEF ShowFinal
<1>1. /\ shown \in Seq(Event) /\ cursor \in Nat /\ InOrder(shown)
      /\ ready \in Event \cup {NoEvent} /\ failure \in Event \cup {NoEvent}
      /\ outcome \in {"started", "failed"}
    BY <1>0 DEF IndInv, TypeOK, ShownInv
<1>2. \A e \in ToSet(shown) :
         /\ e.status \notin Final /\ e.sequence <= cursor /\ e.sequence \in Nat
         /\ {ready, failure} # {NoEvent} => e.sequence < cursor
    BY <1>0, <1>1, EventFacts DEF IndInv, ShownInv
<1>3. /\ FinalEvent \in Event
      /\ FinalEvent.status = IF outcome = "started" THEN "ready" ELSE "failed"
      /\ \A e \in ToSet(shown) : e.sequence < FinalEvent.sequence
    <2>1. CASE outcome = "failed"
        <3>1. failure # NoEvent /\ FinalEvent = failure
            BY <1>0, <2>1 DEF FinalEvent, IndInv, ShownInv
        <3>2. failure.status = "failed" /\ failure = Last(file) /\ cursor = FileEnd
              /\ EndsWith(file, Final)
            BY <3>1 DEF IndInv, ReaderInv
        <3>3. cursor = failure.sequence
            BY <3>2 DEF FileEnd, EndsWith
        <3>4. QED
            BY <1>1, <1>2, <2>1, <3>1, <3>2, <3>3
    <2>2. CASE outcome = "started" /\ ready # NoEvent
        <3>1. FinalEvent = ready
            BY <2>2 DEF FinalEvent
        <3>2. ready.status = "ready" /\ ready = Last(file) /\ cursor = FileEnd
              /\ EndsWith(file, Final)
            BY <2>2 DEF IndInv, ReaderInv
        <3>3. cursor = ready.sequence
            BY <3>2 DEF FileEnd, EndsWith
        <3>4. QED
            BY <1>1, <1>2, <2>2, <3>1, <3>2, <3>3
    <2>3. CASE outcome = "started" /\ ready = NoEvent
        <3>1. FinalEvent = [sequence |-> cursor + 1, status |-> "ready"]
            BY <2>3 DEF FinalEvent
        <3>2. cursor <= FileEnd /\ FileEnd <= sequence /\ FileEnd \in Nat
            BY EndFacts DEF IndInv, TypeOK, ReaderInv, FileInv
        <3>3. sequence <= 2 * MaxCalls /\ sequence \in Nat /\ MaxCalls \in Nat
            BY NumberFacts DEF IndInv
        <3>4. cursor + 1 \in Nat /\ 1 <= cursor + 1 /\ cursor + 1 <= 2 * MaxCalls + 1
            BY <1>1, <3>2, <3>3
        <3>5. "ready" \in Statuses
            BY DEF Statuses
        <3>6. FinalEvent \in Event
            BY <3>1, <3>4, <3>5, EventFacts
        <3>7. FinalEvent.sequence = cursor + 1 /\ FinalEvent.status = "ready"
            BY <3>1
        <3>8. \A e \in ToSet(shown) : e.sequence < cursor + 1
            BY <1>1, <1>2
        <3>9. QED
            BY <2>3, <3>6, <3>7, <3>8
    <2>4. QED
        BY <1>1, <2>1, <2>2, <2>3
<1>4. /\ shown' \in Seq(Event) /\ InOrder(shown') /\ shown' # <<>>
      /\ Last(shown') = FinalEvent
    BY <1>0, <1>1, <1>2, <1>3, AppendFacts
<1>5. outcome = "started" \/ failure # NoEvent
    BY <1>0, <1>1 DEF IndInv, ShownInv
<1>6. QED
    BY <1>3, <1>4, <1>5

(* The flags.                                                              *)
LEMMA FlagsTyped ==
    IndInv /\ [Next]_vars =>
        /\ limited' \in BOOLEAN /\ disabled' \in BOOLEAN /\ closed' \in BOOLEAN
        /\ initialized' \in BOOLEAN /\ known' \in BOOLEAN /\ finalRead' \in BOOLEAN
        /\ late' \in BOOLEAN /\ unread' \in BOOLEAN /\ drained' \in BOOLEAN /\ inFlight' \in BOOLEAN
<1> SUFFICES ASSUME TypeOK, [Next]_vars
             PROVE  /\ limited' \in BOOLEAN /\ disabled' \in BOOLEAN /\ closed' \in BOOLEAN
                    /\ initialized' \in BOOLEAN /\ known' \in BOOLEAN /\ finalRead' \in BOOLEAN
                    /\ late' \in BOOLEAN /\ unread' \in BOOLEAN /\ drained' \in BOOLEAN /\ inFlight' \in BOOLEAN
    BY DEF IndInv
<1>0. /\ limited \in BOOLEAN /\ disabled \in BOOLEAN /\ closed \in BOOLEAN
      /\ initialized \in BOOLEAN /\ known \in BOOLEAN /\ finalRead \in BOOLEAN
      /\ late \in BOOLEAN /\ unread \in BOOLEAN /\ drained \in BOOLEAN /\ inFlight \in BOOLEAN
    BY DEF TypeOK
<1> USE <1>0
    DEF vars, callVars, eventVars, writerVars, followVars, deliveryVars, readerVars
<1>1. CASE Initialize
    BY <1>1 DEF Initialize
<1>2. CASE Call
    BY <1>2 DEF Call
<1>3. CASE CloseProgress
    BY <1>3 DEF CloseProgress
<1>4. CASE CallRejected
    BY <1>4 DEF CallRejected
<1>5. CASE Emit
    BY <1>5 DEF Emit
<1>6. CASE Written
    BY <1>6 DEF Written, WriteStep
<1>7. CASE WriteFails
    BY <1>7 DEF WriteFails, WriteStep, EndsWith
<1>8. CASE ReadyRefused
    BY <1>8 DEF ReadyRefused, WriteStep
<1>9. CASE LimitReached
    BY <1>9 DEF LimitReached, WriteStep
<1>10. CASE LimitRecorded
    BY <1>10 DEF LimitRecorded
<1>11. CASE Settle
    BY <1>11 DEF Settle, EndsWith
<1>12. CASE Deadline
    BY <1>12 DEF Deadline
<1>13. CASE Read
    BY <1>13 DEF Read, ReaderStep
<1>14. CASE KeepBack
    BY <1>14 DEF KeepBack, Replay, Replaying, ReaderStep
<1>15. CASE DropEvent
    BY <1>15 DEF DropEvent, Replay, Replaying, ReaderStep
<1>16. CASE ShowEvent
    BY <1>16 DEF ShowEvent, Replay, Replaying, ReaderStep
<1>17. CASE Delivered
    BY <1>17 DEF Delivered, ReaderStep
<1>18. CASE TurnEnds
    BY <1>18 DEF TurnEnds, ReaderStep
<1>19. CASE PollEnds
    BY <1>19 DEF PollEnds, ReaderStep
<1>20. CASE SinkSettles
    BY <1>20 DEF SinkSettles, ReaderStep
<1>21. CASE DrainEnds
    BY <1>21 DEF DrainEnds, ReaderStep
<1>22. CASE ShowFinal
    BY <1>22 DEF ShowFinal, ReaderStep
<1>23. CASE FinalShown
    BY <1>23 DEF FinalShown, ReaderStep
<1>24. CASE UNCHANGED vars
    BY <1>24
<1>25. QED
    BY <1>1, <1>2, <1>3, <1>4, <1>5, <1>6, <1>7, <1>8, <1>9, <1>10, <1>11, <1>12, <1>13, <1>14,
       <1>15, <1>16, <1>17, <1>18, <1>19, <1>20, <1>21, <1>22, <1>23, <1>24
    DEF Next, WriterStep, FollowStep

(* The calls of the sink.                                                  *)
LEMMA ShownTyped == IndInv /\ [Next]_vars => shown' \in Seq(Event)
<1> SUFFICES ASSUME IndInv, [Next]_vars
             PROVE  shown' \in Seq(Event)
    BY DEF IndInv
<1>0. shown \in Seq(Event)
    BY DEF IndInv, TypeOK
<1> USE <1>0
    DEF vars, callVars, eventVars, writerVars, followVars, deliveryVars, readerVars
<1>1. CASE Initialize
    BY <1>1 DEF Initialize
<1>2. CASE Call
    BY <1>2 DEF Call
<1>3. CASE CloseProgress
    BY <1>3 DEF CloseProgress
<1>4. CASE CallRejected
    BY <1>4 DEF CallRejected
<1>5. CASE Emit
    BY <1>5 DEF Emit
<1>6. CASE Written
    BY <1>6 DEF Written, WriteStep
<1>7. CASE WriteFails
    BY <1>7 DEF WriteFails, WriteStep
<1>8. CASE ReadyRefused
    BY <1>8 DEF ReadyRefused, WriteStep
<1>9. CASE LimitReached
    BY <1>9 DEF LimitReached, WriteStep
<1>10. CASE LimitRecorded
    BY <1>10 DEF LimitRecorded
<1>11. CASE Settle
    BY <1>11 DEF Settle
<1>12. CASE Deadline
    BY <1>12 DEF Deadline
<1>13. CASE Read
    BY <1>13 DEF Read, ReaderStep
<1>14. CASE KeepBack
    BY <1>14 DEF KeepBack, Replay, Replaying, ReaderStep
<1>15. CASE DropEvent
    BY <1>15 DEF DropEvent, Replay, Replaying, ReaderStep
<1>16. CASE ShowEvent
    BY <1>16, ShowEffect
<1>17. CASE Delivered
    BY <1>17 DEF Delivered, ReaderStep
<1>18. CASE TurnEnds
    BY <1>18 DEF TurnEnds, ReaderStep
<1>19. CASE PollEnds
    BY <1>19 DEF PollEnds, ReaderStep
<1>20. CASE SinkSettles
    BY <1>20 DEF SinkSettles, ReaderStep
<1>21. CASE DrainEnds
    BY <1>21 DEF DrainEnds, ReaderStep
<1>22. CASE ShowFinal
    BY <1>22, FinalEffect
<1>23. CASE FinalShown
    BY <1>23 DEF FinalShown, ReaderStep
<1>24. CASE UNCHANGED vars
    BY <1>24
<1>25. QED
    BY <1>1, <1>2, <1>3, <1>4, <1>5, <1>6, <1>7, <1>8, <1>9, <1>10, <1>11, <1>12, <1>13, <1>14,
       <1>15, <1>16, <1>17, <1>18, <1>19, <1>20, <1>21, <1>22, <1>23, <1>24
    DEF Next, WriterStep, FollowStep

(* Type correctness is inductive, together with what bounds the sequence.   *)
LEMMA TypeKept == IndInv /\ [Next]_vars => TypeOK'
<1> SUFFICES ASSUME IndInv, [Next]_vars PROVE TypeOK'
    OBVIOUS
<1>1. QED
    BY SeqsTyped, NumbersTyped, EventsTyped, StepsTyped, FlagsTyped, ShownTyped DEF TypeOK

-----------------------------------------------------------------------------
(* The steps                                                               *)

(* Only two steps of the host touch the journal.                            *)
LEMMA FileStill == [Next]_vars => file' = file \/ Written \/ (LimitRecorded /\ file' # file)
<1> SUFFICES ASSUME [Next]_vars PROVE file' = file \/ Written \/ LimitRecorded
    OBVIOUS
<1> USE DEF vars, callVars, eventVars, writerVars, followVars, deliveryVars, readerVars
<1>1. CASE Initialize
    BY <1>1 DEF Initialize
<1>2. CASE Call
    BY <1>2 DEF Call
<1>3. CASE CloseProgress
    BY <1>3 DEF CloseProgress
<1>4. CASE CallRejected
    BY <1>4 DEF CallRejected
<1>5. CASE Emit
    BY <1>5 DEF Emit
<1>6. CASE Written
    BY <1>6
<1>7. CASE WriteFails
    BY <1>7 DEF WriteFails, WriteStep
<1>8. CASE ReadyRefused
    BY <1>8 DEF ReadyRefused, WriteStep
<1>9. CASE LimitReached
    BY <1>9 DEF LimitReached, WriteStep
<1>10. CASE LimitRecorded
    BY <1>10
<1>11. CASE Settle
    BY <1>11 DEF Settle
<1>12. CASE Deadline
    BY <1>12 DEF Deadline
<1>13. CASE Read
    BY <1>13 DEF Read, ReaderStep
<1>14. CASE KeepBack
    BY <1>14 DEF KeepBack, Replay, Replaying, ReaderStep
<1>15. CASE DropEvent
    BY <1>15 DEF DropEvent, Replay, Replaying, ReaderStep
<1>16. CASE ShowEvent
    BY <1>16 DEF ShowEvent, Replay, Replaying, ReaderStep
<1>17. CASE Delivered
    BY <1>17 DEF Delivered, ReaderStep
<1>18. CASE TurnEnds
    BY <1>18 DEF TurnEnds, ReaderStep
<1>19. CASE PollEnds
    BY <1>19 DEF PollEnds, ReaderStep
<1>20. CASE SinkSettles
    BY <1>20 DEF SinkSettles, ReaderStep
<1>21. CASE DrainEnds
    BY <1>21 DEF DrainEnds, ReaderStep
<1>22. CASE ShowFinal
    BY <1>22 DEF ShowFinal, ReaderStep
<1>23. CASE FinalShown
    BY <1>23 DEF FinalShown, ReaderStep
<1>24. CASE UNCHANGED vars
    BY <1>24
<1>25. QED
    BY <1>1, <1>2, <1>3, <1>4, <1>5, <1>6, <1>7, <1>8, <1>9, <1>10, <1>11, <1>12, <1>13, <1>14,
       <1>15, <1>16, <1>17, <1>18, <1>19, <1>20, <1>21, <1>22, <1>23, <1>24
    DEF Next, WriterStep, FollowStep

(* The host.                                                               *)
LEMMA WriterKept == IndInv /\ [Next]_vars => WriterInv'
<1> SUFFICES ASSUME TypeOK, WriterInv, [Next]_vars
             PROVE  WriterInv'
    BY DEF IndInv
<1>0. /\ calls \in Nat /\ queued \in Nat /\ sequence \in Nat /\ lastPersisted \in Nat
      /\ WriterInv
    BY NumberFacts
<1> USE DEF WriterInv, vars, callVars, eventVars, writerVars, followVars, deliveryVars, readerVars
<1>1. CASE Initialize
    BY <1>1 DEF Initialize
<1>2. CASE Call
    <2>1. queued' = queued + 1 /\ calls' = calls + 1 /\ UNCHANGED <<eventVars, persist,
       lastPersisted>>
        BY <1>2 DEF Call
    <2>2. sequence + 2 * (queued + 1) <= 2 * (calls + 1) /\ queued + 1 <= calls + 1
        BY <1>0
    <2>3. sequence + 2 * queued < 2 * calls => sequence + 2 * (queued + 1) < 2 * (calls + 1)
        BY <1>0
    <2>4. QED
        BY <1>0, <2>1, <2>2, <2>3
<1>3. CASE CloseProgress
    BY <1>3 DEF CloseProgress
<1>4. CASE CallRejected
    <2>1. queued > 0 /\ persist = "idle" /\ queued' = queued - 1
          /\ UNCHANGED <<calls, eventVars, persist, lastPersisted>>
        BY <1>4 DEF CallRejected
    <2>2. sequence + 2 * (queued - 1) <= 2 * calls /\ queued - 1 <= calls
        BY <1>0, <2>1
    <2>3. QED
        BY <1>0, <2>1, <2>2
<1>5. CASE Emit
    <2>1. /\ queued > 0 /\ queued' = queued - 1 /\ calls' = calls /\ sequence' = sequence + 1
          /\ persist' = "writing" /\ lastPersisted' = lastPersisted
        BY <1>5 DEF Emit
    <2>2. /\ sequence + 1 + 2 * (queued - 1) < 2 * calls /\ queued - 1 <= calls
          /\ sequence + 1 + 2 * (queued - 1) <= 2 * calls /\ lastPersisted < sequence + 1
          /\ lastPersisted <= sequence + 1
        BY <1>0, <2>1
    <2>3. /\ history' # <<>> /\ InOrder(history') /\ UpTo(history', sequence + 1)
          /\ Last(history').sequence = sequence + 1
        BY <1>5, EmitEffect
    <2>4. QED
        BY <2>1, <2>2, <2>3
<1>6. CASE Written
    <2>1. /\ persist' = "idle" /\ lastPersisted' = sequence
          /\ UNCHANGED <<calls, queued, history, sequence>>
        BY <1>6 DEF Written, WriteStep
    <2>2. sequence <= sequence
        BY <1>0
    <2>3. QED
        BY <1>0, <2>1, <2>2
<1>7. CASE WriteFails
    BY <1>7 DEF WriteFails, WriteStep
<1>8. CASE ReadyRefused
    BY <1>8 DEF ReadyRefused, WriteStep
<1>9. CASE LimitReached
    <2>1. /\ persist = "writing" /\ persist' = "limiting" /\ sequence' = sequence + 1
          /\ UNCHANGED <<calls, queued, lastPersisted>>
        BY <1>9 DEF LimitReached, WriteStep
    <2>2. sequence + 2 * queued < 2 * calls
        BY <1>0, <2>1
    <2>3. /\ sequence + 1 + 2 * queued <= 2 * calls /\ queued <= calls
          /\ lastPersisted < sequence + 1 /\ lastPersisted <= sequence + 1
        BY <1>0, <2>2
    <2>4. /\ history' # <<>> /\ InOrder(history') /\ UpTo(history', sequence + 1)
          /\ Last(history').sequence = sequence + 1 /\ EndsWith(history', {"failed"})
        BY <1>9, LimitEffect
    <2>5. QED
        BY <2>1, <2>3, <2>4
<1>10. CASE LimitRecorded
    BY <1>10 DEF LimitRecorded
<1>11. CASE Settle
    BY <1>11 DEF Settle
<1>12. CASE Deadline
    BY <1>12 DEF Deadline
<1>13. CASE Read
    BY <1>13 DEF Read, ReaderStep
<1>14. CASE KeepBack
    BY <1>14 DEF KeepBack, Replay, Replaying, ReaderStep
<1>15. CASE DropEvent
    BY <1>15 DEF DropEvent, Replay, Replaying, ReaderStep
<1>16. CASE ShowEvent
    BY <1>16 DEF ShowEvent, Replay, Replaying, ReaderStep
<1>17. CASE Delivered
    BY <1>17 DEF Delivered, ReaderStep
<1>18. CASE TurnEnds
    BY <1>18 DEF TurnEnds, ReaderStep
<1>19. CASE PollEnds
    BY <1>19 DEF PollEnds, ReaderStep
<1>20. CASE SinkSettles
    BY <1>20 DEF SinkSettles, ReaderStep
<1>21. CASE DrainEnds
    BY <1>21 DEF DrainEnds, ReaderStep
<1>22. CASE ShowFinal
    BY <1>22 DEF ShowFinal, ReaderStep
<1>23. CASE FinalShown
    BY <1>23 DEF FinalShown, ReaderStep
<1>24. CASE UNCHANGED vars
    BY <1>24
<1>25. QED
    BY <1>1, <1>2, <1>3, <1>4, <1>5, <1>6, <1>7, <1>8, <1>9, <1>10, <1>11, <1>12, <1>13, <1>14,
       <1>15, <1>16, <1>17, <1>18, <1>19, <1>20, <1>21, <1>22, <1>23, <1>24
    DEF Next, WriterStep, FollowStep

(* The journal.                                                            *)
LEMMA FileKept == IndInv /\ [Next]_vars => FileInv'
<1> SUFFICES ASSUME IndInv, [Next]_vars
             PROVE  FileInv'
    BY DEF IndInv
<1>0. /\ FileInv /\ WriterInv /\ TypeOK
      /\ FileEnd \in Nat /\ sequence \in Nat /\ lastPersisted \in Nat /\ FileEnd <= sequence
    BY NumberFacts, EndFacts DEF IndInv, TypeOK, FileInv
<1> USE DEF vars, callVars, eventVars, writerVars, followVars, deliveryVars, readerVars
<1>1. CASE Initialize
    <2>1. UNCHANGED <<file, history, sequence, lastPersisted, persist>>
        BY <1>1 DEF Initialize
    <2>2. QED
        BY <1>0, <2>1 DEF FileInv, FileEnd, Over
<1>2. CASE Call
    <2>1. UNCHANGED <<file, history, sequence, lastPersisted, persist>>
        BY <1>2 DEF Call
    <2>2. QED
        BY <1>0, <2>1 DEF FileInv, FileEnd, Over
<1>3. CASE CloseProgress
    <2>1. UNCHANGED <<file, history, sequence, lastPersisted, persist>>
        BY <1>3 DEF CloseProgress
    <2>2. QED
        BY <1>0, <2>1 DEF FileInv, FileEnd, Over
<1>4. CASE CallRejected
    <2>1. UNCHANGED <<file, history, sequence, lastPersisted, persist>>
        BY <1>4 DEF CallRejected
    <2>2. QED
        BY <1>0, <2>1 DEF FileInv, FileEnd, Over
<1>5. CASE Emit
    <2>1. /\ file' = file /\ sequence' = sequence + 1 /\ persist = "idle" /\ persist' = "writing"
          /\ ~EndsWith(history, Final) /\ lastPersisted' = lastPersisted
        BY <1>5 DEF Emit
    <2>2. ~Over /\ ~EndsWith(file, Final) /\ FileEnd <= lastPersisted /\ FileEnd' = FileEnd
        BY <1>0, <2>1 DEF Over, FileEnd, FileInv
    <2>3. FileEnd < sequence + 1 /\ FileEnd <= sequence + 1
        BY <1>0
    <2>4. \A e \in ToSet(file) : e.status # "progress" => e \in ToSet(history')
        BY <1>0, <1>5, EmitEffect DEF FileInv
    <2>5. QED
        BY <1>0, <2>1, <2>2, <2>3, <2>4 DEF FileInv
<1>6. CASE Written
    <2>1. persist' = "idle" /\ history' = history /\ sequence' = sequence
          /\ lastPersisted' = sequence
        BY <1>6 DEF Written, WriteStep
    <2>2. /\ InOrder(file') /\ file' # <<>> /\ Last(file') = Last(history)
          /\ FileEnd' = sequence /\ ToSet(file') \subseteq ToSet(history)
        BY <1>6, FileChange
    <2>3. EndsWith(file', Final) => Over'
        <3>1. history # <<>>
            BY <1>0, <1>6 DEF WriterInv, Written, WriteStep
        <3>2. QED
            BY <2>1, <2>2, <3>1 DEF Over, EndsWith
    <2>4. sequence <= sequence
        BY <1>0
    <2>5. QED
        BY <2>1, <2>2, <2>3, <2>4 DEF FileInv
<1>7. CASE WriteFails
    <2>1. persist = "writing" /\ UNCHANGED <<file, history, sequence, lastPersisted>>
          /\ persist' = "idle"
        BY <1>7 DEF WriteFails, WriteStep
    <2>2. ~Over
        BY <2>1 DEF Over
    <2>3. QED
        BY <1>0, <2>1, <2>2 DEF FileInv, FileEnd
<1>8. CASE ReadyRefused
    <2>1. persist = "writing" /\ UNCHANGED <<file, history, sequence, lastPersisted>>
          /\ persist' = "idle"
        BY <1>8 DEF ReadyRefused, WriteStep
    <2>2. ~Over
        BY <2>1 DEF Over
    <2>3. QED
        BY <1>0, <2>1, <2>2 DEF FileInv, FileEnd
<1>9. CASE LimitReached
    <2>1. /\ file' = file /\ sequence' = sequence + 1 /\ persist = "writing"
          /\ persist' = "limiting" /\ lastPersisted' = lastPersisted
        BY <1>9 DEF LimitReached, WriteStep
    <2>2. ~Over /\ ~EndsWith(file, Final) /\ FileEnd <= lastPersisted /\ FileEnd' = FileEnd
        BY <1>0, <2>1 DEF Over, FileEnd, FileInv
    <2>3. FileEnd < sequence + 1 /\ FileEnd <= sequence + 1
        BY <1>0
    <2>4. \A e \in ToSet(file) : e.status # "progress" => e \in ToSet(history')
        BY <1>0, <1>9, LimitEffect DEF FileInv
    <2>5. QED
        BY <1>0, <2>1, <2>2, <2>3, <2>4 DEF FileInv
<1>10. CASE LimitRecorded
    <2>1. /\ persist = "limiting" /\ persist' = "idle"
          /\ history' = history /\ sequence' = sequence
        BY <1>10 DEF LimitRecorded
    <2>2. Over'
        BY <1>0, <2>1 DEF WriterInv, Over, EndsWith, Final
    <2>3. CASE file' = file
        BY <1>0, <2>1, <2>2, <2>3 DEF FileInv, FileEnd
    <2>4. CASE file' # file
        <3>1. /\ InOrder(file') /\ FileEnd' = sequence
              /\ ToSet(file') \subseteq ToSet(history)
            BY <1>10, <2>4, FileChange
        <3>2. sequence <= sequence
            BY <1>0
        <3>3. QED
            BY <2>1, <2>2, <3>1, <3>2 DEF FileInv
    <2>5. QED
        BY <2>3, <2>4
<1>11. CASE Settle
    <2>1. UNCHANGED <<file, history, sequence, lastPersisted, persist>>
        BY <1>11 DEF Settle
    <2>2. QED
        BY <1>0, <2>1 DEF FileInv, FileEnd, Over
<1>12. CASE Deadline
    <2>1. UNCHANGED <<file, history, sequence, lastPersisted, persist>>
        BY <1>12 DEF Deadline
    <2>2. QED
        BY <1>0, <2>1 DEF FileInv, FileEnd, Over
<1>13. CASE Read
    <2>1. UNCHANGED <<file, history, sequence, lastPersisted, persist>>
        BY <1>13 DEF Read, ReaderStep
    <2>2. QED
        BY <1>0, <2>1 DEF FileInv, FileEnd, Over
<1>14. CASE KeepBack
    <2>1. UNCHANGED <<file, history, sequence, lastPersisted, persist>>
        BY <1>14 DEF KeepBack, Replay, Replaying, ReaderStep
    <2>2. QED
        BY <1>0, <2>1 DEF FileInv, FileEnd, Over
<1>15. CASE DropEvent
    <2>1. UNCHANGED <<file, history, sequence, lastPersisted, persist>>
        BY <1>15 DEF DropEvent, Replay, Replaying, ReaderStep
    <2>2. QED
        BY <1>0, <2>1 DEF FileInv, FileEnd, Over
<1>16. CASE ShowEvent
    <2>1. UNCHANGED <<file, history, sequence, lastPersisted, persist>>
        BY <1>16 DEF ShowEvent, Replay, Replaying, ReaderStep
    <2>2. QED
        BY <1>0, <2>1 DEF FileInv, FileEnd, Over
<1>17. CASE Delivered
    <2>1. UNCHANGED <<file, history, sequence, lastPersisted, persist>>
        BY <1>17 DEF Delivered, ReaderStep
    <2>2. QED
        BY <1>0, <2>1 DEF FileInv, FileEnd, Over
<1>18. CASE TurnEnds
    <2>1. UNCHANGED <<file, history, sequence, lastPersisted, persist>>
        BY <1>18 DEF TurnEnds, ReaderStep
    <2>2. QED
        BY <1>0, <2>1 DEF FileInv, FileEnd, Over
<1>19. CASE PollEnds
    <2>1. UNCHANGED <<file, history, sequence, lastPersisted, persist>>
        BY <1>19 DEF PollEnds, ReaderStep
    <2>2. QED
        BY <1>0, <2>1 DEF FileInv, FileEnd, Over
<1>20. CASE SinkSettles
    <2>1. UNCHANGED <<file, history, sequence, lastPersisted, persist>>
        BY <1>20 DEF SinkSettles, ReaderStep
    <2>2. QED
        BY <1>0, <2>1 DEF FileInv, FileEnd, Over
<1>21. CASE DrainEnds
    <2>1. UNCHANGED <<file, history, sequence, lastPersisted, persist>>
        BY <1>21 DEF DrainEnds, ReaderStep
    <2>2. QED
        BY <1>0, <2>1 DEF FileInv, FileEnd, Over
<1>22. CASE ShowFinal
    <2>1. UNCHANGED <<file, history, sequence, lastPersisted, persist>>
        BY <1>22 DEF ShowFinal, ReaderStep
    <2>2. QED
        BY <1>0, <2>1 DEF FileInv, FileEnd, Over
<1>23. CASE FinalShown
    <2>1. UNCHANGED <<file, history, sequence, lastPersisted, persist>>
        BY <1>23 DEF FinalShown, ReaderStep
    <2>2. QED
        BY <1>0, <2>1 DEF FileInv, FileEnd, Over
<1>24. CASE UNCHANGED vars
    BY <1>0, <1>24 DEF FileInv, FileEnd, Over
<1>25. QED
    BY <1>1, <1>2, <1>3, <1>4, <1>5, <1>6, <1>7, <1>8, <1>9, <1>10, <1>11, <1>12, <1>13, <1>14,
       <1>15, <1>16, <1>17, <1>18, <1>19, <1>20, <1>21, <1>22, <1>23, <1>24
    DEF Next, WriterStep, FollowStep

(* The reader.                                                             *)
LEMMA ReaderKept == IndInv /\ [Next]_vars => ReaderInv'
<1> SUFFICES ASSUME IndInv, [Next]_vars
             PROVE  ReaderInv'
    BY DEF IndInv
<1>0. /\ ReaderInv /\ FileInv /\ TypeOK
      /\ FileEnd \in Nat /\ sequence \in Nat /\ cursor \in Nat /\ cursor <= FileEnd
      /\ batch \in Seq(Event) /\ file \in Seq(Event) /\ InOrder(file)
    BY NumberFacts, EndFacts DEF IndInv, TypeOK, FileInv, ReaderInv
<1>00. ASSUME Written \/ (LimitRecorded /\ file' # file), UNCHANGED <<cursor, batch, ready, failure>>
       PROVE  ReaderInv'
    <2>1. FileEnd' = sequence /\ FileEnd < sequence /\ ~EndsWith(file, Final)
        BY <1>00, FileChange
    <2>2. cursor <= sequence /\ cursor # sequence
        BY <1>0, <2>1
    <2>3. ready = NoEvent /\ failure = NoEvent
        BY <1>0, <2>1 DEF ReaderInv
    <2>4. ASSUME NEW e \in ToSet(batch)
          PROVE  /\ cursor < e.sequence /\ e.sequence <= sequence
                 /\ e.status \notin Final /\ e.sequence # sequence
        <3>1. /\ e \in Event /\ e.sequence \in Nat
              /\ cursor < e.sequence /\ e.sequence <= FileEnd
            BY <1>0, EventFacts DEF ReaderInv
        <3>2. e.status \notin Final
            <4>1. SUFFICES ASSUME e.status \in Final PROVE FALSE
                OBVIOUS
            <4>2. e = Last(file)
                BY <1>0, <4>1 DEF ReaderInv
            <4>3. file # <<>>
                <5>1. e.sequence >= 1
                    BY <3>1, EventFacts
                <5>2. FileEnd # 0
                    BY <1>0, <3>1, <5>1
                <5>3. QED
                    BY <5>2 DEF FileEnd
            <4>4. QED
                BY <2>1, <4>1, <4>2, <4>3 DEF EndsWith
        <3>3. e.sequence <= sequence /\ e.sequence # sequence
            BY <1>0, <2>1, <3>1
        <3>4. QED
            BY <3>1, <3>2, <3>3
    <2>5. QED
        BY <1>0, <1>00, <2>1, <2>2, <2>3, <2>4 DEF ReaderInv
<1>01. ASSUME batch # <<>>, Head(batch).status \notin Final, batch' = Tail(batch),
              cursor' = Head(batch).sequence, UNCHANGED <<file, ready, failure>>
       PROVE  ReaderInv'
    <2>1. /\ Head(batch).sequence <= FileEnd /\ FileEnd' = FileEnd
          /\ Head(batch).sequence = FileEnd => Head(batch) = Last(file)
          /\ ready = NoEvent /\ failure = NoEvent
          /\ InOrder(Tail(batch))
          /\ \A e \in ToSet(Tail(batch)) :
                /\ Head(batch).sequence < e.sequence /\ e.sequence <= FileEnd
                /\ e.status \in Final \/ e.sequence = FileEnd => e = Last(file)
        BY <1>01, ReplayFacts DEF FileEnd
    <2>2. ~(EndsWith(file, Final) /\ Head(batch).sequence = FileEnd)
        BY <1>01, <2>1 DEF EndsWith
    <2>3. QED
        BY <1>01, <2>1, <2>2 DEF ReaderInv
<1> USE DEF vars, callVars, eventVars, writerVars, followVars, deliveryVars, readerVars
<1>1. CASE Initialize
    <2>1. UNCHANGED <<file, cursor, batch, ready, failure>>
        BY <1>1 DEF Initialize
    <2>2. QED
        BY <1>0, <2>1 DEF ReaderInv, FileEnd
<1>2. CASE Call
    <2>1. UNCHANGED <<file, cursor, batch, ready, failure>>
        BY <1>2 DEF Call
    <2>2. QED
        BY <1>0, <2>1 DEF ReaderInv, FileEnd
<1>3. CASE CloseProgress
    <2>1. UNCHANGED <<file, cursor, batch, ready, failure>>
        BY <1>3 DEF CloseProgress
    <2>2. QED
        BY <1>0, <2>1 DEF ReaderInv, FileEnd
<1>4. CASE CallRejected
    <2>1. UNCHANGED <<file, cursor, batch, ready, failure>>
        BY <1>4 DEF CallRejected
    <2>2. QED
        BY <1>0, <2>1 DEF ReaderInv, FileEnd
<1>5. CASE Emit
    <2>1. UNCHANGED <<file, cursor, batch, ready, failure>>
        BY <1>5 DEF Emit
    <2>2. QED
        BY <1>0, <2>1 DEF ReaderInv, FileEnd
<1>6. CASE Written
    <2>1. UNCHANGED <<cursor, batch, ready, failure>>
        BY <1>6 DEF Written, WriteStep
    <2>2. QED
        BY <1>6, <2>1, <1>00
<1>7. CASE WriteFails
    <2>1. UNCHANGED <<file, cursor, batch, ready, failure>>
        BY <1>7 DEF WriteFails, WriteStep
    <2>2. QED
        BY <1>0, <2>1 DEF ReaderInv, FileEnd
<1>8. CASE ReadyRefused
    <2>1. UNCHANGED <<file, cursor, batch, ready, failure>>
        BY <1>8 DEF ReadyRefused, WriteStep
    <2>2. QED
        BY <1>0, <2>1 DEF ReaderInv, FileEnd
<1>9. CASE LimitReached
    <2>1. UNCHANGED <<file, cursor, batch, ready, failure>>
        BY <1>9 DEF LimitReached, WriteStep
    <2>2. QED
        BY <1>0, <2>1 DEF ReaderInv, FileEnd
<1>10. CASE LimitRecorded
    <2>1. UNCHANGED <<cursor, batch, ready, failure>>
        BY <1>10 DEF LimitRecorded
    <2>2. CASE file' = file
        BY <1>0, <2>1, <2>2 DEF ReaderInv, FileEnd
    <2>3. QED
        BY <1>10, <2>1, <2>2, <1>00
<1>11. CASE Settle
    <2>1. UNCHANGED <<file, cursor, batch, ready, failure>>
        BY <1>11 DEF Settle
    <2>2. QED
        BY <1>0, <2>1 DEF ReaderInv, FileEnd
<1>12. CASE Deadline
    <2>1. UNCHANGED <<file, cursor, batch, ready, failure>>
        BY <1>12 DEF Deadline
    <2>2. QED
        BY <1>0, <2>1 DEF ReaderInv, FileEnd
<1>13. CASE Read
    <2> DEFINE New == {e \in Event : e.sequence > cursor}
    <2>1. UNCHANGED <<file, cursor, ready, failure>> /\ FileEnd' = FileEnd
          /\ batch' \in {Kept(file, New), <<>>}
        BY <1>13 DEF Read, ReaderStep, FileEnd
    <2> HIDE DEF New
    <2>2. /\ InOrder(batch') /\ \A e \in ToSet(batch') : e \in ToSet(file) \cap New
        <3>1. InOrder(<<>>) /\ ToSet(<<>>) = {}
            BY DEF InOrder, ToSet
        <3>2. InOrder(Kept(file, New)) /\ ToSet(Kept(file, New)) = ToSet(file) \cap New
            BY <1>0, KeptFacts
        <3>3. QED
            BY <2>1, <3>1, <3>2
    <2>3. ASSUME NEW e \in ToSet(batch')
          PROVE  /\ cursor < e.sequence /\ e.sequence <= FileEnd
                 /\ e.status \in Final \/ e.sequence = FileEnd => e = Last(file)
        <3>1. e \in ToSet(file) /\ e \in Event /\ e.sequence > cursor
            BY <2>2 DEF New
        <3>2. cursor < e.sequence
            BY <1>0, <3>1, EventFacts
        <3>3. QED
            BY <1>0, <3>1, <3>2, EndFacts
    <2>4. QED
        BY <1>0, <2>1, <2>2, <2>3 DEF ReaderInv
<1>14. CASE KeepBack
    <2>1. /\ batch # <<>> /\ Head(batch).status \in Final /\ batch' = Tail(batch) /\ file' = file
          /\ cursor' = Head(batch).sequence
          /\ ready' = IF Head(batch).status = "ready" THEN Head(batch) ELSE ready
          /\ failure' = IF Head(batch).status = "failed" THEN Head(batch) ELSE failure
        BY <1>14 DEF KeepBack, Replay, Replaying, ReaderStep
    <2>2. /\ Head(batch) = Last(file) /\ file # <<>> /\ ready = NoEvent /\ failure = NoEvent
          /\ Tail(batch) = <<>>
        BY <2>1, ReplayFacts
    <2>3. EndsWith(file, Final) /\ cursor' = FileEnd /\ FileEnd' = FileEnd
        BY <2>1, <2>2 DEF EndsWith, FileEnd
    <2>4. FileEnd <= FileEnd
        BY <1>0
    <2>5. ToSet(<<>>) = {} /\ InOrder(<<>>)
        BY DEF ToSet, InOrder
    <2>6. \A e \in {ready', failure'} \ {NoEvent} : e = Last(file)
        BY <2>1, <2>2
    <2>7. /\ ready' # NoEvent => ready'.status = "ready"
          /\ failure' # NoEvent => failure'.status = "failed"
          /\ Last(file) \in {ready', failure'}
        BY <2>1, <2>2 DEF Final
    <2>8. QED
        BY <2>1, <2>2, <2>3, <2>4, <2>5, <2>6, <2>7 DEF ReaderInv
<1>15. CASE DropEvent
    <2>1. /\ batch # <<>> /\ Head(batch).status \notin Final /\ batch' = Tail(batch)
          /\ cursor' = Head(batch).sequence /\ UNCHANGED <<file, ready, failure>>
        BY <1>15 DEF DropEvent, Replay, Replaying, ReaderStep
    <2>2. QED
        BY <2>1, <1>01
<1>16. CASE ShowEvent
    <2>1. /\ batch # <<>> /\ Head(batch).status \notin Final /\ batch' = Tail(batch)
          /\ cursor' = Head(batch).sequence /\ UNCHANGED <<file, ready, failure>>
        BY <1>16 DEF ShowEvent, Replay, Replaying, ReaderStep
    <2>2. QED
        BY <2>1, <1>01
<1>17. CASE Delivered
    <2>1. UNCHANGED <<file, cursor, batch, ready, failure>>
        BY <1>17 DEF Delivered, ReaderStep
    <2>2. QED
        BY <1>0, <2>1 DEF ReaderInv, FileEnd
<1>18. CASE TurnEnds
    <2>1. UNCHANGED <<file, cursor, ready, failure>> /\ batch' = <<>>
        BY <1>18 DEF TurnEnds, ReaderStep
    <2>2. ToSet(<<>>) = {} /\ InOrder(<<>>)
        BY DEF ToSet, InOrder
    <2>3. QED
        BY <1>0, <2>1, <2>2 DEF ReaderInv, FileEnd
<1>19. CASE PollEnds
    <2>1. UNCHANGED <<file, cursor, batch, ready, failure>>
        BY <1>19 DEF PollEnds, ReaderStep
    <2>2. QED
        BY <1>0, <2>1 DEF ReaderInv, FileEnd
<1>20. CASE SinkSettles
    <2>1. UNCHANGED <<file, cursor, batch, ready, failure>>
        BY <1>20 DEF SinkSettles, ReaderStep
    <2>2. QED
        BY <1>0, <2>1 DEF ReaderInv, FileEnd
<1>21. CASE DrainEnds
    <2>1. UNCHANGED <<file, cursor, batch, ready, failure>>
        BY <1>21 DEF DrainEnds, ReaderStep
    <2>2. QED
        BY <1>0, <2>1 DEF ReaderInv, FileEnd
<1>22. CASE ShowFinal
    <2>1. UNCHANGED <<file, cursor, batch, ready, failure>>
        BY <1>22 DEF ShowFinal, ReaderStep
    <2>2. QED
        BY <1>0, <2>1 DEF ReaderInv, FileEnd
<1>23. CASE FinalShown
    <2>1. UNCHANGED <<file, cursor, batch, ready, failure>>
        BY <1>23 DEF FinalShown, ReaderStep
    <2>2. QED
        BY <1>0, <2>1 DEF ReaderInv, FileEnd
<1>24. CASE UNCHANGED vars
    BY <1>0, <1>24 DEF ReaderInv, FileEnd
<1>25. QED
    BY <1>1, <1>2, <1>3, <1>4, <1>5, <1>6, <1>7, <1>8, <1>9, <1>10, <1>11, <1>12, <1>13, <1>14,
       <1>15, <1>16, <1>17, <1>18, <1>19, <1>20, <1>21, <1>22, <1>23, <1>24
    DEF Next, WriterStep, FollowStep

(* What is shown.                                                          *)
LEMMA ShownKept == IndInv /\ [Next]_vars => ShownInv'
<1> SUFFICES ASSUME IndInv, [Next]_vars
             PROVE  ShownInv'
    BY DEF IndInv
<1>0. /\ ShownInv /\ TypeOK
      /\ shown \in Seq(Event) /\ cursor \in Nat
      /\ \A e \in ToSet(shown) : e.sequence \in Nat
      /\ observe \in {"attempt", "drain", "sink", "delivery", "done"}
    BY EventFacts DEF IndInv, TypeOK
<1> USE DEF vars, callVars, eventVars, writerVars, followVars, deliveryVars, readerVars
<1>1. CASE Initialize
    <2>1. UNCHANGED <<shown, outcome, observe, drained, failure, ready, cursor>>
        BY <1>1 DEF Initialize
    <2>2. QED
        BY <1>0, <2>1 DEF ShownInv
<1>2. CASE Call
    <2>1. UNCHANGED <<shown, outcome, observe, drained, failure, ready, cursor>>
        BY <1>2 DEF Call
    <2>2. QED
        BY <1>0, <2>1 DEF ShownInv
<1>3. CASE CloseProgress
    <2>1. UNCHANGED <<shown, outcome, observe, drained, failure, ready, cursor>>
        BY <1>3 DEF CloseProgress
    <2>2. QED
        BY <1>0, <2>1 DEF ShownInv
<1>4. CASE CallRejected
    <2>1. UNCHANGED <<shown, outcome, observe, drained, failure, ready, cursor>>
        BY <1>4 DEF CallRejected
    <2>2. QED
        BY <1>0, <2>1 DEF ShownInv
<1>5. CASE Emit
    <2>1. UNCHANGED <<shown, outcome, observe, drained, failure, ready, cursor>>
        BY <1>5 DEF Emit
    <2>2. QED
        BY <1>0, <2>1 DEF ShownInv
<1>6. CASE Written
    <2>1. UNCHANGED <<shown, outcome, observe, drained, failure, ready, cursor>>
        BY <1>6 DEF Written, WriteStep
    <2>2. QED
        BY <1>0, <2>1 DEF ShownInv
<1>7. CASE WriteFails
    <2>1. UNCHANGED <<shown, outcome, observe, drained, failure, ready, cursor>>
        BY <1>7 DEF WriteFails, WriteStep
    <2>2. QED
        BY <1>0, <2>1 DEF ShownInv
<1>8. CASE ReadyRefused
    <2>1. UNCHANGED <<shown, outcome, observe, drained, failure, ready, cursor>>
        BY <1>8 DEF ReadyRefused, WriteStep
    <2>2. QED
        BY <1>0, <2>1 DEF ShownInv
<1>9. CASE LimitReached
    <2>1. UNCHANGED <<shown, outcome, observe, drained, failure, ready, cursor>>
        BY <1>9 DEF LimitReached, WriteStep
    <2>2. QED
        BY <1>0, <2>1 DEF ShownInv
<1>10. CASE LimitRecorded
    <2>1. UNCHANGED <<shown, outcome, observe, drained, failure, ready, cursor>>
        BY <1>10 DEF LimitRecorded
    <2>2. QED
        BY <1>0, <2>1 DEF ShownInv
<1>11. CASE Settle
    <2>1. /\ outcome = "pending" /\ outcome' \in {"failed", "started"} /\ observe' = "drain"
          /\ UNCHANGED <<shown, drained, failure, ready, cursor>>
        BY <1>11 DEF Settle, followVars
    <2>2. observe = "attempt"
        BY <1>0, <2>1 DEF ShownInv
    <2>3. QED
        BY <1>0, <2>1, <2>2 DEF ShownInv
<1>12. CASE Deadline
    <2>1. UNCHANGED <<shown, outcome, observe, drained, failure, ready, cursor>>
        BY <1>12 DEF Deadline
    <2>2. QED
        BY <1>0, <2>1 DEF ShownInv
<1>13. CASE Read
    <2>1. UNCHANGED <<shown, outcome, observe, drained, failure, ready, cursor>>
        BY <1>13 DEF Read, ReaderStep
    <2>2. QED
        BY <1>0, <2>1 DEF ShownInv
<1>14. CASE KeepBack
    <2>1. /\ batch # <<>> /\ ~drained /\ cursor' = Head(batch).sequence
          /\ UNCHANGED <<shown, outcome, observe, drained>>
        BY <1>14 DEF KeepBack, Replay, Replaying, ReaderStep
    <2>2. observe \in {"attempt", "drain"}
        BY <1>0, <2>1 DEF ShownInv
    <2>3. \A e \in ToSet(shown) : e.status \notin Final /\ e.sequence <= cursor
        BY <1>0, <2>2 DEF ShownInv
    <2>4. \A e \in ToSet(shown) : e.sequence < cursor' /\ e.sequence <= cursor'
        <3>1. Head(batch).sequence \in Nat /\ cursor < Head(batch).sequence
            BY <2>1, ReplayFacts, EventFacts
        <3>2. QED
            BY <1>0, <2>1, <2>3, <3>1
    <2>5. QED
        BY <1>0, <2>1, <2>2, <2>3, <2>4 DEF ShownInv
<1>15. CASE DropEvent
    <2>1. /\ batch # <<>> /\ ~drained /\ cursor' = Head(batch).sequence
          /\ UNCHANGED <<shown, outcome, observe, drained, ready, failure>>
        BY <1>15 DEF DropEvent, Replay, Replaying, ReaderStep
    <2>2. observe \in {"attempt", "drain"}
        BY <1>0, <2>1 DEF ShownInv
    <2>3. \A e \in ToSet(shown) : e.status \notin Final /\ e.sequence <= cursor
        BY <1>0, <2>2 DEF ShownInv
    <2>4. \A e \in ToSet(shown) : e.sequence < cursor' /\ e.sequence <= cursor'
        <3>1. Head(batch).sequence \in Nat /\ cursor < Head(batch).sequence
            BY <2>1, ReplayFacts, EventFacts
        <3>2. QED
            BY <1>0, <2>1, <2>3, <3>1
    <2>5. QED
        BY <1>0, <2>1, <2>2, <2>3, <2>4 DEF ShownInv
<1>16. CASE ShowEvent
    <2>1. /\ batch # <<>> /\ ~drained
          /\ UNCHANGED <<outcome, observe, drained, ready, failure>>
        BY <1>16 DEF ShowEvent, Replay, Replaying, ReaderStep
    <2>2. observe \in {"attempt", "drain"}
        BY <1>0, <2>1 DEF ShownInv
    <2>3. /\ InOrder(shown')
          /\ \A e \in ToSet(shown') : e.status \notin Final /\ e.sequence <= cursor'
        BY <1>16, ShowEffect
    <2>4. ready = NoEvent /\ failure = NoEvent
        BY <2>1, ReplayFacts
    <2>5. QED
        BY <1>0, <2>1, <2>2, <2>3, <2>4 DEF ShownInv
<1>17. CASE Delivered
    <2>1. UNCHANGED <<shown, outcome, observe, drained, failure, ready, cursor>>
        BY <1>17 DEF Delivered, ReaderStep
    <2>2. QED
        BY <1>0, <2>1 DEF ShownInv
<1>18. CASE TurnEnds
    <2>1. UNCHANGED <<shown, outcome, observe, drained, failure, ready, cursor>>
        BY <1>18 DEF TurnEnds, ReaderStep
    <2>2. QED
        BY <1>0, <2>1 DEF ShownInv
<1>19. CASE PollEnds
    <2>1. UNCHANGED <<shown, outcome, observe, drained, failure, ready, cursor>>
        BY <1>19 DEF PollEnds, ReaderStep
    <2>2. QED
        BY <1>0, <2>1 DEF ShownInv
<1>20. CASE SinkSettles
    <2>1. UNCHANGED <<shown, outcome, observe, drained, failure, ready, cursor>>
        BY <1>20 DEF SinkSettles, ReaderStep
    <2>2. QED
        BY <1>0, <2>1 DEF ShownInv
<1>21. CASE DrainEnds
    <2>1. /\ observe = "drain" /\ drained' = TRUE
          /\ observe' = IF outcome = "failed" /\ failure = NoEvent THEN "done" ELSE "sink"
          /\ UNCHANGED <<shown, outcome, failure, ready, cursor>>
        BY <1>21 DEF DrainEnds, ReaderStep
    <2>2. /\ outcome # "pending"
          /\ \A e \in ToSet(shown) :
                /\ e.status \notin Final /\ e.sequence <= cursor
                /\ {ready, failure} # {NoEvent} => e.sequence < cursor
        BY <1>0, <2>1 DEF ShownInv
    <2>3. ~EndsWith(shown, Final)
        BY <1>0, <2>2, LastFacts DEF EndsWith
    <2>4. CASE outcome = "failed" /\ failure = NoEvent
        BY <1>0, <2>1, <2>2, <2>3, <2>4 DEF ShownInv
    <2>5. CASE ~(outcome = "failed" /\ failure = NoEvent)
        BY <1>0, <2>1, <2>2, <2>5 DEF ShownInv
    <2>6. QED
        BY <2>4, <2>5
<1>22. CASE ShowFinal
    <2>1. /\ observe = "sink" /\ observe' = "delivery"
          /\ UNCHANGED <<outcome, drained, failure, ready, cursor>>
        BY <1>22 DEF ShowFinal, ReaderStep
    <2>2. /\ InOrder(shown') /\ shown' # <<>>
          /\ Last(shown').status = IF outcome = "started" THEN "ready" ELSE "failed"
          /\ outcome = "started" \/ failure # NoEvent
        BY <1>22, FinalEffect
    <2>3. outcome # "pending" /\ drained
        BY <1>0, <2>1 DEF ShownInv
    <2>4. IF outcome = "started" THEN EndsWith(shown', {"ready"})
          ELSE IF failure # NoEvent THEN EndsWith(shown', {"failed"})
          ELSE ~EndsWith(shown', Final)
        BY <2>2 DEF EndsWith
    <2>5. QED
        BY <2>1, <2>2, <2>3, <2>4 DEF ShownInv
<1>23. CASE FinalShown
    <2>1. /\ observe = "delivery" /\ observe' = "done"
          /\ UNCHANGED <<shown, outcome, drained, failure, ready, cursor>>
        BY <1>23 DEF FinalShown, ReaderStep
    <2>2. QED
        BY <1>0, <2>1 DEF ShownInv
<1>24. CASE UNCHANGED vars
    BY <1>0, <1>24 DEF ShownInv
<1>25. QED
    BY <1>1, <1>2, <1>3, <1>4, <1>5, <1>6, <1>7, <1>8, <1>9, <1>10, <1>11, <1>12, <1>13, <1>14,
       <1>15, <1>16, <1>17, <1>18, <1>19, <1>20, <1>21, <1>22, <1>23, <1>24
    DEF Next, WriterStep, FollowStep

(* The last turn.                                                          *)
LEMMA DrainKept == IndInv /\ [Next]_vars => DrainInv'
<1> SUFFICES ASSUME IndInv, [Next]_vars
             PROVE  DrainInv'
    BY DEF IndInv
<1>0. /\ DrainInv /\ ShownInv /\ ReaderInv /\ FileInv /\ TypeOK
      /\ file \in Seq(Event) /\ batch \in Seq(Event) /\ InOrder(file)
      /\ FileEnd \in Nat /\ cursor \in Nat /\ cursor <= FileEnd
    BY EndFacts DEF IndInv, TypeOK, FileInv, ReaderInv
<1>00. ASSUME Written \/ (LimitRecorded /\ file' # file),
              UNCHANGED <<finalRead, outcome, follow, late, unread, batch, drained, warned, known, failure>>
       PROVE  DrainInv'
    <2>1. ~known
        BY <1>0, <1>00, FileChange DEF DrainInv, EndsWith, Final
    <2>2. QED
        BY <1>0, <1>00, <2>1 DEF DrainInv
<1>01. ASSUME follow = "replaying", batch # <<>>, ~drained, batch' = Tail(batch),
              Head(batch).status \notin Final, follow' \in {"replaying", "delivering"},
              warned' \in {warned, warned \cup {"output"}},
              UNCHANGED <<finalRead, outcome, late, unread, drained, known, failure, file>>
       PROVE  DrainInv'
    <2>1. failure = NoEvent
        BY <1>01, ReplayFacts
    <2>2. "journal" \in warned' <=> "journal" \in warned
        BY <1>01
    <2>3. ASSUME known, finalRead, ~unread, "journal" \notin warned
          PROVE  Tail(batch) # <<>> /\ Last(Tail(batch)) = Last(file)
        <3>1. Last(batch) = Last(file) /\ Last(file).status = "failed"
            BY <1>0, <1>01, <2>1, <2>3 DEF DrainInv, EndsWith
        <3>2. /\ Tail(batch) = <<>> => Last(batch) = Head(batch)
              /\ Tail(batch) # <<>> => Last(Tail(batch)) = Last(batch)
            BY <1>0, <1>01, HeadFacts
        <3>3. Last(file) # Head(batch)
            BY <1>01, <3>1 DEF Final
        <3>4. QED
            BY <3>1, <3>2, <3>3
    <2>4. QED
        BY <1>0, <1>01, <2>1, <2>2, <2>3 DEF DrainInv
<1> USE DEF vars, callVars, eventVars, writerVars, followVars, deliveryVars, readerVars
<1>1. CASE Initialize
    <2>1. UNCHANGED <<finalRead, outcome, follow, late, unread, batch, drained, warned, known,
       failure, file>>
        BY <1>1 DEF Initialize
    <2>2. QED
        BY <1>0, <2>1 DEF DrainInv
<1>2. CASE Call
    <2>1. UNCHANGED <<finalRead, outcome, follow, late, unread, batch, drained, warned, known,
       failure, file>>
        BY <1>2 DEF Call
    <2>2. QED
        BY <1>0, <2>1 DEF DrainInv
<1>3. CASE CloseProgress
    <2>1. UNCHANGED <<finalRead, outcome, follow, late, unread, batch, drained, warned, known,
       failure, file>>
        BY <1>3 DEF CloseProgress
    <2>2. QED
        BY <1>0, <2>1 DEF DrainInv
<1>4. CASE CallRejected
    <2>1. UNCHANGED <<finalRead, outcome, follow, late, unread, batch, drained, warned, known,
       failure, file>>
        BY <1>4 DEF CallRejected
    <2>2. QED
        BY <1>0, <2>1 DEF DrainInv
<1>5. CASE Emit
    <2>1. UNCHANGED <<finalRead, outcome, follow, late, unread, batch, drained, warned, known,
       failure, file>>
        BY <1>5 DEF Emit
    <2>2. QED
        BY <1>0, <2>1 DEF DrainInv
<1>6. CASE Written
    <2>1. UNCHANGED <<finalRead, outcome, follow, late, unread, batch, drained, warned, known,
       failure>>
        BY <1>6 DEF Written, WriteStep
    <2>2. QED
        BY <1>6, <2>1, <1>00
<1>7. CASE WriteFails
    <2>1. UNCHANGED <<finalRead, outcome, follow, late, unread, batch, drained, warned, known,
       failure, file>>
        BY <1>7 DEF WriteFails, WriteStep
    <2>2. QED
        BY <1>0, <2>1 DEF DrainInv
<1>8. CASE ReadyRefused
    <2>1. UNCHANGED <<finalRead, outcome, follow, late, unread, batch, drained, warned, known,
       failure, file>>
        BY <1>8 DEF ReadyRefused, WriteStep
    <2>2. QED
        BY <1>0, <2>1 DEF DrainInv
<1>9. CASE LimitReached
    <2>1. UNCHANGED <<finalRead, outcome, follow, late, unread, batch, drained, warned, known,
       failure, file>>
        BY <1>9 DEF LimitReached, WriteStep
    <2>2. QED
        BY <1>0, <2>1 DEF DrainInv
<1>10. CASE LimitRecorded
    <2>1. UNCHANGED <<finalRead, outcome, follow, late, unread, batch, drained, warned, known,
       failure>>
        BY <1>10 DEF LimitRecorded
    <2>2. CASE file' = file
        BY <1>0, <2>1, <2>2 DEF DrainInv
    <2>3. QED
        BY <1>10, <2>1, <2>2, <1>00
<1>11. CASE Settle
    <2>1. /\ outcome = "pending" /\ known' = EndsWith(file, {"failed"})
          /\ UNCHANGED <<finalRead, follow, late, unread, batch, drained, warned, failure, file>>
        BY <1>11 DEF Settle
    <2>2. ~drained /\ ~finalRead
        BY <1>0, <2>1 DEF DrainInv, ShownInv
    <2>3. QED
        BY <1>0, <2>1, <2>2 DEF DrainInv
<1>12. CASE Deadline
    <2>1. late' /\ UNCHANGED <<finalRead, outcome, follow, unread, batch, drained, warned,
       known, failure, file>>
        BY <1>12 DEF Deadline
    <2>2. QED
        BY <1>0, <2>1 DEF DrainInv
<1>13. CASE Read
    <2> DEFINE New == {e \in Event : e.sequence > cursor}
    <2>1. /\ follow = "reading" /\ follow' = "replaying"
          /\ UNCHANGED <<finalRead, outcome, late, drained, known, failure, file>>
          /\ \/ batch' = Kept(file, New) /\ warned' = warned
             \/ unread' /\ warned' \in {warned, warned \cup {"journal"}}
        BY <1>13 DEF Read, ReaderStep
    <2> HIDE DEF New
    <2>2. ASSUME EndsWith(file, {"failed"}), batch' = Kept(file, New), failure = NoEvent
          PROVE  batch' # <<>> /\ Last(batch') = Last(file)
        <3>1. /\ file # <<>> /\ Last(file).status = "failed" /\ EndsWith(file, Final)
              /\ Last(file) \in Event /\ FileEnd = Last(file).sequence
            BY <1>0, <2>2, LastFacts DEF EndsWith, Final, FileEnd
        <3>2. cursor # FileEnd
            <4>1. SUFFICES ASSUME cursor = FileEnd PROVE FALSE
                OBVIOUS
            <4>2. Last(file) \in {ready, failure}
                BY <1>0, <3>1, <4>1 DEF ReaderInv
            <4>3. Last(file) = ready /\ ready # NoEvent
                BY <2>2, <3>1, <4>2, EventFacts
            <4>4. QED
                BY <1>0, <3>1, <4>3 DEF ReaderInv
        <3>3. Last(file) \in New
            <4>1. Last(file).sequence > cursor
                BY <1>0, <3>1, <3>2
            <4>2. QED
                BY <3>1, <4>1 DEF New
        <3>4. /\ batch' \in Seq(Event) /\ InOrder(batch') /\ ToSet(batch') = ToSet(file) \cap New
            BY <1>0, <2>2, KeptFacts
        <3>5. Last(file) \in ToSet(batch')
            BY <1>0, <3>1, <3>3, <3>4, LastFacts
        <3>6. batch' # <<>>
            BY <3>5 DEF ToSet
        <3>7. Last(batch') \in ToSet(file) /\ Last(batch') \in Event
            BY <3>4, <3>6, LastFacts
        <3>8. Last(batch').sequence <= FileEnd /\ Last(batch').sequence \in Nat
            BY <1>0, <3>7, EndFacts, EventFacts
        <3>9. Last(file) = Last(batch') \/ Last(file).sequence < Last(batch').sequence
            BY <3>4, <3>5, <3>6, LastFacts
        <3>10. QED
            BY <1>0, <3>1, <3>6, <3>8, <3>9
    <2>3. drained => "journal" \in warned /\ "journal" \in warned'
        <3>1. "journal" \in warned => "journal" \in warned'
            BY <2>1
        <3>2. QED
            BY <1>0, <2>1, <3>1 DEF DrainInv
    <2>4. QED
        BY <1>0, <2>1, <2>2, <2>3 DEF DrainInv
<1>14. CASE KeepBack
    <2>1. /\ follow = "replaying" /\ batch # <<>> /\ ~drained /\ batch' = Tail(batch)
          /\ Head(batch).status \in Final
          /\ failure' = IF Head(batch).status = "failed" THEN Head(batch) ELSE failure
          /\ UNCHANGED <<finalRead, outcome, follow, late, unread, drained, warned, known, file>>
        BY <1>14 DEF KeepBack, Replay, Replaying, ReaderStep
    <2>2. known => failure' # NoEvent
        <3>1. Head(batch) = Last(file) /\ Head(batch) \in Event
            BY <2>1, ReplayFacts
        <3>2. QED
            BY <1>0, <2>1, <3>1, EventFacts DEF DrainInv, EndsWith
    <2>3. QED
        BY <1>0, <2>1, <2>2 DEF DrainInv
<1>15. CASE DropEvent
    <2>1. /\ follow = "replaying" /\ batch # <<>> /\ ~drained /\ batch' = Tail(batch)
          /\ Head(batch).status \notin Final /\ follow' \in {"replaying", "delivering"}
          /\ warned' \in {warned, warned \cup {"output"}}
          /\ UNCHANGED <<finalRead, outcome, late, unread, drained, known, failure, file>>
        BY <1>15 DEF DropEvent, Replay, Replaying, ReaderStep
    <2>2. QED
        BY <2>1, <1>01
<1>16. CASE ShowEvent
    <2>1. /\ follow = "replaying" /\ batch # <<>> /\ ~drained /\ batch' = Tail(batch)
          /\ Head(batch).status \notin Final /\ follow' \in {"replaying", "delivering"}
          /\ warned' \in {warned, warned \cup {"output"}}
          /\ UNCHANGED <<finalRead, outcome, late, unread, drained, known, failure, file>>
        BY <1>16 DEF ShowEvent, Replay, Replaying, ReaderStep
    <2>2. QED
        BY <2>1, <1>01
<1>17. CASE Delivered
    <2>1. /\ follow = "delivering" /\ follow' = "replaying"
          /\ warned' \in {warned, warned \cup {"output"}}
          /\ UNCHANGED <<finalRead, outcome, late, unread, batch, drained, known, failure, file>>
        BY <1>17 DEF Delivered, ReaderStep
    <2>2. "journal" \in warned' <=> "journal" \in warned
        BY <2>1
    <2>3. QED
        BY <1>0, <2>1, <2>2 DEF DrainInv
<1>18. CASE TurnEnds
    <2>1. /\ follow = "replaying" /\ (batch = <<>> \/ drained) /\ batch' = <<>>
          /\ UNCHANGED <<outcome, late, unread, drained, warned, known, failure, file>>
        BY <1>18 DEF TurnEnds, ReaderStep
    <2>2. drained => "journal" \in warned
        BY <1>0, <2>1 DEF DrainInv
    <2>3. CASE finalRead \/ late
        <3>1. follow' = "ended" /\ finalRead' = finalRead
            BY <1>18, <2>3 DEF TurnEnds
        <3>2. known /\ finalRead /\ ~unread /\ "journal" \notin warned => failure # NoEvent
            BY <1>0, <2>1, <2>2 DEF DrainInv
        <3>3. QED
            BY <1>0, <2>1, <2>2, <2>3, <3>1, <3>2 DEF DrainInv
    <2>4. CASE ~(finalRead \/ late) /\ outcome = "pending"
        <3>1. follow' = "polling" /\ finalRead' = finalRead
            BY <1>18, <2>4 DEF TurnEnds
        <3>2. QED
            BY <1>0, <2>1, <2>2, <2>4, <3>1 DEF DrainInv
    <2>5. CASE ~(finalRead \/ late) /\ outcome # "pending"
        <3>1. follow' = "reading" /\ finalRead' = TRUE
            BY <1>18, <2>5 DEF TurnEnds
        <3>2. QED
            BY <1>0, <2>1, <2>2, <2>5, <3>1 DEF DrainInv
    <2>6. QED
        BY <2>3, <2>4, <2>5
<1>19. CASE PollEnds
    <2>1. /\ follow = "polling" /\ follow' = "reading" /\ finalRead' = (outcome # "pending")
          /\ UNCHANGED <<outcome, late, unread, batch, drained, warned, known, failure, file>>
        BY <1>19 DEF PollEnds, ReaderStep
    <2>2. QED
        BY <1>0, <2>1 DEF DrainInv
<1>20. CASE SinkSettles
    <2>1. UNCHANGED <<finalRead, outcome, follow, late, unread, batch, drained, warned, known,
       failure, file>>
        BY <1>20 DEF SinkSettles, ReaderStep
    <2>2. QED
        BY <1>0, <2>1 DEF DrainInv
<1>21. CASE DrainEnds
    <2>1. /\ warned' = IF follow = "ended" THEN warned ELSE warned \cup {"journal"}
          /\ UNCHANGED <<finalRead, outcome, follow, late, unread, batch, known, failure, file>>
        BY <1>21 DEF DrainEnds, ReaderStep
    <2>2. QED
        BY <1>0, <2>1 DEF DrainInv
<1>22. CASE ShowFinal
    <2>1. UNCHANGED <<finalRead, outcome, follow, late, unread, batch, drained, warned, known,
       failure, file>>
        BY <1>22 DEF ShowFinal, ReaderStep
    <2>2. QED
        BY <1>0, <2>1 DEF DrainInv
<1>23. CASE FinalShown
    <2>1. /\ warned' \in {warned, warned \cup {"output"}}
          /\ UNCHANGED <<finalRead, outcome, follow, late, unread, batch, drained, known, failure, file>>
        BY <1>23 DEF FinalShown, ReaderStep
    <2>2. "journal" \in warned' <=> "journal" \in warned
        BY <2>1
    <2>3. QED
        BY <1>0, <2>1, <2>2 DEF DrainInv
<1>24. CASE UNCHANGED vars
    BY <1>0, <1>24 DEF DrainInv
<1>25. QED
    BY <1>1, <1>2, <1>3, <1>4, <1>5, <1>6, <1>7, <1>8, <1>9, <1>10, <1>11, <1>12, <1>13, <1>14,
       <1>15, <1>16, <1>17, <1>18, <1>19, <1>20, <1>21, <1>22, <1>23, <1>24
    DEF Next, WriterStep, FollowStep

-----------------------------------------------------------------------------
(* The invariant, and what follows from it                                 *)

(* It holds before the first call.                                         *)
LEMMA InitInv == Init => IndInv
<1> SUFFICES ASSUME Init PROVE IndInv
    OBVIOUS
<1>0. /\ MaxCalls \in Nat /\ <<>> \in Seq(Event) /\ ToSet(<<>>) = {}
      /\ InOrder(<<>>) /\ UpTo(<<>>, 0)
    BY MaxCallsAssumption DEF ToSet, InOrder, UpTo
<1>1. TypeOK
    <2>1. /\ calls \in 0..MaxCalls /\ queued \in 0..MaxCalls
          /\ sequence \in Nat /\ lastPersisted \in Nat /\ cursor \in Nat
        BY <1>0 DEF Init
    <2>2. /\ history \in Seq(Event) /\ file \in Seq(Event) /\ batch \in Seq(Event)
          /\ shown \in Seq(Event)
          /\ ready \in Event \cup {NoEvent} /\ failure \in Event \cup {NoEvent}
        BY <1>0 DEF Init
    <2>3. /\ limited \in BOOLEAN /\ disabled \in BOOLEAN /\ closed \in BOOLEAN
          /\ initialized \in BOOLEAN /\ known \in BOOLEAN /\ finalRead \in BOOLEAN
          /\ late \in BOOLEAN /\ unread \in BOOLEAN /\ drained \in BOOLEAN /\ inFlight \in BOOLEAN
        BY DEF Init
    <2>4. /\ persist \in {"idle", "writing", "limiting"}
          /\ outcome \in {"pending", "started", "failed"}
          /\ follow \in {"reading", "replaying", "delivering", "polling", "ended"}
          /\ observe \in {"attempt", "drain", "sink", "delivery", "done"}
          /\ warned \subseteq {"journal", "output"}
        BY DEF Init
    <2>5. QED
        BY <2>1, <2>2, <2>3, <2>4 DEF TypeOK
<1>2. ~EndsWith(<<>>, Final) /\ ~EndsWith(<<>>, {"failed"}) /\ FileEnd = 0
    BY DEF Init, EndsWith, FileEnd
<1>3. WriterInv
    <2>1. /\ calls = 0 /\ queued = 0 /\ sequence = 0 /\ lastPersisted = 0
          /\ history = <<>> /\ persist = "idle"
        BY DEF Init
    <2>2. queued <= calls /\ sequence + 2 * queued <= 2 * calls /\ lastPersisted <= sequence
        BY <2>1
    <2>3. QED
        BY <1>0, <2>1, <2>2 DEF WriterInv
<1>4. FileInv
    <2>1. FileEnd <= sequence /\ FileEnd <= lastPersisted
        BY <1>2 DEF Init
    <2>2. persist = "idle" /\ file = <<>>
        BY DEF Init
    <2>3. QED
        BY <1>0, <1>2, <2>1, <2>2 DEF FileInv
<1>5. ReaderInv
    <2>1. cursor <= FileEnd
        BY <1>2 DEF Init
    <2>2. batch = <<>> /\ ready = NoEvent /\ failure = NoEvent /\ file = <<>>
        BY DEF Init
    <2>3. QED
        BY <1>0, <1>2, <2>1, <2>2 DEF ReaderInv
<1>6. ShownInv
    BY <1>0 DEF Init, ShownInv
<1>7. DrainInv
    BY DEF Init, DrainInv
<1>8. QED
    BY <1>1, <1>3, <1>4, <1>5, <1>6, <1>7 DEF IndInv

(* The inductive invariant holds in every state.                            *)
THEOREM Invariant == Spec => []IndInv
<1>1. IndInv /\ [Next]_vars => IndInv'
    BY TypeKept, WriterKept, FileKept, ReaderKept, ShownKept, DrainKept DEF IndInv
<1>2. QED
    BY <1>1, InitInv, PTL DEF Spec

(* Type correctness: no counter, sequence or step leaves its range, and no  *)
(* event gets a number beyond twice the calls of the host.                 *)
THEOREM TypeCorrect == Spec => []TypeOK
<1>1. IndInv => TypeOK
    BY DEF IndInv
<1>2. QED
    BY <1>1, Invariant, PTL

(* The user sees the events in order, none twice and none after the final   *)
(* one (the observer's delivery against the host's writes of the journal).  *)
THEOREM ShowsInOrder == Spec => []ShownInOrder
<1>1. IndInv => ShownInOrder
    BY DEF IndInv, ShownInv, InOrder, ShownInOrder
<1>2. QED
    BY <1>1, Invariant, PTL

(* The final event fits the outcome, comes for every start that succeeded,  *)
(* and for every failure the journal told of when the attempt settled that  *)
(* the last read, begun after that, can have seen.                         *)
THEOREM EndTrue == Spec => []EndIsTrue
<1>1. ASSUME IndInv PROVE EndIsTrue
    <2>0. ShownInv /\ DrainInv /\ TypeOK /\ shown \in Seq(Event)
        BY <1>1 DEF IndInv, TypeOK
    <2>1. ASSUME EndsWith(shown, Final)
          PROVE  Last(shown).status = IF outcome = "started" THEN "ready" ELSE "failed"
        <3>1. observe \in {"delivery", "done"}
            <4>1. Last(shown) \in ToSet(shown) /\ Last(shown).status \in Final
                BY <2>0, <2>1, LastFacts DEF EndsWith
            <4>2. observe \notin {"attempt", "drain", "sink"}
                BY <2>0, <4>1 DEF ShownInv
            <4>3. QED
                BY <2>0, <4>2 DEF TypeOK
        <3>2. QED
            BY <2>0, <2>1, <3>1 DEF ShownInv, EndsWith
    <2>2. observe = "done" /\ outcome = "started" => EndsWith(shown, {"ready"})
        BY <2>0 DEF ShownInv
    <2>3. ASSUME observe = "done", known, outcome = "failed", ~late, "journal" \notin warned,
                 ~(finalRead /\ unread)
          PROVE  EndsWith(shown, {"failed"})
        <3>1. follow = "ended"
            BY <2>0, <2>3 DEF ShownInv, DrainInv
        <3>2. finalRead /\ batch = <<>>
            BY <2>0, <2>3, <3>1 DEF DrainInv
        <3>3. failure # NoEvent
            BY <2>0, <2>3, <3>1, <3>2 DEF DrainInv
        <3>4. QED
            BY <2>0, <2>3, <3>3 DEF ShownInv
    <2>4. QED
        BY <2>1, <2>2, <2>3 DEF EndIsTrue
<1>2. QED
    BY <1>1, Invariant, PTL

(* The journal only grows: a transition in it stays, in front of what comes *)
(* later, and nothing follows a final event (the host's replacement of the  *)
(* file, when its journal is full too).                                    *)
THEOREM JournalOnlyGrows == Spec => JournalGrows
<1> DEFINE Grows ==
        /\ \A e \in ToSet(file) : e.status # "progress" => e \in ToSet(file')
        /\ file' # file => ~EndsWith(file, Final)
        /\ \A i, j \in DOMAIN file' : i < j => file'[i].sequence < file'[j].sequence
<1>1. ASSUME IndInv, [Next]_vars PROVE [Grows]_file
    <2>1. CASE file' = file
        BY <2>1
    <2>2. CASE Written \/ (LimitRecorded /\ file' # file)
        BY <1>1, <2>2, FileChange DEF InOrder
    <2>3. QED
        BY <1>1, <2>1, <2>2, FileStill
<1>2. QED
    BY <1>1, Invariant, PTL DEF Spec, JournalGrows

=============================================================================
