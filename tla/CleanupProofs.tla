---------------------------- MODULE CleanupProofs ----------------------------
(***************************************************************************)
(* Proofs about Cleanup, for every set of request IDs, cleaners and rules   *)
(* and every bound: no pass deletes a trace that is not due, a pass that    *)
(* ends without an error leaves none that was, and the counts the passes    *)
(* return add up.                                                           *)
(***************************************************************************)
EXTENDS Cleanup, StoreProofs, WellFoundedInduction, FunctionTheorems, FiniteSetTheorems, TLAPS

(* The TTLs that time.Duration can hold as whole hours.                    *)
HourRange == (-HourSpan)..(HourSpan - 1)

(* Within it the conversion of a TTL loses nothing.                        *)
LEMMA HoursAreExact ==
  ASSUME NEW h \in HourRange
  PROVE  Hours(h) = h
  <1> DEFINE n == 2 * HourSpan
             x == h + HourSpan
  <1>1. n \in Nat /\ n > 0 /\ x \in 0..(n - 1)
    BY SpanAssumption DEF HourRange
  <1> HIDE DEF n, x
  <1>2. x % n = x
    BY <1>1
  <1>3. h = x - HourSpan
    BY SpanAssumption DEF HourRange, x
  <1> QED BY <1>2, <1>3 DEF Hours, x, n

(* A set of integers that is bounded below has a least element.            *)
LEMMA LeastElement ==
  ASSUME NEW T \in SUBSET HourRange, T /= {}
  PROVE  \E x \in T : \A y \in T : x <= y
  <1> DEFINE U == {t + HourSpan : t \in T}
  <1>1. U \subseteq Nat /\ U /= {}
    BY SpanAssumption DEF HourRange
  <1>2. PICK u \in U : \A v \in U : ~(<<v, u>> \in OpToRel(<, Nat))
    BY <1>1, NatLessThanWellFounded, WFMin, Zenon
  <1>3. \A v \in U : ~(v < u)
    BY <1>1, <1>2 DEF OpToRel
  <1>4. PICK x \in T : u = x + HourSpan
    OBVIOUS
  <1>5. ASSUME NEW y \in T PROVE x <= y
    <2>1. ~(y + HourSpan < u)
      BY <1>3
    <2>2. x \in Int /\ y \in Int /\ HourSpan \in Int
      BY SpanAssumption DEF HourRange
    <2> QED BY <1>4, <2>1, <2>2
  <1> QED BY <1>5

(* Min is that element.                                                    *)
LEMMA MinIsLeast ==
  ASSUME NEW T \in SUBSET HourRange, T /= {}
  PROVE  Min(T) \in T /\ \A y \in T : Min(T) <= y
  <1>1. \E x \in T : \A y \in T : x <= y
    BY LeastElement
  <1>2. Min(T) = CHOOSE x \in T : \A y \in T : x <= y
    BY DEF Min
  <1> QED BY <1>1, <1>2

-----------------------------------------------------------------------------
(* The rules an engine holds: enabled, with TTLs that time.Duration can    *)
(* hold.                                                                   *)
Fits == [cond : Conditions, ttl : HourRange, enabled : {TRUE}]

(* The engine's view of a trace agrees with what its documentation says    *)
(* of each rule: what it lets expire is due.                               *)
LEMMA ExpiredIsDue ==
  ASSUME NEW engine \in SUBSET Fits, NEW row \in Row, NEW at \in Int,
         Expired(row, engine, at)
  PROVE  Due(row, engine, at)
  <1> DEFINE M == Matching(engine, row.class)
             T == {r.ttl : r \in M}
             applicable == {r \in engine : r.enabled /\ row.class \in Satisfies[r.cond]}
  <1>1. applicable = M
    BY DEF Fits, Matching
  <1>2. M \subseteq Fits
    BY DEF Matching
  <1>3. Due(row, engine, at) <=>
          IF applicable = {} THEN at - row.createdAt > DefaultTTL
          ELSE \E r \in applicable : at - row.createdAt > r.ttl
    BY Zenon DEF Due
  <1>4. CASE M = {}
    <2>1. EffectiveTTL(engine, row.class) = DefaultTTL
      BY <1>4, Zenon DEF EffectiveTTL
    <2>2. at - row.createdAt > DefaultTTL
      BY <2>1 DEF Expired
    <2> QED BY <1>1, <1>3, <1>4, <2>2, Zenon
  <1>5. CASE M /= {}
    <2>1. EffectiveTTL(engine, row.class) = Hours(Min(T))
      BY <1>5, Zenon DEF EffectiveTTL
    <2>2. T \subseteq HourRange /\ T /= {}
      BY <1>2, <1>5 DEF Fits
    <2> HIDE DEF T
    <2>3. Min(T) \in T /\ Hours(Min(T)) = Min(T)
      BY <2>2, MinIsLeast, HoursAreExact
    <2>4. PICK r \in M : r.ttl = Min(T)
      BY <2>3 DEF T
    <2>5. at - row.createdAt > r.ttl
      BY <2>1, <2>3, <2>4 DEF Expired
    <2> QED BY <1>1, <1>3, <1>5, <2>5, Zenon
  <1> QED BY <1>4, <1>5

(* A trace that is due stays due as time passes.                           *)
LEMMA DueStays ==
  ASSUME NEW engine \in SUBSET Fits, NEW row \in Row, NEW at \in Int, NEW later \in Int,
         at <= later, Due(row, engine, at)
  PROVE  Due(row, engine, later)
  <1> DEFINE applicable == {r \in engine : r.enabled /\ row.class \in Satisfies[r.cond]}
  <1>1. \A t : Due(row, engine, t) <=>
          IF applicable = {} THEN t - row.createdAt > DefaultTTL
          ELSE \E r \in applicable : t - row.createdAt > r.ttl
    BY Zenon DEF Due
  <1>2. \A r \in applicable : r.ttl \in Int
    <2>1. HourRange \subseteq Int
      BY SpanAssumption DEF HourRange
    <2>2. \A r \in Fits : r.ttl \in HourRange
      BY DEF Fits
    <2> QED BY <2>1, <2>2
  <1>3. row.createdAt \in Int /\ DefaultTTL \in Int
    BY StoreAssumption, DefaultTTLAssumption DEF Row
  <1> HIDE DEF applicable
  <1>4. CASE applicable = {}
    <2>1. at - row.createdAt > DefaultTTL
      BY <1>1, <1>4, Zenon
    <2>2. later - row.createdAt > DefaultTTL
      BY <1>3, <2>1
    <2> QED BY <1>1, <1>4, <2>2, Zenon
  <1>5. CASE applicable /= {}
    <2>1. PICK r \in applicable : at - row.createdAt > r.ttl
      BY <1>1, <1>5, Zenon
    <2>2. later - row.createdAt > r.ttl
      BY <1>2, <1>3, <2>1
    <2> QED BY <1>1, <1>5, <2>2, Zenon
  <1> QED BY <1>4, <1>5

-----------------------------------------------------------------------------
(* The books: what the passes have counted, and the connections they hold, *)
(* add up, whatever the rules, the TTLs and the time zone.  One row can be *)
(* in the selection of many passes; who deletes it is decided by the       *)
(* table, and who counts it by RowsAffected.                               *)
Scanning == {c \in Cleaners : pass[c].stage = "scan"}

(* The inductive invariant behind CleanTypeOK and EveryRowIsCounted: a     *)
(* connection is held by each pass that has its rows open and by nobody    *)
(* else, and only a pass that is deleting has anything to count.           *)
Books ==
  /\ CleanTypeOK /\ CallsOK
  /\ busy = Cardinality(Scanning)
  /\ \A c \in Cleaners : pass[c].stage /= "delete" => pass[c].deleted = 0
  /\ EveryRowIsCounted

(* The rows counted by the passes of C, in the states p.                   *)
CountedBy(p, C) == UNION {{c} \X (1..p[c].deleted) : c \in C}

LEMMA UpTo ==
  ASSUME NEW n \in Nat
  PROVE  IsFiniteSet(1..n) /\ Cardinality(1..n) = n
  <1>1. /\ IsFiniteSet(1..n)
        /\ Cardinality(1..n) = IF 1 > n THEN 0 ELSE n - 1 + 1
    BY FS_Interval
  <1> QED BY <1>1

LEMMA CountsAreFinite ==
  ASSUME IsFiniteSet(Cleaners), NEW p, NEW C \in SUBSET Cleaners,
         \A c \in Cleaners : p[c].deleted \in Nat
  PROVE  IsFiniteSet(CountedBy(p, C))
  <1> DEFINE F == {{c} \X (1..p[c].deleted) : c \in C}
             f == [c \in C |-> {c} \X (1..p[c].deleted)]
  <1>1. IsFiniteSet(C)
    BY FS_Subset
  <1>2. f \in Surjection(C, F)
    BY Fun_IsSurj
  <1>3. IsFiniteSet(F)
    BY <1>1, <1>2, FS_Surjection
  <1>4. \A T \in F : IsFiniteSet(T)
    <2>1. ASSUME NEW c \in C PROVE IsFiniteSet({c} \X (1..p[c].deleted))
      <3>1. IsFiniteSet(1..p[c].deleted)
        BY UpTo
      <3> QED BY <3>1, FS_Singleton, FS_Product
    <2> QED BY <2>1
  <1> QED BY <1>3, <1>4, FS_UNION DEF CountedBy

(* What one pass has counted is a part of the sum.                         *)
LEMMA OnePart ==
  ASSUME IsFiniteSet(Cleaners), NEW p, NEW c \in Cleaners,
         \A d \in Cleaners : p[d].deleted \in Nat
  PROVE  /\ Cardinality(CountedBy(p, Cleaners \ {c})) \in Nat
         /\ Cardinality(CountedBy(p, Cleaners))
               = Cardinality(CountedBy(p, Cleaners \ {c})) + p[c].deleted
  <1> DEFINE own == {c} \X (1..p[c].deleted)
             rest == CountedBy(p, Cleaners \ {c})
  <1>1. CountedBy(p, Cleaners) = rest \cup own /\ rest \cap own = {}
    BY DEF CountedBy
  <1>2. IsFiniteSet(own) /\ Cardinality(own) = p[c].deleted
    <2>1. /\ IsFiniteSet(1..p[c].deleted)
          /\ Cardinality(1..p[c].deleted) = p[c].deleted
      BY UpTo
    <2>2. IsFiniteSet({c}) /\ Cardinality({c}) = 1
      BY FS_Singleton
    <2>3. IsFiniteSet(own) /\ Cardinality(own) = 1 * p[c].deleted
      <3>1. IsFiniteSet(own) /\ Cardinality(own) = Cardinality({c}) * Cardinality(1..p[c].deleted)
        BY <2>1, <2>2, FS_Product, Zenon
      <3> QED BY <2>1, <2>2, <3>1, Zenon
    <2> HIDE DEF own
    <2>4. \A n \in Nat : 1 * n = n
      OBVIOUS
    <2> QED BY <2>3, <2>4, Zenon
  <1>3. IsFiniteSet(rest) /\ Cardinality(rest) \in Nat
    BY CountsAreFinite, FS_CardinalityType
  <1>6. Cardinality(CountedBy(p, Cleaners)) = Cardinality(rest \cup own)
    BY <1>1, Zenon
  <1> HIDE DEF own, rest
  <1>4. Cardinality(rest \cup own) = Cardinality(rest) + Cardinality(own) - Cardinality(rest \cap own)
    BY <1>2, <1>3, FS_Union
  <1>5. Cardinality(rest \cap own) = 0
    BY <1>1, FS_EmptySet
  <1>7. p[c].deleted \in Nat
    OBVIOUS
  <1>8. Cardinality(rest) \in Nat /\ Cardinality(CountedBy(p, Cleaners)) = Cardinality(rest) + p[c].deleted
    BY <1>2, <1>3, <1>4, <1>5, <1>6, <1>7
  <1> QED BY <1>8 DEF rest

(* What a step of pass c to the locals new does to the sums.               *)
LEMMA OnePass ==
  ASSUME IsFiniteSet(Cleaners), pass \in [Cleaners -> Passes],
         NEW c \in Cleaners, NEW new \in Passes, pass' = [pass EXCEPT ![c] = new]
  PROVE  /\ pass' \in [Cleaners -> Passes] /\ pass'[c] = new
         /\ \A d \in Cleaners \ {c} : pass'[d] = pass[d]
         /\ InFlight \in Nat /\ InFlight' \in Nat
         /\ InFlight' + pass[c].deleted = InFlight + new.deleted
         /\ Cardinality(Scanning) \in Nat
         /\ pass[c].stage = "scan" => Cardinality(Scanning) > 0
         /\ Cardinality(Scanning') =
              Cardinality(Scanning) - (IF pass[c].stage = "scan" THEN 1 ELSE 0)
                                    + (IF new.stage = "scan" THEN 1 ELSE 0)
  <1>1. /\ pass' \in [Cleaners -> Passes] /\ pass'[c] = new
        /\ \A d \in Cleaners \ {c} : pass'[d] = pass[d]
    OBVIOUS
  <1>2. \A d \in Cleaners : pass[d].deleted \in Nat /\ pass'[d].deleted \in Nat
    BY <1>1 DEF Passes
  <1> DEFINE rest(p) == Cardinality(CountedBy(p, Cleaners \ {c}))
  <1>3. rest(pass) \in Nat /\ InFlight = rest(pass) + pass[c].deleted
    BY <1>2, OnePart DEF InFlight, CountedBy
  <1>4. rest(pass') \in Nat /\ InFlight' = rest(pass') + pass'[c].deleted
    BY <1>2, OnePart DEF InFlight, CountedBy
  <1>5. rest(pass') = rest(pass)
    <2>1. CountedBy(pass', Cleaners \ {c}) = CountedBy(pass, Cleaners \ {c})
      BY <1>1 DEF CountedBy
    <2> QED BY <2>1
  <1> HIDE DEF rest
  <1>6. /\ InFlight \in Nat /\ InFlight' \in Nat
        /\ InFlight' + pass[c].deleted = InFlight + new.deleted
    BY <1>1, <1>2, <1>3, <1>4, <1>5
  <1> DEFINE others == Scanning \ {c}
  <1>7. /\ Scanning = IF pass[c].stage = "scan" THEN others \cup {c} ELSE others
        /\ Scanning' = IF new.stage = "scan" THEN others \cup {c} ELSE others
    BY <1>1 DEF Scanning
  <1>8. c \notin others /\ IsFiniteSet(others)
    <2>1. others \subseteq Cleaners
      BY DEF Scanning
    <2> QED BY <2>1, FS_Subset
  <1> HIDE DEF others
  <1>9. Cardinality(others) \in Nat /\ Cardinality(others \cup {c}) = Cardinality(others) + 1
    BY <1>8, FS_AddElement, FS_CardinalityType
  <1> QED BY <1>1, <1>6, <1>7, <1>9

(* What a step does that leaves the store alone but for traces, open rows  *)
(* and failures.                                                           *)
StoreKept ==
  /\ UNCHANGED <<now, lastRow, used, removed, calls, onPromote, unset, wiredSince, exports,
                 delivered, crashes>>
  /\ UNCHANGED <<rules, edits, cancelled>>
  /\ traces' \in [Ids -> Row \cup {NoTrace}]
  /\ faults' \in 0..MaxFaults

(* The step of a pass that keeps the books: a connection for each open     *)
(* selection, and every row that goes is counted or handed over.           *)
LEMMA PassBooks ==
  ASSUME IsFiniteSet(Cleaners), Books, StoreKept,
         NEW c \in Cleaners, NEW new \in Passes, pass' = [pass EXCEPT ![c] = new],
         new.stage /= "delete" => new.deleted = 0,
         busy' = busy - (IF pass[c].stage = "scan" THEN 1 ELSE 0)
                      + (IF new.stage = "scan" THEN 1 ELSE 0),
         swept' \in Nat, Cardinality(Live) \in Nat, Cardinality(Live') \in Nat,
         Cardinality(Live') + swept' + new.deleted
           = Cardinality(Live) + swept + pass[c].deleted
  PROVE  Books'
  <1>0. /\ TypeOK /\ pass \in [Cleaners -> Passes] /\ swept \in Nat
        /\ busy = Cardinality(Scanning)
        /\ lastRow = Cardinality(Live) + removed + swept + InFlight
        /\ removed \in Nat /\ pass[c].deleted \in Nat /\ new.deleted \in Nat
    BY DEF Books, CleanTypeOK, TypeOK, Passes, EveryRowIsCounted
  <1>1. /\ pass' \in [Cleaners -> Passes] /\ pass'[c] = new
        /\ \A d \in Cleaners \ {c} : pass'[d] = pass[d]
        /\ InFlight \in Nat /\ InFlight' \in Nat
        /\ InFlight' + pass[c].deleted = InFlight + new.deleted
        /\ Cardinality(Scanning) \in Nat
        /\ pass[c].stage = "scan" => Cardinality(Scanning) > 0
        /\ Cardinality(Scanning') =
              Cardinality(Scanning) - (IF pass[c].stage = "scan" THEN 1 ELSE 0)
                                    + (IF new.stage = "scan" THEN 1 ELSE 0)
    BY <1>0, OnePass
  <1>2. busy' = Cardinality(Scanning') /\ busy' \in Nat
    BY <1>0, <1>1
  <1>3. CleanTypeOK'
    <2>1. TypeOK'
      BY <1>0, <1>2 DEF TypeOK, StoreKept
    <2> QED BY <1>1, <2>1 DEF Books, CleanTypeOK, StoreKept
  <1>4. CallsOK'
    BY DEF Books, CallsOK, NilOnlyIfUnset, StoreKept
  <1>5. \A d \in Cleaners : pass'[d].stage /= "delete" => pass'[d].deleted = 0
    BY <1>1 DEF Books
  <1>6. lastRow' = Cardinality(Live') + removed' + swept' + InFlight'
    <2>1. lastRow' = lastRow /\ removed' = removed
      BY DEF StoreKept
    <2> HIDE DEF InFlight
    <2> QED BY <1>0, <1>1, <2>1
  <1> QED BY <1>2, <1>3, <1>4, <1>5, <1>6 DEF Books, EveryRowIsCounted

(* The pass that has not begun, or has ended.                              *)
LEMMA NoPassTyped ==
  ASSUME NEW st \in {"idle", "load", "stopped"}
  PROVE  /\ [NoPass EXCEPT !.stage = st] \in Passes
         /\ [NoPass EXCEPT !.stage = st].stage = st
         /\ [NoPass EXCEPT !.stage = st].deleted = 0
  <1>1. 0 \in 0..MaxTime /\ 0 \in 0..MaxRows
    BY StoreAssumption
  <1> QED BY <1>1 DEF NoPass, Passes, Stages

LEMMA LiveIsFinite ==
  ASSUME IsFiniteSet(Ids), NEW T, NEW L, L = {i \in Ids : T[i] /= NoTrace}
  PROVE  IsFiniteSet(L) /\ Cardinality(L) \in Nat
  <1>1. L \subseteq Ids
    OBVIOUS
  <1> QED BY <1>1, FS_Subset, FS_CardinalityType

LEMMA InitBooks ==
  ASSUME IsFiniteSet(Ids), IsFiniteSet(Cleaners), CleanInit
  PROVE  Books
  <1>1. /\ pass = [c \in Cleaners |-> NoPass] /\ NoPass \in Passes
        /\ NoPass.stage = "idle" /\ NoPass.deleted = 0
    <2>1. NoPass = [NoPass EXCEPT !.stage = "idle"]
      BY DEF NoPass
    <2> QED BY <2>1, NoPassTyped, Zenon DEF CleanInit
  <1>2. TypeOK /\ CallsOK
    BY InitTInv DEF CleanInit, TInv
  <1>3. CleanTypeOK
    <2>1. rules \in [RuleIds -> Rule \cup {NoRule}]
      BY RulesAssumption DEF CleanInit
    <2>2. edits \in 0..MaxEdits /\ swept \in Nat
      BY RulesAssumption DEF CleanInit
    <2>3. cancelled \in BOOLEAN
      BY Zenon DEF CleanInit
    <2> QED BY <1>1, <1>2, <2>1, <2>2, <2>3, Zenon DEF CleanTypeOK
  <1>4. Scanning = {} /\ Live = {} /\ InFlight = 0
    <2>1. Scanning = {}
      BY <1>1 DEF Scanning
    <2>2. Live = {}
      BY DEF CleanInit, Init, Live
    <2>3. UNION {{c} \X (1..pass[c].deleted) : c \in Cleaners} = {}
      BY <1>1
    <2> QED BY <2>1, <2>2, <2>3, FS_EmptySet DEF InFlight
  <1>5. busy = Cardinality(Scanning)
    BY <1>4, FS_EmptySet DEF CleanInit, Init
  <1>6. EveryRowIsCounted
    <2>1. lastRow = 0 /\ removed = 0 /\ swept = 0 /\ Cardinality(Live) = 0
      BY <1>4, FS_EmptySet DEF CleanInit, Init
    <2> QED BY <1>4, <2>1 DEF EveryRowIsCounted
  <1> QED BY <1>1, <1>2, <1>3, <1>5, <1>6 DEF Books

(* The steps of the store.                                                 *)
LEMMA StoreBooks ==
  ASSUME IsFiniteSet(Ids), IsFiniteSet(Cleaners), Books, StoreStep, UNCHANGED cleanVars
  PROVE  Books'
  <1>1. UNCHANGED <<rules, edits, cancelled, pass, swept>>
    BY DEF cleanVars
  <1>2. TypeOK /\ TypeOK' /\ CallsOK'
    BY NextTInv DEF Books, CleanTypeOK, TInv, Next
  <1>3. Scanning' = Scanning /\ InFlight' = InFlight
    BY <1>1 DEF Scanning, InFlight
  <1>4. UNCHANGED busy
    BY DEF StoreStep, Tick, Promote, PromoteAt, Insert, NotifyCheck, NotifyCall, NotifyNil, Unwire,
       WireExporter, GetTrace, Export, ExportFails, DeleteTrace
  <1>5. IsFiniteSet(Live) /\ Cardinality(Live) \in Nat
    BY LiveIsFinite DEF Live
  <1>6. InFlight \in Nat /\ swept \in Nat /\ removed \in Nat /\ lastRow \in Nat
    <2>1. \A c \in Cleaners : pass[c].deleted \in Nat
      BY DEF Books, CleanTypeOK, Passes
    <2>2. InFlight \in Nat
      BY <2>1, CountsAreFinite, FS_CardinalityType DEF InFlight, CountedBy
    <2> QED BY <1>2, <2>2, StoreAssumption DEF Books, CleanTypeOK, TypeOK
  <1>7. lastRow' - Cardinality(Live') - removed' = lastRow - Cardinality(Live) - removed
        /\ Cardinality(Live') \in Nat /\ lastRow' \in Nat /\ removed' \in Nat
    <2>1. ASSUME NEW c \in Callers, NEW i \in Ids, NEW k \in Classes, NEW t \in Oldest..now,
                 Insert(c, i, k, t)
          PROVE  /\ lastRow' = lastRow + 1 /\ removed' = removed
                 /\ Cardinality(Live') = Cardinality(Live) + 1
      <3> DEFINE row == [row |-> lastRow + 1, class |-> k, createdAt |-> t]
      <3>1. /\ i \notin Live /\ traces' = [traces EXCEPT ![i] = row]
            /\ lastRow' = lastRow + 1 /\ removed' = removed /\ lastRow < MaxRows
        BY <2>1 DEF Insert, Live
      <3>2. row /= NoTrace
        <4>1. lastRow + 1 \in 1..MaxRows /\ t \in Oldest..MaxTime
          <5>1. now \in 0..MaxTime /\ lastRow \in 0..MaxRows
            BY <1>2 DEF TypeOK
          <5>2. lastRow < MaxRows
            BY <3>1
          <5> QED BY <5>1, <5>2, StoreAssumption
        <4>2. row \in Row
          BY <4>1 DEF Row
        <4> QED BY <4>2, NoTraceAssumption
      <3> HIDE DEF row
      <3>3. Live' = Live \cup {i}
        BY <1>2, <3>1, <3>2 DEF Live, TypeOK
      <3>4. Cardinality(Live \cup {i}) = Cardinality(Live) + 1
        BY <1>5, <3>1, FS_AddElement
      <3> QED BY <3>1, <3>3, <3>4
    <2>2. ASSUME NEW i \in Ids, DeleteTrace(i)
          PROVE  /\ lastRow' = lastRow /\ removed' = removed + 1
                 /\ Cardinality(Live') = Cardinality(Live) - 1
      <3>1. /\ i \in Live /\ traces' = [traces EXCEPT ![i] = NoTrace]
            /\ lastRow' = lastRow /\ removed' = removed + 1
        BY <2>2 DEF DeleteTrace, Live
      <3>2. Live' = Live \ {i}
        BY <1>2, <3>1 DEF Live, TypeOK
      <3>3. Cardinality(Live \ {i}) = Cardinality(Live) - 1
        BY <1>5, <3>1, FS_RemoveElement
      <3> QED BY <3>1, <3>2, <3>3
    <2>3. ASSUME \/ Tick
                 \/ \E c \in Callers : NotifyCheck(c) \/ NotifyCall(c) \/ NotifyNil(c)
                 \/ Unwire \/ \E e \in Exporters : WireExporter(e)
                 \/ \E x \in exports : GetTrace(x) \/ Export(x) \/ ExportFails(x)
          PROVE  UNCHANGED <<lastRow, removed, Live>>
      <3>1. UNCHANGED <<lastRow, removed, traces>>
        BY <2>3 DEF Tick, NotifyCheck, NotifyCall, NotifyNil, Unwire, WireExporter, GetTrace,
           Export, ExportFails
      <3> QED BY <3>1 DEF Live
    <2>4. now \in Oldest..now
      BY <1>2, StoreAssumption DEF TypeOK
    <2>5. \/ lastRow' = lastRow + 1 /\ removed' = removed /\ Cardinality(Live') = Cardinality(Live) + 1
          \/ lastRow' = lastRow /\ removed' = removed + 1 /\ Cardinality(Live') = Cardinality(Live) - 1
          \/ UNCHANGED <<lastRow, removed, Live>>
      BY <2>1, <2>2, <2>3, <2>4 DEF StoreStep, Promote, PromoteAt
    <2>6. Cardinality(Live') \in Nat
      BY LiveIsFinite DEF Live
    <2> QED BY <1>5, <1>6, <2>5, <2>6
  <1>8. EveryRowIsCounted'
    <2>1. lastRow = Cardinality(Live) + removed + swept + InFlight
      BY DEF Books, EveryRowIsCounted
    <2>2. lastRow' = Cardinality(Live') + removed' + swept' + InFlight'
      BY <1>1, <1>3, <1>5, <1>6, <1>7, <2>1
    <2> QED BY <2>2 DEF EveryRowIsCounted
  <1> QED BY <1>1, <1>2, <1>3, <1>4, <1>8 DEF Books, CleanTypeOK

(* A step of a pass that leaves the table as it is.                        *)
LEMMA QuietBooks ==
  ASSUME IsFiniteSet(Ids), IsFiniteSet(Cleaners), Books, StoreKept, UNCHANGED traces,
         NEW c \in Cleaners, NEW new \in Passes, pass' = [pass EXCEPT ![c] = new],
         new.stage /= "delete" => new.deleted = 0,
         busy' = busy - (IF pass[c].stage = "scan" THEN 1 ELSE 0)
                      + (IF new.stage = "scan" THEN 1 ELSE 0),
         swept' \in Nat, swept' + new.deleted = swept + pass[c].deleted
  PROVE  Books'
  <1>1. Cardinality(Live) \in Nat /\ Live' = Live
    BY LiveIsFinite DEF Live
  <1>2. swept \in Nat /\ pass[c].deleted \in Nat /\ new.deleted \in Nat
    BY DEF Books, CleanTypeOK, Passes
  <1>3. Cardinality(Live') + swept' + new.deleted = Cardinality(Live) + swept + pass[c].deleted
    BY <1>1, <1>2
  <1> QED BY <1>1, <1>3, PassBooks

LEMMA PassBegins ==
  ASSUME IsFiniteSet(Ids), IsFiniteSet(Cleaners), Books, NEW c \in Cleaners,
         Start(c) \/ Stop(c)
  PROVE  Books'
  <1>1. PICK st \in {"load", "stopped"} : pass' = [pass EXCEPT ![c] = [NoPass EXCEPT !.stage = st]]
    BY DEF Start, Stop, Step
  <1> DEFINE new == [NoPass EXCEPT !.stage = st]
  <1>2. /\ new \in Passes /\ new.stage = st /\ new.deleted = 0
        /\ pass' = [pass EXCEPT ![c] = new]
    BY <1>1, NoPassTyped
  <1> HIDE DEF new
  <1>3. pass[c].stage = "idle" /\ UNCHANGED <<storeVars, rules, edits, cancelled, swept>>
    BY DEF Start, Stop, Step
  <1>4. /\ UNCHANGED <<traces, busy, swept>> /\ StoreKept
        /\ busy \in Nat /\ swept \in Nat /\ pass[c].deleted = 0
    BY <1>3 DEF storeVars, StoreKept, Books, CleanTypeOK, TypeOK
  <1>5. /\ busy' = busy - (IF pass[c].stage = "scan" THEN 1 ELSE 0)
                       + (IF new.stage = "scan" THEN 1 ELSE 0)
        /\ swept' \in Nat /\ swept' + new.deleted = swept + pass[c].deleted
        /\ new.stage /= "delete" => new.deleted = 0
    BY <1>2, <1>3, <1>4
  <1> QED BY <1>2, <1>4, <1>5, QuietBooks

(* The steps by which a pass finds out what to delete.                     *)
LEMMA PassSelects ==
  ASSUME IsFiniteSet(Ids), IsFiniteSet(Cleaners), Books, NEW c \in Cleaners,
         Load(c) \/ LoadFails(c) \/ Cutoff(c) \/ Query(c) \/ Scan(c)
  PROVE  Books'
  <1> DEFINE p == pass[c]
  <1>1. /\ p \in Passes /\ now \in 0..MaxTime /\ lastRow \in 0..MaxRows /\ busy \in Nat
        /\ swept \in Nat /\ faults \in 0..MaxFaults /\ faults \in Nat
        /\ traces \in [Ids -> Row \cup {NoTrace}]
        /\ rules \in [RuleIds -> Rule \cup {NoRule}]
        /\ p.stage /= "delete" => p.deleted = 0
    BY StoreAssumption DEF Books, CleanTypeOK, TypeOK
  <1>2. ASSUME NEW new \in Passes, pass' = [pass EXCEPT ![c] = new],
               new.stage /= "delete" => new.deleted = 0, new.deleted = p.deleted,
               busy' = busy - (IF p.stage = "scan" THEN 1 ELSE 0)
                            + (IF new.stage = "scan" THEN 1 ELSE 0),
               StoreKept, UNCHANGED <<traces, swept>>
        PROVE  Books'
    <2>1. swept' \in Nat /\ swept' + new.deleted = swept + p.deleted
      BY <1>1, <1>2
    <2> QED BY <1>2, <2>1, QuietBooks
  <1>3. \A f : (f = faults \/ (faults < MaxFaults /\ f = faults + 1)) => f \in 0..MaxFaults
    BY <1>1, StoreAssumption
  <1>4. CASE Load(c)
    <2> DEFINE engine == NewRetentionEngine(RuleSet)
               new == [p EXCEPT !.stage = "cutoff", !.engine = engine]
    <2>1. p.stage = "load" /\ pass' = [pass EXCEPT ![c] = new]
      BY <1>4, Zenon DEF Load, Step
    <2>2. engine \subseteq Rule
      BY <1>1 DEF RuleSet, NewRetentionEngine
    <2> HIDE DEF engine
    <2>3. new \in Passes /\ new.stage = "cutoff" /\ new.deleted = p.deleted
      BY <1>1, <2>2 DEF Passes, Stages
    <2> HIDE DEF new
    <2>4. StoreKept /\ UNCHANGED <<traces, swept, busy>>
      BY <1>1, <1>4 DEF Load, StoreKept, storeVars
    <2>5. busy' = busy - (IF p.stage = "scan" THEN 1 ELSE 0) + (IF new.stage = "scan" THEN 1 ELSE 0)
      BY <1>1, <2>1, <2>3, <2>4
    <2> QED BY <1>1, <1>2, <2>1, <2>3, <2>4, <2>5
  <1>5. CASE LoadFails(c)
    <2> DEFINE new == IF c \in Background THEN [p EXCEPT !.stage = "cutoff"] ELSE NoPass
    <2>1. p.stage = "load" /\ pass' = [pass EXCEPT ![c] = new]
      BY <1>5, Zenon DEF LoadFails, Step
    <2>2. new \in Passes /\ new.stage \in {"cutoff", "idle"} /\ new.deleted = 0
      <3>1. NoPass = [NoPass EXCEPT !.stage = "idle"]
        BY DEF NoPass
      <3>2. NoPass \in Passes /\ NoPass.stage = "idle" /\ NoPass.deleted = 0
        BY <3>1, NoPassTyped, Zenon
      <3> DEFINE q == [p EXCEPT !.stage = "cutoff"]
      <3>3. q \in Passes /\ q.stage = "cutoff" /\ q.deleted = 0
        BY <1>1, <2>1 DEF Passes, Stages
      <3> HIDE DEF q
      <3>4. new = q \/ new = NoPass
        BY DEF q
      <3> QED BY <3>2, <3>3, <3>4, Zenon
    <2> HIDE DEF new
    <2>3. StoreKept /\ UNCHANGED <<traces, swept, busy>>
      <3>1. faults' = faults \/ (faults < MaxFaults /\ faults' = faults + 1)
        BY <1>5 DEF LoadFails, Fails
      <3> QED BY <1>1, <1>3, <1>5, <3>1 DEF LoadFails, KeepStore, StoreKept
    <2>4. busy' = busy - (IF p.stage = "scan" THEN 1 ELSE 0) + (IF new.stage = "scan" THEN 1 ELSE 0)
      BY <1>1, <2>1, <2>2, <2>3
    <2> QED BY <1>1, <1>2, <2>1, <2>2, <2>3, <2>4
  <1>6. CASE Cutoff(c)
    <2> DEFINE st == IF HasRules(p.engine) THEN "query" ELSE "sweep"
               new == [p EXCEPT !.start = now, !.stage = st]
    <2>1. p.stage = "cutoff" /\ pass' = [pass EXCEPT ![c] = new]
      BY <1>6, Zenon DEF Cutoff, Step
    <2>2. st \in {"query", "sweep"}
      OBVIOUS
    <2> HIDE DEF st
    <2>3. new \in Passes /\ new.stage = st /\ new.deleted = p.deleted
      BY <1>1, <2>2 DEF Passes, Stages
    <2> HIDE DEF new
    <2>4. StoreKept /\ UNCHANGED <<traces, swept, busy>>
      BY <1>1, <1>6 DEF Cutoff, StoreKept, storeVars
    <2>5. busy' = busy - (IF p.stage = "scan" THEN 1 ELSE 0) + (IF new.stage = "scan" THEN 1 ELSE 0)
      BY <1>1, <2>1, <2>2, <2>3, <2>4
    <2> QED BY <1>1, <1>2, <2>1, <2>2, <2>3, <2>4, <2>5
  <1>7. CASE Query(c)
    <2> DEFINE cutoff == p.start - PrefilterTTL(p.engine)
               found == {[id |-> i, row |-> traces[i]] :
                           i \in {j \in Live : Before(traces[j], cutoff)}}
               new == [p EXCEPT !.stage = "scan", !.upTo = lastRow, !.found = found]
    <2>1. p.stage = "query" /\ pass' = [pass EXCEPT ![c] = new]
      BY <1>7, Zenon DEF Query, Step
    <2>2. found \subseteq [id : Ids, row : Row]
      BY <1>1 DEF Live
    <2> HIDE DEF found
    <2>3. new \in Passes /\ new.stage = "scan" /\ new.deleted = p.deleted
      BY <1>1, <2>2 DEF Passes, Stages
    <2> HIDE DEF new
    <2>4. StoreKept /\ UNCHANGED <<traces, swept>> /\ busy' = busy + 1
      BY <1>1, <1>7 DEF Query, KeepStore, StoreKept
    <2>5. busy' = busy - (IF p.stage = "scan" THEN 1 ELSE 0) + (IF new.stage = "scan" THEN 1 ELSE 0)
      BY <1>1, <2>1, <2>3, <2>4
    <2> QED BY <1>1, <1>2, <2>1, <2>3, <2>4, <2>5
  <1>8. CASE Scan(c)
    <2> DEFINE ids == {f.id : f \in {g \in p.found : Expired(g.row, p.engine, now)}}
               new == [p EXCEPT !.stage = "delete", !.found = {}, !.toDelete = ids]
    <2>1. p.stage = "scan" /\ pass' = [pass EXCEPT ![c] = new]
      BY <1>8, Zenon DEF Scan, Step
    <2>2. ids \subseteq Ids
      BY <1>1 DEF Passes
    <2> HIDE DEF ids
    <2>3. new \in Passes /\ new.stage = "delete" /\ new.deleted = p.deleted
      BY <1>1, <2>2 DEF Passes, Stages
    <2> HIDE DEF new
    <2>4. StoreKept /\ UNCHANGED <<traces, swept>> /\ busy' = busy - 1
      BY <1>1, <1>8 DEF Scan, KeepStore, StoreKept
    <2>5. busy' = busy - (IF p.stage = "scan" THEN 1 ELSE 0) + (IF new.stage = "scan" THEN 1 ELSE 0)
      BY <1>1, <2>1, <2>3, <2>4
    <2> QED BY <1>1, <1>2, <2>1, <2>3, <2>4, <2>5
  <1> QED BY <1>4, <1>5, <1>6, <1>7, <1>8

(* Those by which rows go, counted as they do ...                          *)
LEMMA PassDeletes ==
  ASSUME IsFiniteSet(Ids), IsFiniteSet(Cleaners), Books, NEW c \in Cleaners,
         Sweep(c) \/ \E i \in Ids : DeleteOne(c, i)
  PROVE  Books'
  <1> DEFINE p == pass[c]
  <1>1. /\ p \in Passes /\ lastRow \in 0..MaxRows /\ busy \in Nat /\ p.deleted \in Nat
        /\ swept \in Nat /\ traces \in [Ids -> Row \cup {NoTrace}]
        /\ p.stage /= "delete" => p.deleted = 0
    BY DEF Books, CleanTypeOK, TypeOK, Passes
  <1>2. IsFiniteSet(Live) /\ Cardinality(Live) \in Nat /\ Cardinality(Live') \in Nat
    BY LiveIsFinite DEF Live
  <1>3. ASSUME NEW new \in Passes, pass' = [pass EXCEPT ![c] = new],
               p.stage \in {"sweep", "delete"}, new.stage = "delete",
               Cardinality(Live') + new.deleted = Cardinality(Live) + p.deleted,
               StoreKept, UNCHANGED <<swept, busy>>
        PROVE  Books'
    <2>1. busy' = busy - (IF p.stage = "scan" THEN 1 ELSE 0) + (IF new.stage = "scan" THEN 1 ELSE 0)
      BY <1>1, <1>3
    <2>2. new.deleted \in Nat
      BY <1>3 DEF Passes
    <2>3. /\ Cardinality(Live') + swept' + new.deleted = Cardinality(Live) + swept + p.deleted
          /\ swept' \in Nat
      BY <1>1, <1>2, <1>3, <2>2
    <2> QED BY <1>2, <1>3, <2>1, <2>3, PassBooks
  <1>4. CASE Sweep(c)
    <2> DEFINE old == {i \in Live : Before(traces[i], p.start - DefaultTTL)}
               new == [p EXCEPT !.stage = "delete", !.upTo = lastRow, !.deleted = Cardinality(old)]
    <2>1. /\ p.stage = "sweep" /\ pass' = [pass EXCEPT ![c] = new]
          /\ traces' = [i \in Ids |-> IF i \in old THEN NoTrace ELSE traces[i]]
      BY <1>4, Zenon DEF Sweep, Step
    <2>2. old \subseteq Live
      OBVIOUS
    <2> HIDE DEF old
    <2>3. Live' = Live \ old
      BY <1>1, <2>1, <2>2 DEF Live
    <2>4. Cardinality(old) \in Nat /\ Live \cap old = old
      BY <1>2, <2>2, FS_Subset, FS_CardinalityType
    <2>5. Cardinality(Live \ old) = Cardinality(Live) - Cardinality(Live \cap old)
      BY <1>2, FS_Difference
    <2>6. new \in Passes /\ new.stage = "delete" /\ new.deleted = Cardinality(old)
      BY <1>1, <2>4 DEF Passes, Stages
    <2> HIDE DEF new
    <2>7. StoreKept /\ UNCHANGED <<swept, busy>>
      BY <1>1, <1>4, <2>1 DEF Sweep, StoreKept, Books, CleanTypeOK, TypeOK
    <2>8. Cardinality(Live') + new.deleted = Cardinality(Live) + p.deleted
      <3>1. Cardinality(Live') = Cardinality(Live) - Cardinality(old)
        BY <2>3, <2>4, <2>5, Zenon
      <3>2. p.deleted = 0
        BY <1>1, <2>1
      <3>3. \A m, n \in Nat : (m - n) + n = m + 0
        OBVIOUS
      <3> QED BY <1>2, <2>4, <2>6, <3>1, <3>2, <3>3, Zenon
    <2> QED BY <1>3, <2>1, <2>6, <2>7, <2>8
  <1>5. ASSUME NEW i \in Ids, DeleteOne(c, i) PROVE Books'
    <2> DEFINE left == p.toDelete \ {i}
               count == p.deleted + (IF traces[i] = NoTrace THEN 0 ELSE 1)
               new == [p EXCEPT !.toDelete = left, !.deleted = count]
    <2>1. /\ p.stage = "delete" /\ pass' = [pass EXCEPT ![c] = new]
          /\ traces' = [traces EXCEPT ![i] = NoTrace]
      BY <1>5 DEF DeleteOne, Step
    <2>2. Live' = Live \ {i} /\ (i \in Live <=> traces[i] /= NoTrace)
      BY <1>1, <2>1 DEF Live
    <2>3. Cardinality(Live \ {i}) = IF i \in Live THEN Cardinality(Live) - 1 ELSE Cardinality(Live)
      BY <1>2, FS_RemoveElement
    <2>4. count \in Nat /\ Cardinality(Live') + count = Cardinality(Live) + p.deleted
      BY <1>1, <1>2, <2>2, <2>3
    <2> HIDE DEF count
    <2>5. new \in Passes /\ new.stage = "delete" /\ new.deleted = count
      BY <1>1, <2>1, <2>4 DEF Passes
    <2> HIDE DEF new
    <2>6. StoreKept /\ UNCHANGED <<swept, busy>>
      BY <1>1, <1>5, <2>1 DEF DeleteOne, StoreKept, Books, CleanTypeOK, TypeOK
    <2> QED BY <1>3, <2>1, <2>4, <2>5, <2>6
  <1> QED BY <1>4, <1>5

(* ... and those by which it ends, with or without an error, and hands its *)
(* count over.                                                             *)
LEMMA PassEnds ==
  ASSUME IsFiniteSet(Ids), IsFiniteSet(Cleaners), Books, NEW c \in Cleaners,
         Finish(c) \/ StatementFails(c)
  PROVE  Books'
  <1> DEFINE p == pass[c]
  <1>1. /\ p \in Passes /\ busy \in Nat /\ p.deleted \in Nat /\ swept \in Nat
        /\ traces \in [Ids -> Row \cup {NoTrace}] /\ faults \in 0..MaxFaults /\ faults \in Nat
    BY StoreAssumption DEF Books, CleanTypeOK, TypeOK, Passes
  <1>2. NoPass \in Passes /\ NoPass.stage = "idle" /\ NoPass.deleted = 0
    <2>1. NoPass = [NoPass EXCEPT !.stage = "idle"]
      BY DEF NoPass
    <2> QED BY <2>1, NoPassTyped, Zenon
  <1>3. pass' = [pass EXCEPT ![c] = NoPass] /\ swept' = swept + p.deleted /\ UNCHANGED traces
    BY DEF Finish, StatementFails, Step, storeVars, KeepStore
  <1>4. StoreKept /\ busy' = busy - (IF p.stage = "scan" THEN 1 ELSE 0)
    <2>1. CASE Finish(c)
      BY <1>1, <2>1 DEF Finish, Step, storeVars, StoreKept
    <2>2. CASE StatementFails(c)
      <3>1. faults' = faults \/ (faults < MaxFaults /\ faults' = faults + 1)
        BY <2>2 DEF StatementFails, Fails
      <3>2. faults' \in 0..MaxFaults
        BY <1>1, <3>1, StoreAssumption
      <3> QED BY <1>1, <2>2, <3>2 DEF StatementFails, KeepStore, StoreKept
    <2> QED BY <2>1, <2>2
  <1>5. /\ busy' = busy - (IF p.stage = "scan" THEN 1 ELSE 0)
                        + (IF NoPass.stage = "scan" THEN 1 ELSE 0)
        /\ swept' \in Nat /\ swept' + NoPass.deleted = swept + p.deleted
    BY <1>1, <1>2, <1>3, <1>4
  <1> HIDE DEF p
  <1> QED BY <1>2, <1>3, <1>4, <1>5, QuietBooks DEF p

(* The steps that concern no pass: edits, the cancellation, none at all.   *)
LEMMA OutsideBooks ==
  ASSUME Books,
         \/ \E r \in RuleIds : CreateRule(r) \/ UpdateRule(r) \/ DeleteRule(r)
         \/ Cancel \/ UNCHANGED vars
  PROVE  Books'
  <1>1. UNCHANGED <<storeVars, pass, swept>>
    BY DEF CreateRule, UpdateRule, DeleteRule, Edit, Cancel, vars, cleanVars
  <1>2. TypeOK' /\ CallsOK'
    BY <1>1 DEF storeVars, Books, CleanTypeOK, TypeOK, CallsOK, NilOnlyIfUnset
  <1>3. UNCHANGED <<busy, Scanning, EveryRowIsCounted>>
    BY <1>1 DEF storeVars, Scanning, EveryRowIsCounted, Live, InFlight
  <1>4. rules' \in [RuleIds -> Rule \cup {NoRule}] /\ edits' \in 0..MaxEdits
    <2>1. NewRules \subseteq Rule
      BY RulesAssumption DEF NewRules, Rule
    <2>2. CASE UNCHANGED <<rules, edits>>
      BY <2>2 DEF Books, CleanTypeOK
    <2>3. ASSUME NEW x \in Rule \cup {NoRule}, NEW r \in RuleIds, Edit([rules EXCEPT ![r] = x])
          PROVE  rules' \in [RuleIds -> Rule \cup {NoRule}] /\ edits' \in 0..MaxEdits
      BY <2>3, RulesAssumption DEF Edit, Books, CleanTypeOK
    <2> QED BY <2>1, <2>2, <2>3 DEF CreateRule, UpdateRule, DeleteRule, Cancel, vars, cleanVars
  <1>5. cancelled' \in BOOLEAN
    <2>1. cancelled' = TRUE \/ cancelled' = cancelled
      BY Zenon DEF CreateRule, UpdateRule, DeleteRule, Edit, Cancel, vars, cleanVars
    <2> QED BY <2>1, Zenon DEF Books, CleanTypeOK
  <1>6. CleanTypeOK'
    BY <1>1, <1>2, <1>4, <1>5, Zenon DEF Books, CleanTypeOK
  <1> QED BY <1>1, <1>2, <1>3, <1>6 DEF Books

LEMMA RestartBooks ==
  ASSUME IsFiniteSet(Ids), IsFiniteSet(Cleaners), Books, Restart
  PROVE  Books'
  <1>1. /\ pass' = [c \in Cleaners |-> NoPass] /\ NoPass \in Passes
        /\ NoPass.stage = "idle" /\ NoPass.deleted = 0
    <2>1. NoPass = [NoPass EXCEPT !.stage = "idle"]
      BY DEF NoPass
    <2> QED BY <2>1, NoPassTyped, Zenon DEF Restart
  <1>2. TypeOK' /\ CallsOK'
    BY NextTInv DEF Books, CleanTypeOK, TInv, Next, Restart
  <1>3. UNCHANGED <<lastRow, removed, traces, rules, edits>> /\ busy' = 0 /\ swept' = swept + InFlight
    BY DEF Restart, Crash
  <1>4. InFlight \in Nat
    <2>1. \A c \in Cleaners : pass[c].deleted \in Nat
      BY DEF Books, CleanTypeOK, Passes
    <2> QED BY <2>1, CountsAreFinite, FS_CardinalityType DEF InFlight, CountedBy
  <1>5. Scanning' = {} /\ InFlight' = 0
    <2>1. Scanning' = {}
      BY <1>1 DEF Scanning
    <2>2. UNION {{c} \X (1..pass'[c].deleted) : c \in Cleaners} = {}
      BY <1>1
    <2> QED BY <2>1, <2>2, FS_EmptySet DEF InFlight
  <1>6. CleanTypeOK'
    <2>1. swept' \in Nat
      BY <1>3, <1>4 DEF Books, CleanTypeOK
    <2>2. cancelled' \in BOOLEAN
      BY Zenon DEF Restart
    <2> QED BY <1>1, <1>2, <1>3, <2>1, <2>2, Zenon DEF Books, CleanTypeOK
  <1>7. EveryRowIsCounted'
    <2>1. lastRow = Cardinality(Live) + removed + swept + InFlight /\ Live' = Live
      BY <1>3 DEF Books, EveryRowIsCounted, Live
    <2>2. swept \in Nat /\ removed \in Nat /\ lastRow \in Nat
      BY StoreAssumption DEF Books, CleanTypeOK, TypeOK
    <2>3. Cardinality(Live) \in Nat
      BY LiveIsFinite DEF Live
    <2>4. lastRow = Cardinality(Live) + removed + (swept + InFlight) + 0
      BY <1>4, <2>1, <2>2, <2>3
    <2>5. lastRow' = Cardinality(Live') + removed' + swept' + InFlight'
      BY <1>3, <1>5, <2>1, <2>4, Zenon
    <2> QED BY <2>5, Zenon DEF EveryRowIsCounted
  <1>8. busy' = Cardinality(Scanning')
    BY <1>3, <1>5, FS_EmptySet
  <1> QED BY <1>1, <1>2, <1>6, <1>7, <1>8 DEF Books

LEMMA NextBooks ==
  ASSUME IsFiniteSet(Ids), IsFiniteSet(Cleaners), Books, [CleanNext]_vars
  PROVE  Books'
  <1>1. CASE StoreStep /\ UNCHANGED cleanVars
    BY <1>1, StoreBooks
  <1>2. CASE \/ \E r \in RuleIds : CreateRule(r) \/ UpdateRule(r) \/ DeleteRule(r)
             \/ Cancel \/ UNCHANGED vars
    BY <1>2, OutsideBooks
  <1>3. ASSUME NEW c \in Cleaners, Start(c) \/ PassStep(c) \/ FailStep(c) \/ Stop(c)
        PROVE  Books'
    BY <1>3, PassBegins, PassSelects, PassDeletes, PassEnds DEF PassStep, FailStep
  <1>4. CASE Restart
    BY <1>4, RestartBooks
  <1> QED BY <1>1, <1>2, <1>3, <1>4 DEF CleanNext

(* Every reachable state of store and cleanup together is well-typed, with *)
(* any number of passes under way; in particular no pass gives back a      *)
(* connection that it does not hold, so busy never goes below 0.           *)
THEOREM CleanTypeCorrect ==
  ASSUME IsFiniteSet(Ids), IsFiniteSet(Cleaners)
  PROVE  CleanSpec => []CleanTypeOK
  BY InitBooks, NextBooks, PTL DEF CleanSpec, Books

(* Each row ever inserted is in the table, or was deleted by DeleteTrace,  *)
(* or is in the count of exactly one cleanup pass: whichever passes        *)
(* overlap, select the same rows, fail half-way or are lost in a restart.  *)
THEOREM CountsAddUp ==
  ASSUME IsFiniteSet(Ids), IsFiniteSet(Cleaners)
  PROVE  CleanSpec => []EveryRowIsCounted
  BY InitBooks, NextBooks, PTL DEF CleanSpec, Books

-----------------------------------------------------------------------------
(* The rules the table may hold.                                           *)
Table == [cond : Conditions, ttl : HourRange, enabled : BOOLEAN]

(* What the proofs ask of the constants: no TTL overflows ...              *)
Assumptions ==
  /\ IsFiniteSet(Ids)
  /\ TTLs \subseteq HourRange
  /\ StartRules \subseteq [RuleIds -> Table \cup {NoRule}]

(* ... and, for the proof that nothing is deleted early, that local time   *)
(* is not ahead of UTC, without which MCCleanupZone is a counterexample.   *)
NotAhead == Zone <= 0

PassType == [stage : Stages, engine : SUBSET Fits, start : Int,
             found : SUBSET [id : Ids, row : Row], toDelete : SUBSET Ids,
             deleted : Nat, upTo : Int]

Types ==
  /\ now \in 0..MaxTime /\ removed \in Int /\ lastRow \in Nat
  /\ traces \in [Ids -> Row \cup {NoTrace}]
  /\ rules \in [RuleIds -> Table \cup {NoRule}]
  /\ pass \in [Cleaners -> PassType]

(* The row under this ID was inserted after the rows up to upTo.           *)
Newer(i, upTo) == i \in Live /\ traces[i].row > upTo

(* What a pass has selected is a row that is still there, or gone, or      *)
(* replaced by a newer one under its ID.                                   *)
FoundOK(p) ==
  \A f \in p.found : traces[f.id] \in {f.row, NoTrace} \/ Newer(f.id, p.upTo)

(* What a pass is about to delete is due, if it is still there.            *)
ToDeleteOK(p) ==
  \A i \in p.toDelete :
    i \in Live => Due(traces[i], p.engine, now) \/ Newer(i, p.upTo)

ShapeOK(p) ==
  /\ p.start <= now /\ p.upTo <= lastRow
  /\ p.stage \in {"load", "cutoff", "sweep"} => p.deleted = 0
  /\ p.stage = "sweep" => p.engine = {}
  /\ p.stage /= "scan" => p.found = {}
  /\ p.stage /= "delete" => p.toDelete = {}

PassOK(p) == FoundOK(p) /\ ToDeleteOK(p) /\ ShapeOK(p)

(* The inductive invariant.                                                *)
DInv == Types /\ \A c \in Cleaners : PassOK(pass[c])

(* What every step does to the table, as seen by a pass: time passes, rows *)
(* go, and a row that is put in has a key beyond all keys given out.       *)
Gentle ==
  /\ now' \in Int /\ now <= now' /\ lastRow' \in Nat /\ lastRow <= lastRow'
  /\ \A i \in Ids : \/ traces'[i] \in {traces[i], NoTrace}
                    \/ traces'[i] \in Row /\ traces'[i].row > lastRow

(* A step that puts no row in is gentle if the clock is.                   *)
LEMMA NoNewRow ==
  ASSUME Types, now' \in 0..MaxTime, now <= now', lastRow' = lastRow,
         \A i \in Ids : traces'[i] \in {traces[i], NoTrace}
  PROVE  Gentle
  <1>1. now' \in Int
    BY StoreAssumption
  <1>2. lastRow' \in Nat /\ lastRow <= lastRow'
    BY DEF Types
  <1> QED BY <1>1, <1>2 DEF Gentle

(* Then what a pass relies on stays true while it does nothing.            *)
LEMMA PassStays ==
  ASSUME Types, Types', Gentle, NEW c \in Cleaners, PassOK(pass[c]), pass'[c] = pass[c]
  PROVE  PassOK(pass[c])'
  <1> DEFINE p == pass[c]
  <1>1. p \in PassType /\ p' = p
    BY DEF Types
  <1>2. /\ p.engine \subseteq Fits /\ p.start \in Int /\ p.upTo \in Int
        /\ p.found \subseteq [id : Ids, row : Row] /\ p.toDelete \subseteq Ids
    BY <1>1 DEF PassType
  <1> HIDE DEF p
  <1>3. PassOK(p)
    BY DEF p
  <1>4. p.upTo <= lastRow /\ lastRow \in Int
    BY <1>3 DEF PassOK, ShapeOK, Types
  <1>5. ASSUME NEW i \in Ids, i \in Live', traces'[i] /= traces[i]
        PROVE  Newer(i, p.upTo)'
    <2>1. traces'[i] \in Row /\ traces'[i].row > lastRow
      BY <1>5 DEF Gentle, Live
    <2>2. traces'[i].row \in Int
      BY <2>1, StoreAssumption DEF Row
    <2>3. traces'[i].row > p.upTo
      BY <1>2, <1>4, <2>1, <2>2
    <2> QED BY <1>1, <1>5, <2>3 DEF Newer
  <1>6. ASSUME NEW i, Newer(i, p.upTo), traces'[i] = traces[i]
        PROVE  Newer(i, p.upTo)'
    BY <1>1, <1>6 DEF Newer, Live
  <1>7. FoundOK(p)'
    <2>1. ASSUME NEW f \in p.found
          PROVE  traces'[f.id] \in {f.row, NoTrace} \/ Newer(f.id, p.upTo)'
      <3>1. f.id \in Ids
        BY <1>2
      <3>2. traces[f.id] \in {f.row, NoTrace} \/ Newer(f.id, p.upTo)
        BY <1>3 DEF PassOK, FoundOK
      <3>3. CASE f.id \notin Live'
        BY <3>1, <3>3 DEF Live
      <3> QED BY <1>5, <1>6, <3>1, <3>2, <3>3
    <2> QED BY <1>1, <2>1 DEF FoundOK, Newer
  <1>8. ToDeleteOK(p)'
    <2>1. ASSUME NEW i \in p.toDelete, i \in Live'
          PROVE  Due(traces'[i], p.engine, now') \/ Newer(i, p.upTo)'
      <3>1. i \in Ids
        BY <1>2
      <3>2. CASE traces'[i] = traces[i]
        <4>1. i \in Live /\ traces[i] \in Row
          BY <2>1, <3>1, <3>2 DEF Live, Types
        <4>2. Due(traces[i], p.engine, now) \/ Newer(i, p.upTo)
          BY <1>3, <4>1 DEF PassOK, ToDeleteOK
        <4>3. now \in Int /\ now' \in Int /\ now <= now'
          BY StoreAssumption DEF Gentle, Types
        <4>4. Due(traces[i], p.engine, now) => Due(traces[i], p.engine, now')
          BY <1>2, <4>1, <4>3, DueStays
        <4> QED BY <1>6, <3>2, <4>2, <4>4
      <3> QED BY <1>5, <2>1, <3>1, <3>2
    <2>2. \A i : Due(traces[i], p.engine, now)' <=> Due(traces'[i], p.engine, now')
      BY <1>1 DEF Due
    <2> QED BY <1>1, <2>1, <2>2 DEF ToDeleteOK, Newer
  <1>9. ShapeOK(p)'
    BY StoreAssumption, <1>1, <1>2, <1>3 DEF PassOK, ShapeOK, Gentle, Types
  <1> QED BY <1>7, <1>8, <1>9 DEF PassOK, p

LEMMA InitDInv ==
  ASSUME Assumptions, CleanInit
  PROVE  DInv
  <1>1. NoPass \in PassType
    BY DEF NoPass, PassType, Stages
  <1>2. now = 0 /\ removed = 0 /\ lastRow = 0 /\ traces = [i \in Ids |-> NoTrace]
    BY DEF CleanInit, Init
  <1>4. pass = [c \in Cleaners |-> NoPass] /\ rules \in StartRules
    BY DEF CleanInit
  <1>5. Types
    <2>1. now \in 0..MaxTime
      BY <1>2, StoreAssumption
    <2>2. rules \in [RuleIds -> Table \cup {NoRule}]
      BY <1>4 DEF Assumptions
    <2>3. pass \in [Cleaners -> PassType]
      BY <1>1, <1>4
    <2>4. traces \in [Ids -> Row \cup {NoTrace}]
      BY <1>2
    <2> QED BY <1>2, <2>1, <2>2, <2>3, <2>4 DEF Types
  <1>6. ASSUME NEW c \in Cleaners PROVE PassOK(pass[c])
    <2>1. pass[c] = NoPass
      BY <1>4
    <2> QED BY <1>2, <2>1 DEF PassOK, FoundOK, ToDeleteOK, ShapeOK, NoPass
  <1> QED BY <1>5, <1>6 DEF DInv

(* A step of no pass keeps what the passes rely on ...                     *)
LEMMA QuietStep ==
  ASSUME DInv, Types', Gentle, UNCHANGED pass
  PROVE  DInv'
  <1>1. ASSUME NEW c \in Cleaners PROVE PassOK(pass[c])'
    <2>1. Types /\ PassOK(pass[c]) /\ pass'[c] = pass[c]
      BY DEF DInv
    <2> QED BY <2>1, PassStays
  <1> QED BY <1>1 DEF DInv

(* ... and so does a step of one pass, for the others.                     *)
LEMMA StepOfOne ==
  ASSUME DInv, Types', Gentle, NEW c \in Cleaners, PassOK(pass[c])',
         \A d \in Cleaners \ {c} : pass'[d] = pass[d]
  PROVE  DInv'
  <1>1. ASSUME NEW d \in Cleaners PROVE PassOK(pass[d])'
    <2>1. CASE d = c
      BY <2>1
    <2>2. CASE d /= c
      <3>1. Types /\ PassOK(pass[d]) /\ pass'[d] = pass[d]
        BY <2>2 DEF DInv
      <3> QED BY <3>1, PassStays
    <2> QED BY <2>1, <2>2
  <1> QED BY <1>1 DEF DInv

(* A step that leaves the table, the clock and the history alone.          *)
Same == UNCHANGED <<now, traces, lastRow, removed>>

LEMMA SameIsGentle ==
  ASSUME Types, Same
  PROVE  Gentle /\ Live' = Live
  <1>1. now' \in 0..MaxTime /\ now <= now'
    BY StoreAssumption DEF Types, Same
  <1> QED BY <1>1, NoNewRow DEF Same, Live

(* The steps of the store alone.                                           *)
LEMMA StoreSteps ==
  ASSUME Assumptions, DInv, StoreStep, UNCHANGED cleanVars
  PROVE  Types' /\ Gentle
  <1>0. Types /\ UNCHANGED <<rules, pass>>
    BY DEF DInv, cleanVars
  <1>1. CASE Tick
    <2>1. now' \in 0..MaxTime /\ now <= now' /\ UNCHANGED <<traces, lastRow, removed>>
      BY <1>0, <1>1, StoreAssumption DEF Tick, Types
    <2>2. Types'
      BY <1>0, <2>1 DEF Types, Live
    <2>3. Gentle
      BY <1>0, <2>1, NoNewRow
    <2> QED BY <2>2, <2>3
  <1>2. ASSUME NEW c \in Callers, NEW i \in Ids, NEW k \in Classes, NEW t \in Oldest..now,
               Insert(c, i, k, t)
        PROVE  Types' /\ Gentle
    <2> DEFINE row == [row |-> lastRow + 1, class |-> k, createdAt |-> t]
    <2>1. /\ UNCHANGED <<now, removed>>
          /\ lastRow < MaxRows /\ lastRow' = lastRow + 1
          /\ traces' = [traces EXCEPT ![i] = row]
      BY <1>2 DEF Insert
    <2>2. row \in Row /\ row.row > lastRow
      BY <1>0, <2>1, StoreAssumption DEF Types, Row
    <2> HIDE DEF row
    <2>3. Types'
      <3>1. traces' \in [Ids -> Row \cup {NoTrace}]
        BY <1>0, <2>1, <2>2 DEF Types
      <3> QED BY <1>0, <2>1, <3>1 DEF Types
    <2>4. Gentle
      <3>1. now' \in Int /\ now <= now' /\ lastRow' \in Nat /\ lastRow <= lastRow'
        BY <1>0, <2>1, StoreAssumption DEF Types
      <3>2. \A j \in Ids : \/ traces'[j] \in {traces[j], NoTrace}
                           \/ traces'[j] \in Row /\ traces'[j].row > lastRow
        BY <1>0, <2>1, <2>2 DEF Types
      <3> QED BY <3>1, <3>2 DEF Gentle
    <2> QED BY <2>3, <2>4
  <1>3. CASE \E i \in Ids : DeleteTrace(i)
    <2>1. PICK i \in Ids : DeleteTrace(i)
      BY <1>3
    <2>2. /\ traces' = [traces EXCEPT ![i] = NoTrace] /\ removed' = removed + 1
          /\ UNCHANGED <<now, lastRow>>
      BY <2>1 DEF DeleteTrace
    <2>3. Types'
      BY <1>0, <2>2 DEF Types, Live
    <2>4. Gentle
      <3>1. now' \in 0..MaxTime /\ now <= now'
        BY <1>0, <2>2, StoreAssumption DEF Types
      <3>2. \A j \in Ids : traces'[j] \in {traces[j], NoTrace}
        BY <1>0, <2>2 DEF Types
      <3> QED BY <1>0, <2>2, <3>1, <3>2, NoNewRow
    <2> QED BY <2>3, <2>4
  <1>4. CASE Same
    <2>1. Types'
      BY <1>0, <1>4 DEF Types, Same, Live
    <2> QED BY <1>0, <1>4, <2>1, SameIsGentle
  <1>5. ASSUME NEW c \in Callers, Promote(c) PROVE Types' /\ Gentle
    <2>1. now \in Oldest..now
      BY <1>0, StoreAssumption DEF Types
    <2> QED BY <1>2, <1>5, <2>1 DEF Promote
  <1>6. ASSUME NEW c \in Callers, PromoteAt(c) PROVE Types' /\ Gentle
    BY <1>2, <1>6 DEF PromoteAt
  <1>7. ASSUME \/ \E c \in Callers : NotifyCheck(c) \/ NotifyCall(c) \/ NotifyNil(c)
               \/ Unwire \/ \E e \in Exporters : WireExporter(e)
               \/ \E x \in exports : GetTrace(x) \/ Export(x) \/ ExportFails(x)
        PROVE  Same
    BY <1>7 DEF Same, NotifyCheck, NotifyCall, NotifyNil, Unwire, WireExporter, GetTrace, Export,
       ExportFails
  <1> QED BY <1>1, <1>3, <1>4, <1>5, <1>6, <1>7 DEF StoreStep

(* Edits of the rules.                                                     *)
LEMMA EditSteps ==
  ASSUME Assumptions, DInv, NEW r \in RuleIds, CreateRule(r) \/ UpdateRule(r) \/ DeleteRule(r)
  PROVE  DInv'
  <1>1. NewRules \subseteq Table
    BY DEF Assumptions, NewRules, Table
  <1>2. PICK x \in Table \cup {NoRule} : rules' = [rules EXCEPT ![r] = x]
    BY <1>1 DEF CreateRule, UpdateRule, DeleteRule, Edit
  <1>3. Same /\ UNCHANGED pass
    BY DEF CreateRule, UpdateRule, DeleteRule, Edit, storeVars, Same
  <1>4. Types /\ Types'
    BY <1>2, <1>3 DEF DInv, Types, Same, Live
  <1> QED BY <1>3, <1>4, SameIsGentle, QuietStep

(* What a step of pass c does to the passes.                               *)
LEMMA StepFacts ==
  ASSUME Types, NEW c \in Cleaners, NEW from, NEW new \in PassType, Step(c, from, new)
  PROVE  /\ pass' \in [Cleaners -> PassType]
         /\ pass'[c] = new /\ pass[c].stage = from
         /\ \A d \in Cleaners \ {c} : pass'[d] = pass[d]
  BY DEF Step, Types

(* A step of pass c that leaves the table alone, with all of what c's next *)
(* locals must satisfy.                                                    *)
LEMMA LocalStep ==
  ASSUME DInv, NEW c \in Cleaners, pass' \in [Cleaners -> PassType],
         Same, rules' \in [RuleIds -> Table \cup {NoRule}],
         \A d \in Cleaners \ {c} : pass'[d] = pass[d],
         PassOK(pass[c])'
  PROVE  DInv'
  <1>1. Types'
    BY DEF DInv, Types, Same, Live
  <1> QED BY <1>1, SameIsGentle, StepOfOne DEF DInv

(* Before its SELECT and after its end a pass relies on little.            *)
LEMMA NothingSelected ==
  ASSUME NEW c \in Cleaners, pass'[c].found = {}, pass'[c].toDelete = {}, ShapeOK(pass[c])'
  PROVE  PassOK(pass[c])'
  BY DEF PassOK, FoundOK, ToDeleteOK

(* Start, and every way a pass ends.                                       *)
LEMMA RestSteps ==
  ASSUME DInv, NEW c \in Cleaners,
         \E st \in {"load", "idle", "stopped"} :
           pass' = [pass EXCEPT ![c] = [NoPass EXCEPT !.stage = st]],
         Same, UNCHANGED rules
  PROVE  DInv'
  <1> PICK st \in {"load", "idle", "stopped"} :
           pass' = [pass EXCEPT ![c] = [NoPass EXCEPT !.stage = st]]
    OBVIOUS
  <1> DEFINE new == [NoPass EXCEPT !.stage = st]
  <1>1. /\ new \in PassType /\ new.engine = {} /\ new.start = 0 /\ new.found = {}
        /\ new.toDelete = {} /\ new.deleted = 0 /\ new.stage = st /\ new.upTo = 0
    BY DEF NoPass, PassType, Stages
  <1> HIDE DEF new
  <1>2. /\ pass' \in [Cleaners -> PassType] /\ pass'[c] = new
        /\ \A d \in Cleaners \ {c} : pass'[d] = pass[d]
    BY <1>1 DEF DInv, Types, new
  <1>3. Types /\ Types'
    BY <1>2 DEF DInv, Types, Same, Live
  <1>4. ShapeOK(pass[c])'
    <2>1. 0 <= now' /\ 0 <= lastRow'
      BY <1>3, StoreAssumption DEF Types
    <2> QED BY <1>1, <1>2, <2>1 DEF ShapeOK
  <1>5. PassOK(pass[c])'
    BY <1>1, <1>2, <1>4, NothingSelected
  <1> QED BY <1>2, <1>3, <1>5, LocalStep DEF Types

(* The actions of a pass, one by one.                                      *)
LEMMA LoadStep ==
  ASSUME DInv, NEW c \in Cleaners, Load(c)
  PROVE  DInv'
  <1>0. Types /\ PassOK(pass[c]) /\ pass[c] \in PassType
    BY DEF DInv, Types
  <1>1. Same /\ UNCHANGED rules
    BY DEF Load, storeVars, Same
  <1> DEFINE engine == NewRetentionEngine(RuleSet)
             new == [pass[c] EXCEPT !.stage = "cutoff", !.engine = engine]
  <1>2. engine \subseteq Fits
    <2>1. RuleSet \subseteq Table
      BY <1>0 DEF RuleSet, Types
    <2> QED BY <2>1 DEF NewRetentionEngine, Table, Fits
  <1>3. Step(c, "load", new)
    BY Zenon DEF Load
  <1> HIDE DEF engine
  <1>4. /\ new \in PassType /\ new.start = pass[c].start /\ new.found = pass[c].found
        /\ new.toDelete = pass[c].toDelete /\ new.deleted = pass[c].deleted
        /\ new.stage = "cutoff" /\ new.upTo = pass[c].upTo
    BY <1>0, <1>2 DEF PassType, Stages
  <1> HIDE DEF new
  <1>5. /\ pass' \in [Cleaners -> PassType] /\ pass'[c] = new /\ pass[c].stage = "load"
        /\ \A d \in Cleaners \ {c} : pass'[d] = pass[d]
    BY <1>0, <1>3, <1>4, StepFacts
  <1>6. ShapeOK(pass[c])' /\ pass'[c].found = {} /\ pass'[c].toDelete = {}
    BY <1>0, <1>1, <1>4, <1>5 DEF PassOK, ShapeOK, Same
  <1>7. PassOK(pass[c])'
    BY <1>6, NothingSelected
  <1> QED BY <1>0, <1>1, <1>5, <1>7, LocalStep DEF Types

LEMMA LoadFailsStep ==
  ASSUME DInv, NEW c \in Cleaners, LoadFails(c)
  PROVE  DInv'
  <1>0. Types /\ PassOK(pass[c]) /\ pass[c] \in PassType
    BY DEF DInv, Types
  <1>1. Same /\ UNCHANGED rules
    BY DEF LoadFails, KeepStore, Same
  <1>2. CASE c \in Background
    <2> DEFINE new == [pass[c] EXCEPT !.stage = "cutoff"]
    <2>1. Step(c, "load", new)
      BY <1>2, Zenon DEF LoadFails
    <2>2. /\ new \in PassType /\ new.start = pass[c].start /\ new.found = pass[c].found
          /\ new.toDelete = pass[c].toDelete /\ new.deleted = pass[c].deleted
          /\ new.stage = "cutoff" /\ new.upTo = pass[c].upTo
      BY <1>0 DEF PassType, Stages
    <2> HIDE DEF new
    <2>3. /\ pass' \in [Cleaners -> PassType] /\ pass'[c] = new /\ pass[c].stage = "load"
          /\ \A d \in Cleaners \ {c} : pass'[d] = pass[d]
      BY <1>0, <2>1, <2>2, StepFacts
    <2>4. ShapeOK(pass[c])' /\ pass'[c].found = {} /\ pass'[c].toDelete = {}
      BY <1>0, <1>1, <2>2, <2>3 DEF PassOK, ShapeOK, Same
    <2>5. PassOK(pass[c])'
      BY <2>4, NothingSelected
    <2> QED BY <1>0, <1>1, <2>3, <2>5, LocalStep DEF Types
  <1>3. CASE c \notin Background
    <2>1. pass' = [pass EXCEPT ![c] = NoPass]
      BY <1>3 DEF LoadFails, Step
    <2>2. NoPass = [NoPass EXCEPT !.stage = "idle"]
      BY DEF NoPass
    <2> QED BY <1>1, <2>1, <2>2, RestSteps
  <1> QED BY <1>2, <1>3

LEMMA CutoffStep ==
  ASSUME DInv, NEW c \in Cleaners, Cutoff(c)
  PROVE  DInv'
  <1>0. Types /\ PassOK(pass[c]) /\ pass[c] \in PassType
    BY DEF DInv, Types
  <1>1. Same /\ UNCHANGED rules
    BY DEF Cutoff, storeVars, Same
  <1> DEFINE st == IF HasRules(pass[c].engine) THEN "query" ELSE "sweep"
             new == [pass[c] EXCEPT !.start = now, !.stage = st]
  <1>2. Step(c, "cutoff", new)
    BY Zenon DEF Cutoff
  <1>3. st \in {"query", "sweep"} /\ (st = "sweep" => pass[c].engine = {})
    BY DEF HasRules
  <1> HIDE DEF st
  <1>4. /\ new \in PassType /\ new.start = now /\ new.found = pass[c].found
        /\ new.toDelete = pass[c].toDelete /\ new.deleted = pass[c].deleted
        /\ new.stage = st /\ new.engine = pass[c].engine /\ new.upTo = pass[c].upTo
    <2>1. now \in Int
      BY <1>0, StoreAssumption DEF Types
    <2>2. st \in Stages
      BY <1>3 DEF Stages
    <2> QED BY <1>0, <2>1, <2>2 DEF PassType
  <1> HIDE DEF new
  <1>5. /\ pass' \in [Cleaners -> PassType] /\ pass'[c] = new /\ pass[c].stage = "cutoff"
        /\ \A d \in Cleaners \ {c} : pass'[d] = pass[d]
    BY <1>0, <1>2, <1>4, StepFacts
  <1>6. ShapeOK(pass[c])' /\ pass'[c].found = {} /\ pass'[c].toDelete = {}
    BY <1>0, <1>1, <1>3, <1>4, <1>5, StoreAssumption DEF PassOK, ShapeOK, Same, Types
  <1>7. PassOK(pass[c])'
    BY <1>6, NothingSelected
  <1> QED BY <1>0, <1>1, <1>5, <1>7, LocalStep DEF Types

LEMMA QueryStep ==
  ASSUME DInv, NEW c \in Cleaners, Query(c)
  PROVE  DInv'
  <1>0. Types /\ PassOK(pass[c]) /\ pass[c] \in PassType
    BY DEF DInv, Types
  <1>1. Same /\ UNCHANGED rules
    BY DEF Query, KeepStore, Same
  <1> DEFINE cutoff == pass[c].start - PrefilterTTL(pass[c].engine)
             found == {[id |-> i, row |-> traces[i]] :
                         i \in {j \in Live : Before(traces[j], cutoff)}}
             new == [pass[c] EXCEPT !.stage = "scan", !.upTo = lastRow, !.found = found]
  <1>2. Step(c, "query", new)
    BY Zenon DEF Query
  <1>3. \A f \in found : f.id \in Live /\ f.row = traces[f.id] /\ f \in [id : Ids, row : Row]
    BY <1>0 DEF Live, Types
  <1> HIDE DEF found
  <1>4. /\ new \in PassType /\ new.start = pass[c].start /\ new.found = found
        /\ new.toDelete = pass[c].toDelete /\ new.stage = "scan" /\ new.upTo = lastRow
    <2>1. lastRow \in Int /\ "scan" \in Stages /\ found \subseteq [id : Ids, row : Row]
      BY <1>0, <1>3 DEF Types, Stages
    <2> QED BY <1>0, <2>1 DEF PassType
  <1> HIDE DEF new
  <1>5. /\ pass' \in [Cleaners -> PassType] /\ pass'[c] = new /\ pass[c].stage = "query"
        /\ \A d \in Cleaners \ {c} : pass'[d] = pass[d]
    BY <1>0, <1>2, <1>4, StepFacts
  <1>6. ShapeOK(pass[c])' /\ pass'[c].toDelete = {} /\ pass'[c].found = found
    <2>1. lastRow' <= lastRow'
      BY <1>0, <1>1 DEF Types, Same
    <2> QED BY <1>0, <1>1, <1>4, <1>5, <2>1 DEF PassOK, ShapeOK, Same
  <1>7. FoundOK(pass[c])'
    BY <1>0, <1>1, <1>3, <1>6 DEF FoundOK, Same, Types
  <1>8. PassOK(pass[c])'
    BY <1>6, <1>7 DEF PassOK, ToDeleteOK
  <1> QED BY <1>0, <1>1, <1>5, <1>8, LocalStep DEF Types

(* The age is looked at in what Query saw; the row there is by now is the  *)
(* same one, none or a newer one.                                          *)
LEMMA ScanStep ==
  ASSUME DInv, NEW c \in Cleaners, Scan(c)
  PROVE  DInv'
  <1>0. Types /\ PassOK(pass[c]) /\ pass[c] \in PassType
    BY DEF DInv, Types
  <1>1. Same /\ UNCHANGED rules
    BY DEF Scan, KeepStore, Same
  <1> DEFINE old == {g \in pass[c].found : Expired(g.row, pass[c].engine, now)}
             ids == {f.id : f \in old}
             new == [pass[c] EXCEPT !.stage = "delete", !.found = {}, !.toDelete = ids]
  <1>2. Step(c, "scan", new)
    BY Zenon DEF Scan
  <1>3. /\ pass[c].found \subseteq [id : Ids, row : Row] /\ pass[c].engine \subseteq Fits
        /\ now \in Int
    BY <1>0, StoreAssumption DEF PassType, Types
  <1>4. ids \subseteq Ids
    BY <1>3
  <1>5. ASSUME NEW i \in ids
        PROVE  i \in Live => Due(traces[i], pass[c].engine, now) \/ Newer(i, pass[c].upTo)
    <2>1. PICK f \in old : i = f.id
      OBVIOUS
    <2>2. /\ f.row \in Row /\ Expired(f.row, pass[c].engine, now)
          /\ traces[f.id] \in {f.row, NoTrace} \/ Newer(f.id, pass[c].upTo)
      BY <1>0, <1>3 DEF PassOK, FoundOK
    <2>3. Due(f.row, pass[c].engine, now)
      BY <1>3, <2>2, ExpiredIsDue
    <2> QED BY <2>1, <2>2, <2>3 DEF Live
  <1> HIDE DEF ids
  <1>6. /\ new \in PassType /\ new.start = pass[c].start /\ new.found = {}
        /\ new.toDelete = ids /\ new.stage = "delete" /\ new.engine = pass[c].engine
        /\ new.upTo = pass[c].upTo
    <2>1. "delete" \in Stages
      BY DEF Stages
    <2> QED BY <1>0, <1>4, <2>1 DEF PassType
  <1> HIDE DEF new
  <1>7. /\ pass' \in [Cleaners -> PassType] /\ pass'[c] = new /\ pass[c].stage = "scan"
        /\ \A d \in Cleaners \ {c} : pass'[d] = pass[d]
    BY <1>0, <1>2, <1>6, StepFacts
  <1>8. /\ ShapeOK(pass[c])' /\ pass'[c].toDelete = ids /\ pass'[c].found = {}
        /\ pass'[c].engine = pass[c].engine /\ pass'[c].upTo = pass[c].upTo
    BY <1>0, <1>1, <1>6, <1>7 DEF PassOK, ShapeOK, Same
  <1>9. ToDeleteOK(pass[c])'
    <2>1. Live' = Live /\ traces' = traces /\ now' = now
      BY <1>1 DEF Same, Live
    <2>2. \A i : Due(traces[i], pass[c].engine, now)' <=> Due(traces[i], pass[c].engine, now)
      BY <1>8, <2>1 DEF Due
    <2> QED BY <1>5, <1>8, <2>1, <2>2 DEF ToDeleteOK, Newer
  <1>10. PassOK(pass[c])'
    BY <1>8, <1>9 DEF PassOK, FoundOK
  <1> QED BY <1>0, <1>1, <1>7, <1>10, LocalStep DEF Types

(* What a delete does to the table: some rows go, nothing else changes.    *)
Deletes == /\ UNCHANGED <<now, lastRow, removed, rules>>
           /\ traces' \in [Ids -> Row \cup {NoTrace}]
           /\ \A i \in Ids : traces'[i] \in {traces[i], NoTrace}

LEMMA DeletesAreGentle ==
  ASSUME Types, Deletes, pass' \in [Cleaners -> PassType]
  PROVE  Types' /\ Gentle
  <1>1. now' \in 0..MaxTime /\ now <= now'
    BY StoreAssumption DEF Types, Deletes
  <1>2. Gentle
    BY <1>1, NoNewRow DEF Deletes
  <1>3. Types'
    BY DEF Types, Deletes
  <1> QED BY <1>2, <1>3

LEMMA SweepStep ==
  ASSUME Assumptions, DInv, NEW c \in Cleaners, Sweep(c)
  PROVE  DInv'
  <1>0. Types /\ PassOK(pass[c]) /\ pass[c] \in PassType
    BY DEF DInv, Types
  <1> DEFINE old == {i \in Live : Before(traces[i], pass[c].start - DefaultTTL)}
             new == [pass[c] EXCEPT !.stage = "delete", !.upTo = lastRow,
                                    !.deleted = Cardinality(old)]
  <1>1. Step(c, "sweep", new) /\ traces' = [i \in Ids |-> IF i \in old THEN NoTrace ELSE traces[i]]
    BY Zenon DEF Sweep
  <1>2. Cardinality(old) \in Nat
    <2>1. old \subseteq Ids
      BY DEF Live
    <2> QED BY <2>1, FS_Subset, FS_CardinalityType DEF Assumptions
  <1>3. Deletes
    BY <1>0, <1>1 DEF Sweep, Deletes, Types
  <1> HIDE DEF old
  <1>4. /\ new \in PassType /\ new.start = pass[c].start /\ new.found = pass[c].found
        /\ new.toDelete = pass[c].toDelete /\ new.stage = "delete" /\ new.upTo = lastRow
    <2>1. lastRow \in Int /\ "delete" \in Stages
      BY <1>0 DEF Types, Stages
    <2> QED BY <1>0, <1>2, <2>1 DEF PassType
  <1> HIDE DEF new
  <1>5. /\ pass' \in [Cleaners -> PassType] /\ pass'[c] = new /\ pass[c].stage = "sweep"
        /\ \A d \in Cleaners \ {c} : pass'[d] = pass[d]
    BY <1>0, <1>1, <1>4, StepFacts
  <1>6. ShapeOK(pass[c])' /\ pass'[c].found = {} /\ pass'[c].toDelete = {}
    <2>1. lastRow' <= lastRow'
      BY <1>0, <1>3 DEF Types, Deletes
    <2> QED BY <1>0, <1>3, <1>4, <1>5, <2>1 DEF PassOK, ShapeOK, Deletes
  <1>7. PassOK(pass[c])'
    BY <1>6, NothingSelected
  <1> QED BY <1>0, <1>3, <1>5, <1>7, DeletesAreGentle, StepOfOne

LEMMA DeleteOneStep ==
  ASSUME DInv, NEW c \in Cleaners, NEW i \in Ids, DeleteOne(c, i)
  PROVE  DInv'
  <1>0. Types /\ PassOK(pass[c]) /\ pass[c] \in PassType
    BY DEF DInv, Types
  <1> DEFINE left == pass[c].toDelete \ {i}
             count == pass[c].deleted + (IF traces[i] = NoTrace THEN 0 ELSE 1)
             new == [pass[c] EXCEPT !.toDelete = left, !.deleted = count]
  <1>1. Step(c, "delete", new) /\ traces' = [traces EXCEPT ![i] = NoTrace]
    BY DEF DeleteOne
  <1>2. count \in Nat /\ left \subseteq Ids
    BY <1>0 DEF PassType
  <1>3. Deletes
    BY <1>0, <1>1 DEF DeleteOne, Deletes, Types
  <1> HIDE DEF count
  <1>4. /\ new \in PassType /\ new.start = pass[c].start /\ new.found = pass[c].found
        /\ new.toDelete = left /\ new.stage = pass[c].stage /\ new.engine = pass[c].engine
        /\ new.upTo = pass[c].upTo
    BY <1>0, <1>2 DEF PassType
  <1> HIDE DEF new
  <1>5. /\ pass' \in [Cleaners -> PassType] /\ pass'[c] = new /\ pass[c].stage = "delete"
        /\ \A d \in Cleaners \ {c} : pass'[d] = pass[d]
    BY <1>0, <1>1, <1>4, StepFacts
  <1>6. /\ ShapeOK(pass[c])' /\ pass'[c].found = {} /\ pass'[c].toDelete = left
        /\ pass'[c].engine = pass[c].engine /\ pass'[c].upTo = pass[c].upTo
    BY <1>0, <1>3, <1>4, <1>5 DEF PassOK, ShapeOK, Deletes
  <1>7. ToDeleteOK(pass[c])'
    <2>1. now' = now /\ \A j \in left : traces'[j] = traces[j]
      BY <1>0, <1>1, <1>2, <1>3 DEF Deletes, Types
    <2>2. ASSUME NEW j \in left, j \in Live'
          PROVE  Due(traces'[j], pass'[c].engine, now') \/ Newer(j, pass[c].upTo)'
      <3>1. j \in Live
        BY <2>1, <2>2 DEF Live
      <3>2. Due(traces[j], pass[c].engine, now) \/ Newer(j, pass[c].upTo)
        BY <1>0, <3>1 DEF PassOK, ToDeleteOK
      <3> QED BY <1>6, <2>1, <2>2, <3>2 DEF Newer
    <2>3. \A j : Due(traces[j], pass[c].engine, now)' <=> Due(traces'[j], pass'[c].engine, now')
      BY DEF Due
    <2> QED BY <1>6, <2>2, <2>3 DEF ToDeleteOK, Newer
  <1>8. PassOK(pass[c])'
    BY <1>6, <1>7 DEF PassOK, FoundOK
  <1> QED BY <1>0, <1>3, <1>5, <1>8, DeletesAreGentle, StepOfOne

(* A pass ends, by itself, by an error or with its loop.                   *)
LEMMA EndSteps ==
  ASSUME DInv, NEW c \in Cleaners, Start(c) \/ Finish(c) \/ StatementFails(c) \/ Stop(c)
  PROVE  DInv'
  <1>1. Same /\ UNCHANGED rules
    BY DEF Start, Finish, StatementFails, Stop, KeepStore, storeVars, Same
  <1>2. NoPass = [NoPass EXCEPT !.stage = "idle"]
    BY DEF NoPass
  <1>3. \E st \in {"load", "idle", "stopped"} :
          pass' = [pass EXCEPT ![c] = [NoPass EXCEPT !.stage = st]]
    BY <1>2 DEF Start, Finish, StatementFails, Stop, Step
  <1> QED BY <1>1, <1>3, RestSteps

LEMMA RestartStep ==
  ASSUME DInv, Restart
  PROVE  DInv'
  <1>1. Same /\ UNCHANGED rules /\ pass' = [c \in Cleaners |-> NoPass]
    BY DEF Restart, Crash, Same
  <1>2. NoPass \in PassType
    BY DEF NoPass, PassType, Stages
  <1>3. Types /\ Types'
    BY <1>1, <1>2 DEF DInv, Types, Same, Live
  <1>4. 0 <= now' /\ 0 <= lastRow'
    BY <1>3, StoreAssumption DEF Types
  <1>5. ASSUME NEW c \in Cleaners PROVE PassOK(pass[c])'
    BY <1>1, <1>4 DEF PassOK, FoundOK, ToDeleteOK, ShapeOK, NoPass
  <1> QED BY <1>3, <1>5 DEF DInv

(* So DInv is inductive.                                                   *)
LEMMA NextDInv ==
  ASSUME Assumptions, DInv, [CleanNext]_vars
  PROVE  DInv'
  <1>1. CASE StoreStep /\ UNCHANGED cleanVars
    BY <1>1, StoreSteps, QuietStep DEF cleanVars
  <1>2. ASSUME NEW r \in RuleIds, CreateRule(r) \/ UpdateRule(r) \/ DeleteRule(r)
        PROVE  DInv'
    BY <1>2, EditSteps
  <1>3. ASSUME NEW c \in Cleaners, Start(c) \/ PassStep(c) \/ FailStep(c) \/ Stop(c)
        PROVE  DInv'
    <2>1. CASE PassStep(c)
      BY <2>1, LoadStep, CutoffStep, SweepStep, QueryStep, ScanStep, DeleteOneStep, EndSteps
         DEF PassStep
    <2> QED BY <1>3, <2>1, LoadFailsStep, EndSteps DEF FailStep
  <1>4. CASE Cancel \/ UNCHANGED vars
    <2>1. Same /\ UNCHANGED <<rules, pass>>
      BY <1>4 DEF Cancel, vars, cleanVars, storeVars, Same
    <2>2. Types /\ Types'
      BY <2>1 DEF DInv, Types, Same, Live
    <2> QED BY <2>1, <2>2, SameIsGentle, QuietStep
  <1>5. CASE Restart
    BY <1>5, RestartStep
  <1> QED BY <1>1, <1>2, <1>3, <1>4, <1>5 DEF CleanNext

-----------------------------------------------------------------------------
(* Who makes a row disappear: DeleteTrace, or one pass, which counts it    *)
(* and for whose rules it is due, unless it is newer than the selection.   *)
DueFor(c, i) ==
  /\ DeletedBy(c) /\ (Selectable(c, traces[i]) => Due(traces[i], pass[c].engine, now))
  /\ pass[c].stage \in {"sweep", "delete"}
  /\ \A d \in Cleaners \ {c} : pass'[d] = pass[d]

LEMMA SweptIsDue ==
  ASSUME Assumptions, NotAhead, DInv, NEW c \in Cleaners, Sweep(c), NEW i \in Live, traces'[i] = NoTrace
  PROVE  DueFor(c, i)
  <1>0. Types /\ PassOK(pass[c]) /\ pass[c] \in PassType
    BY DEF DInv, Types
  <1> DEFINE old == {j \in Live : Before(traces[j], pass[c].start - DefaultTTL)}
             new == [pass[c] EXCEPT !.stage = "delete", !.upTo = lastRow,
                                    !.deleted = Cardinality(old)]
  <1>1. Step(c, "sweep", new) /\ traces' = [j \in Ids |-> IF j \in old THEN NoTrace ELSE traces[j]]
    BY Zenon DEF Sweep
  <1>2. i \in Ids /\ i \in old /\ traces[i] \in Row
    BY <1>0, <1>1 DEF Live, Types
  <1>3. Cardinality(old) \in Nat /\ Cardinality(old) > 0
    <2>1. old \subseteq Ids
      BY DEF Live
    <2>2. IsFiniteSet(old)
      BY <2>1, FS_Subset DEF Assumptions
    <2> HIDE DEF old
    <2>3. Cardinality(old) \in Nat /\ Cardinality(old) /= 0
      BY <1>2, <2>2, FS_CardinalityType, FS_EmptySet
    <2> QED BY <2>3
  <1>4. traces[i].createdAt < pass[c].start - DefaultTTL + Zone
    BY <1>2 DEF Before
  <1> HIDE DEF old
  <1>5. /\ pass'[c].deleted = Cardinality(old) /\ pass[c].stage = "sweep"
        /\ \A d \in Cleaners \ {c} : pass'[d] = pass[d]
    BY <1>0, <1>1 DEF Step, Types, PassType
  <1>6. pass[c].deleted = 0 /\ pass[c].engine = {} /\ pass[c].start <= now
    BY <1>0, <1>5 DEF PassOK, ShapeOK
  <1>7. now - traces[i].createdAt > DefaultTTL
    <2>1. /\ now \in Int /\ pass[c].start \in Int /\ DefaultTTL \in Int
          /\ traces[i].createdAt \in Int /\ Zone \in Int /\ Zone <= 0
      BY <1>0, <1>2, StoreAssumption, DefaultTTLAssumption, ZoneAssumption
         DEF Types, PassType, Row, NotAhead
    <2> QED BY <1>4, <1>6, <2>1
  <1>8. Due(traces[i], pass[c].engine, now)
    BY <1>6, <1>7 DEF Due
  <1> QED BY <1>3, <1>5, <1>6, <1>8 DEF DueFor, DeletedBy

LEMMA DeletedIsDue ==
  ASSUME DInv, NEW c \in Cleaners, NEW j \in Ids, DeleteOne(c, j),
         NEW i \in Live, traces'[i] = NoTrace
  PROVE  DueFor(c, i)
  <1>0. Types /\ PassOK(pass[c]) /\ pass[c] \in PassType
    BY DEF DInv, Types
  <1> DEFINE count == pass[c].deleted + (IF traces[j] = NoTrace THEN 0 ELSE 1)
             new == [pass[c] EXCEPT !.toDelete = pass[c].toDelete \ {j}, !.deleted = count]
  <1>1. Step(c, "delete", new) /\ traces' = [traces EXCEPT ![j] = NoTrace]
    BY DEF DeleteOne
  <1>2. i = j /\ traces[i] /= NoTrace /\ i \in pass[c].toDelete
    BY <1>0, <1>1 DEF DeleteOne, Live, Types
  <1>3. count > pass[c].deleted
    BY <1>0, <1>2 DEF PassType
  <1> HIDE DEF count
  <1>4. /\ pass'[c].deleted = count /\ pass[c].stage = "delete"
        /\ pass'[c].upTo = pass[c].upTo
        /\ \A d \in Cleaners \ {c} : pass'[d] = pass[d]
    BY <1>0, <1>1 DEF Step, Types, PassType
  <1>5. Selectable(c, traces[i]) => Due(traces[i], pass[c].engine, now)
    <2>1. Due(traces[i], pass[c].engine, now) \/ Newer(i, pass[c].upTo)
      BY <1>0, <1>2 DEF PassOK, ToDeleteOK
    <2>2. traces[i].row \in Int /\ pass[c].upTo \in Int
      BY <1>0, <1>2, StoreAssumption DEF Types, Live, Row, PassType
    <2> QED BY <1>4, <2>1, <2>2 DEF Newer, Selectable
  <1> QED BY <1>3, <1>4, <1>5 DEF DueFor, DeletedBy

LEMMA LossIsAccountedFor ==
  ASSUME Assumptions, NotAhead, DInv, [CleanNext]_vars, NEW i \in Live, traces'[i] = NoTrace
  PROVE  \/ removed' /= removed /\ UNCHANGED pass
         \/ \E c \in Cleaners : DueFor(c, i)
  <1>0. Types
    BY DEF DInv
  <1>1. traces' /= traces
    BY DEF Live
  <1>2. CASE StoreStep /\ UNCHANGED cleanVars
    <2>1. ASSUME NEW c \in Callers, NEW j \in Ids, NEW k \in Classes, NEW t, Insert(c, j, k, t)
          PROVE  FALSE
      BY <1>0, <2>1, StoreAssumption, NoTraceAssumption DEF Insert, Types, Live
    <2>2. ASSUME NEW c \in Callers, Promote(c) \/ PromoteAt(c) PROVE FALSE
      BY <2>1, <2>2 DEF Promote, PromoteAt
    <2>3. PICK j \in Ids : DeleteTrace(j)
      BY <1>1, <1>2, <2>2 DEF StoreStep, Tick, NotifyCheck, NotifyCall, NotifyNil, Unwire,
         WireExporter, GetTrace, Export, ExportFails
    <2> QED BY <1>0, <1>2, <2>3 DEF DeleteTrace, Types, cleanVars
  <1>3. CASE \E c \in Cleaners : Sweep(c) \/ \E j \in Ids : DeleteOne(c, j)
    BY <1>3, SweptIsDue, DeletedIsDue
  <1>4. ASSUME \/ \E r \in RuleIds : CreateRule(r) \/ UpdateRule(r) \/ DeleteRule(r)
               \/ Cancel \/ Restart \/ UNCHANGED vars
        PROVE  FALSE
    BY <1>1, <1>4 DEF CreateRule, UpdateRule, DeleteRule, Edit, Cancel, Restart, Crash, vars, storeVars
  <1>5. ASSUME NEW c \in Cleaners,
               \/ Start(c) \/ Load(c) \/ Cutoff(c) \/ Query(c) \/ Scan(c) \/ Finish(c)
               \/ FailStep(c) \/ Stop(c)
        PROVE  FALSE
    BY <1>1, <1>5 DEF Start, Load, Cutoff, Query, Scan, Finish, FailStep, LoadFails,
       StatementFails, Stop, KeepStore, storeVars
  <1> QED BY <1>2, <1>3, <1>4, <1>5 DEF CleanNext, PassStep

(* No pass deletes a trace that was there when it made its selection and   *)
(* is not due under the rules it loaded, however long ago that was and     *)
(* whatever was promoted, deleted and promoted again in between, for every *)
(* table of rules whose TTLs time.Duration can hold, on a machine whose    *)
(* clock does not run ahead of UTC.                                        *)
THEOREM DeletionsAreDue ==
  ASSUME Assumptions, NotAhead
  PROVE  CleanSpec => NoEarlyDeletion
  <1> DEFINE A == \A i \in Live : traces'[i] = NoTrace =>
                    \/ removed' /= removed
                    \/ \E c \in Cleaners :
                         DeletedBy(c) /\ (Selectable(c, traces[i])
                                            => Due(traces[i], pass[c].engine, now))
  <1>1. DInv /\ [CleanNext]_vars => A
    BY LossIsAccountedFor DEF DueFor
  <1> HIDE DEF A
  <1>2. CleanInit => DInv
    BY InitDInv
  <1>3. DInv /\ [CleanNext]_vars => DInv'
    BY NextDInv
  <1>4. NoEarlyDeletion <=> [][A]_vars
    BY DEF A, NoEarlyDeletion
  <1> QED BY <1>1, <1>2, <1>3, <1>4, PTL DEF CleanSpec

-----------------------------------------------------------------------------
(* Until somebody edits the rules, a pass of RunCleanup that got past its  *)
(* load works with the rules of the table.                                 *)
UpToDate(c) ==
  edits = 0 /\ pass[c].stage \in {"cutoff", "sweep", "query", "scan", "delete"} =>
    pass[c].engine = Current

Loaded == edits \in Nat /\ \A c \in Cleaners \ Background : UpToDate(c)

LEMMA InitLoaded == CleanInit => Loaded
  BY DEF CleanInit, Loaded, UpToDate, NoPass

(* What a pass step does to its engine: it keeps it, loads it from the     *)
(* table, or leaves the stages where the engine is used.                   *)
LEMMA EngineSteps ==
  ASSUME DInv, NEW c \in Cleaners, Start(c) \/ PassStep(c) \/ FailStep(c) \/ Stop(c)
  PROVE  /\ UNCHANGED <<rules, edits>>
         /\ \A d \in Cleaners \ {c} : pass'[d] = pass[d]
         /\ \/ c \in Background
            \/ pass'[c].stage \notin {"cutoff", "sweep", "query", "scan", "delete"}
            \/ pass'[c].engine = Current
            \/ /\ pass[c].stage \in {"cutoff", "sweep", "query", "scan", "delete"}
               /\ pass'[c].engine = pass[c].engine
  <1>0. pass \in [Cleaners -> PassType]
    BY DEF DInv, Types
  <1>1. UNCHANGED <<rules, edits>>
    BY DEF Start, PassStep, FailStep, Stop, Load, Cutoff, Sweep, Query, Scan, DeleteOne, Finish,
       LoadFails, StatementFails
  <1>2. CASE \/ Start(c) \/ Finish(c) \/ StatementFails(c) \/ Stop(c)
             \/ LoadFails(c) /\ c \notin Background
    <2>1. \E st \in {"load", "idle", "stopped"} :
            pass' = [pass EXCEPT ![c] = [NoPass EXCEPT !.stage = st]]
      <3>1. NoPass = [NoPass EXCEPT !.stage = "idle"]
        BY DEF NoPass
      <3> QED BY <1>2, <3>1 DEF Start, Finish, LoadFails, StatementFails, Stop, Step
    <2>2. PICK st \in {"load", "idle", "stopped"} :
            pass' = [pass EXCEPT ![c] = [NoPass EXCEPT !.stage = st]]
      BY <2>1
    <2>3. pass'[c].stage = st /\ \A d \in Cleaners \ {c} : pass'[d] = pass[d]
      BY <1>0, <2>2 DEF NoPass
    <2> QED BY <1>1, <2>3
  <1>3. CASE Load(c)
    <2>1. pass'[c].engine = Current /\ \A d \in Cleaners \ {c} : pass'[d] = pass[d]
      BY <1>0, <1>3 DEF Load, Step, PassType, Current
    <2> QED BY <1>1, <2>1
  <1>4. ASSUME Cutoff(c) \/ Sweep(c) \/ Query(c) \/ Scan(c) \/ \E i \in Ids : DeleteOne(c, i)
        PROVE  /\ pass[c].stage \in {"cutoff", "sweep", "query", "scan", "delete"}
               /\ pass'[c].engine = pass[c].engine
               /\ \A d \in Cleaners \ {c} : pass'[d] = pass[d]
    <2>0. pass[c] \in PassType
      BY <1>0
    <2>1. CASE Cutoff(c)
      BY <1>0, <2>0, <2>1 DEF Cutoff, Step, PassType
    <2>2. CASE Sweep(c)
      BY <1>0, <2>0, <2>2 DEF Sweep, Step, PassType
    <2>3. CASE Query(c)
      BY <1>0, <2>0, <2>3 DEF Query, Step, PassType
    <2>4. CASE Scan(c)
      BY <1>0, <2>0, <2>4 DEF Scan, Step, PassType
    <2>5. CASE \E i \in Ids : DeleteOne(c, i)
      BY <1>0, <2>0, <2>5 DEF DeleteOne, Step, PassType
    <2> QED BY <1>4, <2>1, <2>2, <2>3, <2>4, <2>5
  <1>5. CASE LoadFails(c) /\ c \in Background
    <2>1. \A d \in Cleaners \ {c} : pass'[d] = pass[d]
      BY <1>0, <1>5 DEF LoadFails, Step
    <2> QED BY <1>1, <1>5, <2>1
  <1> QED BY <1>1, <1>2, <1>3, <1>4, <1>5 DEF PassStep, FailStep

LEMMA NextLoaded ==
  ASSUME DInv, Loaded, [CleanNext]_vars
  PROVE  Loaded'
  <1>1. CASE UNCHANGED <<rules, edits, pass>>
    BY <1>1 DEF Loaded, UpToDate, Current, RuleSet
  <1>2. ASSUME NEW r \in RuleIds, CreateRule(r) \/ UpdateRule(r) \/ DeleteRule(r)
        PROVE  Loaded'
    <2>1. edits' = edits + 1 /\ edits \in Nat
      BY <1>2 DEF CreateRule, UpdateRule, DeleteRule, Edit, Loaded
    <2> QED BY <2>1 DEF Loaded, UpToDate
  <1>3. ASSUME NEW c \in Cleaners, Start(c) \/ PassStep(c) \/ FailStep(c) \/ Stop(c)
        PROVE  Loaded'
    <2>1. /\ UNCHANGED <<rules, edits>>
          /\ \A d \in Cleaners \ {c} : pass'[d] = pass[d]
          /\ \/ c \in Background
             \/ pass'[c].stage \notin {"cutoff", "sweep", "query", "scan", "delete"}
             \/ pass'[c].engine = Current
             \/ /\ pass[c].stage \in {"cutoff", "sweep", "query", "scan", "delete"}
                /\ pass'[c].engine = pass[c].engine
      BY <1>3, EngineSteps
    <2>2. Current' = Current
      BY <2>1 DEF Current, RuleSet
    <2>3. ASSUME NEW d \in Cleaners \ Background PROVE UpToDate(d)'
      <3>1. UpToDate(d)
        BY DEF Loaded
      <3>2. CASE d = c
        BY <2>1, <2>2, <3>1, <3>2 DEF UpToDate
      <3>3. CASE d /= c
        BY <2>1, <2>2, <3>1, <3>3 DEF UpToDate
      <3> QED BY <3>2, <3>3
    <2> QED BY <2>1, <2>3 DEF Loaded
  <1>4. CASE Restart
    <2>1. UNCHANGED edits /\ pass' = [c \in Cleaners |-> NoPass]
      BY <1>4 DEF Restart
    <2> QED BY <2>1 DEF Loaded, UpToDate, NoPass
  <1>5. CASE Cancel \/ UNCHANGED vars \/ (StoreStep /\ UNCHANGED cleanVars)
    BY <1>1, <1>5 DEF Cancel, vars, cleanVars
  <1> QED BY <1>2, <1>3, <1>4, <1>5 DEF CleanNext

(* RunCleanup works with all the rules or does not work: as long as nobody *)
(* edits them, what it deletes is due under the rules in the table,        *)
(* whichever statements fail and whatever the background loops do.         *)
THEOREM RunCleanupIsNeverDegraded ==
  ASSUME Assumptions, NotAhead
  PROVE  CleanSpec => RunCleanupNeverDegrades
  <1> DEFINE A == \A i \in Live, c \in Cleaners \ Background :
                    edits = 0 /\ DeletedBy(c) /\ traces'[i] = NoTrace /\ Selectable(c, traces[i])
                      => Due(traces[i], Current, now)
  <1>1. DInv /\ Loaded /\ [CleanNext]_vars => A
    <2> SUFFICES ASSUME DInv, Loaded, [CleanNext]_vars,
                        NEW i \in Live, NEW c \in Cleaners \ Background,
                        edits = 0, DeletedBy(c), traces'[i] = NoTrace,
                        Selectable(c, traces[i])
                 PROVE  Due(traces[i], Current, now)
      OBVIOUS
    <2>1. pass[c].deleted \in Nat /\ pass'[c].deleted > pass[c].deleted
      BY DEF DInv, Types, PassType, DeletedBy
    <2>2. pass'[c] /= pass[c]
      BY <2>1
    <2>3. DueFor(c, i)
      BY <2>2, LossIsAccountedFor DEF DueFor
    <2>4. pass[c].engine = Current
      BY <2>3 DEF DueFor, Loaded, UpToDate
    <2> QED BY <2>3, <2>4 DEF DueFor
  <1> HIDE DEF A
  <1>2. CleanInit => DInv /\ Loaded
    BY InitDInv, InitLoaded
  <1>3. DInv /\ Loaded /\ [CleanNext]_vars => DInv' /\ Loaded'
    BY NextDInv, NextLoaded
  <1>4. RunCleanupNeverDegrades <=> [][A]_vars
    BY DEF A, RunCleanupNeverDegrades
  <1> QED BY <1>1, <1>2, <1>3, <1>4, PTL DEF CleanSpec
-----------------------------------------------------------------------------
(* Nothing is missed.  A rule with a TTL of no whole hour switches the     *)
(* prefilter's shortest TTL off (MinTTL() > 0 in runCleanupWithEngine):    *)
(* MCCleanupZeroTTL is a counterexample with one.  A clock behind UTC      *)
(* misses rows, too.                                                       *)
Positive(x) == x /= NoRule => x.ttl > 0

PositiveRules ==
  /\ \A h \in TTLs : h > 0
  /\ \A table \in StartRules, r \in RuleIds : Positive(table[r])

NotBehind == Zone >= 0

(* A row that was there when the pass made its selection and was due when  *)
(* it began.                                                               *)
Awaited(p, i) ==
  /\ i \in Live /\ traces[i].row <= p.upTo
  /\ Due(traces[i], p.engine, p.start)

(* It is among the candidates, and then among the IDs to delete.           *)
Selected(p) ==
  \A i \in Ids : Awaited(p, i) =>
    /\ p.stage = "scan" => [id |-> i, row |-> traces[i]] \in p.found
    /\ p.stage = "delete" => i \in p.toDelete

(* The inductive invariant behind PassIsComplete, on top of DInv.          *)
CInv ==
  /\ \A r \in RuleIds : Positive(rules[r])
  /\ \A c \in Cleaners :
       /\ \A r \in pass[c].engine : r.ttl > 0
       /\ pass[c].stage = "query" => pass[c].engine /= {}
       /\ pass[c].stage \in {"scan", "delete"} => Selected(pass[c])

(* What is due has expired ...                                             *)
LEMMA DueIsExpired ==
  ASSUME NEW engine \in SUBSET Fits, NEW row \in Row, NEW at \in Int,
         Due(row, engine, at)
  PROVE  Expired(row, engine, at)
  <1> DEFINE M == Matching(engine, row.class)
             T == {r.ttl : r \in M}
             applicable == {r \in engine : r.enabled /\ row.class \in Satisfies[r.cond]}
  <1>1. applicable = M /\ M \subseteq Fits
    BY DEF Fits, Matching
  <1>2. Due(row, engine, at) <=>
          IF applicable = {} THEN at - row.createdAt > DefaultTTL
          ELSE \E r \in applicable : at - row.createdAt > r.ttl
    BY Zenon DEF Due
  <1>3. CASE M = {}
    <2>1. EffectiveTTL(engine, row.class) = DefaultTTL
      BY <1>3, Zenon DEF EffectiveTTL
    <2>2. at - row.createdAt > DefaultTTL
      BY <1>1, <1>2, <1>3, Zenon
    <2> QED BY <2>1, <2>2 DEF Expired
  <1>4. CASE M /= {}
    <2>1. EffectiveTTL(engine, row.class) = Hours(Min(T))
      BY <1>4, Zenon DEF EffectiveTTL
    <2>2. T \subseteq HourRange /\ T /= {}
      BY <1>1, <1>4 DEF Fits
    <2>3. PICK r \in M : at - row.createdAt > r.ttl
      BY <1>1, <1>2, <1>4, Zenon
    <2>4. r.ttl \in T
      OBVIOUS
    <2> HIDE DEF T
    <2>5. Min(T) \in T /\ Min(T) <= r.ttl /\ Hours(Min(T)) = Min(T)
      BY <2>2, <2>4, MinIsLeast, HoursAreExact
    <2>6. HourRange \subseteq Int
      BY SpanAssumption DEF HourRange
    <2>7. row.createdAt \in Int
      BY StoreAssumption DEF Row
    <2>8. at - row.createdAt > Min(T)
      <3>1. Min(T) \in Int /\ r.ttl \in Int
        BY <2>2, <2>4, <2>5, <2>6
      <3> QED BY <2>3, <2>5, <2>7, <3>1
    <2> QED BY <2>1, <2>5, <2>8 DEF Expired
  <1> QED BY <1>3, <1>4

(* ... and passes the prefilter.                                           *)
LEMMA DueIsCandidate ==
  ASSUME NotBehind, NEW engine \in SUBSET Fits, engine /= {}, \A r \in engine : r.ttl > 0,
         NEW row \in Row, NEW at \in Int, Due(row, engine, at)
  PROVE  Before(row, at - PrefilterTTL(engine))
  <1> DEFINE applicable == {r \in engine : r.enabled /\ row.class \in Satisfies[r.cond]}
             T == {r.ttl : r \in engine}
  <1>1. Due(row, engine, at) <=>
          IF applicable = {} THEN at - row.createdAt > DefaultTTL
          ELSE \E r \in applicable : at - row.createdAt > r.ttl
    BY Zenon DEF Due
  <1>2. T \subseteq HourRange /\ T /= {} /\ \A h \in T : h > 0
    BY DEF Fits
  <1>3. HourRange \subseteq Int
    BY SpanAssumption DEF HourRange
  <1>4. MinTTL(engine) = Hours(Min(T))
    BY Zenon DEF MinTTL
  <1>5. \A r \in applicable : r.ttl \in T
    OBVIOUS
  <1> HIDE DEF T, applicable
  <1>6. Min(T) \in T /\ (\A h \in T : Min(T) <= h) /\ Hours(Min(T)) = Min(T)
    BY <1>2, MinIsLeast, HoursAreExact
  <1> DEFINE m == Min(T)
  <1>7. m \in Int /\ m > 0 /\ MinTTL(engine) = m /\ \A h \in T : m <= h /\ h \in Int
    BY <1>2, <1>3, <1>4, <1>6
  <1> HIDE DEF m
  <1>8. DefaultTTL \in Int /\ row.createdAt \in Int /\ Zone \in Int /\ Zone >= 0
    BY StoreAssumption, DefaultTTLAssumption, ZoneAssumption DEF Row, NotBehind
  <1>9. PrefilterTTL(engine) = IF m < DefaultTTL THEN m ELSE DefaultTTL
    BY <1>7 DEF PrefilterTTL
  <1>10. at - row.createdAt > DefaultTTL \/ at - row.createdAt > m
    <2>1. CASE applicable = {}
      BY <1>1, <2>1, Zenon
    <2>2. CASE applicable /= {}
      <3>1. PICK r \in applicable : at - row.createdAt > r.ttl
        BY <1>1, <2>2, Zenon
      <3>2. m <= r.ttl /\ r.ttl \in Int
        BY <1>5, <1>7
      <3> QED BY <1>7, <1>8, <3>1, <3>2
    <2> QED BY <2>1, <2>2
  <1>11. row.createdAt < at - PrefilterTTL(engine) + Zone
    BY <1>7, <1>8, <1>9, <1>10
  <1> QED BY <1>11 DEF Before

(* Every step is gentle with the table.                                    *)
LEMMA NextIsGentle ==
  ASSUME Assumptions, DInv, [CleanNext]_vars
  PROVE  Gentle
  <1>0. Types
    BY DEF DInv
  <1>1. CASE StoreStep /\ UNCHANGED cleanVars
    BY <1>1, StoreSteps
  <1>2. ASSUME NEW c \in Cleaners, Sweep(c) \/ \E i \in Ids : DeleteOne(c, i)
        PROVE  Gentle
    <2>1. UNCHANGED <<now, lastRow>>
      BY <1>2 DEF Sweep, DeleteOne
    <2>2. \A i \in Ids : traces'[i] \in {traces[i], NoTrace}
      BY <1>0, <1>2 DEF Sweep, DeleteOne, Types
    <2>3. now' \in 0..MaxTime /\ now <= now'
      BY <1>0, <2>1, StoreAssumption DEF Types
    <2> QED BY <1>0, <2>1, <2>2, <2>3, NoNewRow
  <1>3. ASSUME \/ \E r \in RuleIds : CreateRule(r) \/ UpdateRule(r) \/ DeleteRule(r)
               \/ Cancel \/ Restart \/ UNCHANGED vars
        PROVE  Same
    BY <1>3 DEF CreateRule, UpdateRule, DeleteRule, Edit, Cancel, Restart, Crash, vars,
       storeVars, Same
  <1>4. ASSUME NEW c \in Cleaners,
               \/ Start(c) \/ Load(c) \/ Cutoff(c) \/ Query(c) \/ Scan(c) \/ Finish(c)
               \/ FailStep(c) \/ Stop(c)
        PROVE  Same
    BY <1>4 DEF Start, Load, Cutoff, Query, Scan, Finish, FailStep, LoadFails,
       StatementFails, Stop, KeepStore, storeVars, Same
  <1> QED BY <1>0, <1>1, <1>2, <1>3, <1>4, SameIsGentle DEF CleanNext, PassStep

(* What a pass has selected stays selected while it does nothing: what is  *)
(* put into the table meanwhile is newer than the selection.               *)
LEMMA SelectedStays ==
  ASSUME Types, Gentle, NEW c \in Cleaners, PassOK(pass[c]), pass'[c] = pass[c],
         Selected(pass[c])
  PROVE  Selected(pass[c])'
  <1> DEFINE p == pass[c]
  <1>1. p \in PassType /\ p.upTo <= lastRow /\ p.upTo \in Int /\ lastRow \in Int
    BY DEF Types, PassType, PassOK, ShapeOK
  <1>2. ASSUME NEW i, Awaited(p, i)' PROVE Awaited(p, i) /\ traces'[i] = traces[i]
    <2>1. i \in Ids /\ traces'[i] /= NoTrace /\ traces'[i].row <= p.upTo
      BY <1>2 DEF Awaited, Live
    <2>2. traces'[i] = traces[i]
      <3>1. ASSUME traces'[i] \in Row, traces'[i].row > lastRow PROVE FALSE
        <4>1. traces'[i].row \in Int
          BY <3>1, StoreAssumption DEF Row
        <4> QED BY <1>1, <2>1, <3>1, <4>1
      <3> QED BY <2>1, <3>1 DEF Gentle
    <2>3. Due(traces'[i], p.engine, p.start)
      BY <1>2 DEF Awaited, Due
    <2> QED BY <2>1, <2>2, <2>3 DEF Awaited, Live
  <1> QED BY <1>2 DEF Selected
(* The engine of a pass is kept, dropped, or loaded from the table.        *)
LEMMA EngineFrom ==
  ASSUME DInv, NEW c \in Cleaners, Start(c) \/ PassStep(c) \/ FailStep(c) \/ Stop(c)
  PROVE  pass'[c].engine \in {pass[c].engine, {}, Current}
  <1>0. pass \in [Cleaners -> PassType] /\ pass[c] \in PassType
    BY DEF DInv, Types
  <1>1. CASE Start(c) \/ Finish(c) \/ StatementFails(c) \/ Stop(c)
    <2>1. NoPass.engine = {} /\ \A st : [NoPass EXCEPT !.stage = st].engine = {}
      BY DEF NoPass
    <2> QED BY <1>0, <1>1, <2>1 DEF Start, Finish, StatementFails, Stop, Step
  <1>2. CASE LoadFails(c)
    <2>1. NoPass.engine = {} /\ [pass[c] EXCEPT !.stage = "cutoff"].engine = pass[c].engine
      BY <1>0 DEF NoPass, PassType
    <2>2. \/ pass' = [pass EXCEPT ![c] = [pass[c] EXCEPT !.stage = "cutoff"]]
          \/ pass' = [pass EXCEPT ![c] = NoPass]
      BY <1>2 DEF LoadFails, Step
    <2> QED BY <1>0, <2>1, <2>2
  <1>3. CASE Load(c)
    BY <1>0, <1>3 DEF Load, Step, PassType, Current
  <1>4. CASE Cutoff(c)
    BY <1>0, <1>4 DEF Cutoff, Step, PassType
  <1>5. CASE Sweep(c)
    BY <1>0, <1>5 DEF Sweep, Step, PassType
  <1>6. CASE Query(c)
    BY <1>0, <1>6 DEF Query, Step, PassType
  <1>7. CASE Scan(c)
    BY <1>0, <1>7 DEF Scan, Step, PassType
  <1>8. CASE \E i \in Ids : DeleteOne(c, i)
    BY <1>0, <1>8 DEF DeleteOne, Step, PassType
  <1> QED BY <1>1, <1>2, <1>3, <1>4, <1>5, <1>6, <1>7, <1>8 DEF PassStep, FailStep

(* A pass selects candidates only if it has rules.                         *)
LEMMA QueryHasRules ==
  ASSUME DInv, NEW c \in Cleaners, Start(c) \/ PassStep(c) \/ FailStep(c) \/ Stop(c),
         pass'[c].stage = "query"
  PROVE  pass'[c].engine /= {}
  <1>0. pass \in [Cleaners -> PassType] /\ pass[c] \in PassType
    BY DEF DInv, Types
  <1>1. CASE Start(c) \/ Finish(c) \/ StatementFails(c) \/ Stop(c)
    <2>1. NoPass.stage = "idle" /\ \A st : [NoPass EXCEPT !.stage = st].stage = st
      BY DEF NoPass
    <2> QED BY <1>0, <1>1, <2>1 DEF Start, Finish, StatementFails, Stop, Step
  <1>2. CASE LoadFails(c)
    <2>1. NoPass.stage = "idle" /\ [pass[c] EXCEPT !.stage = "cutoff"].stage = "cutoff"
      BY <1>0 DEF NoPass, PassType
    <2>2. \/ pass' = [pass EXCEPT ![c] = [pass[c] EXCEPT !.stage = "cutoff"]]
          \/ pass' = [pass EXCEPT ![c] = NoPass]
      BY <1>2 DEF LoadFails, Step
    <2> QED BY <1>0, <2>1, <2>2
  <1>3. CASE Load(c)
    BY <1>0, <1>3 DEF Load, Step, PassType
  <1>4. CASE Cutoff(c)
    <2> DEFINE st == IF HasRules(pass[c].engine) THEN "query" ELSE "sweep"
    <2>1. pass' = [pass EXCEPT ![c] = [pass[c] EXCEPT !.start = now, !.stage = st]]
      BY <1>4, Zenon DEF Cutoff, Step
    <2>2. st = "query" => pass[c].engine /= {}
      BY DEF HasRules
    <2> HIDE DEF st
    <2>3. pass'[c].stage = st /\ pass'[c].engine = pass[c].engine
      BY <1>0, <2>1 DEF PassType
    <2> QED BY <2>2, <2>3
  <1>5. CASE Sweep(c)
    BY <1>0, <1>5 DEF Sweep, Step, PassType
  <1>6. CASE Query(c)
    BY <1>0, <1>6 DEF Query, Step, PassType
  <1>7. CASE Scan(c)
    BY <1>0, <1>7 DEF Scan, Step, PassType
  <1>8. CASE \E i \in Ids : DeleteOne(c, i)
    <2>1. PICK i \in Ids : DeleteOne(c, i)
      BY <1>8
    <2> DEFINE left == pass[c].toDelete \ {i}
               count == pass[c].deleted + (IF traces[i] = NoTrace THEN 0 ELSE 1)
    <2>2. /\ pass[c].stage = "delete"
          /\ pass' = [pass EXCEPT ![c] = [pass[c] EXCEPT !.toDelete = left, !.deleted = count]]
      BY <2>1 DEF DeleteOne, Step
    <2> HIDE DEF left, count
    <2>3. pass'[c].stage = "delete"
      BY <1>0, <2>2 DEF PassType
    <2> QED BY <2>3
  <1> QED BY <1>1, <1>2, <1>3, <1>4, <1>5, <1>6, <1>7, <1>8 DEF PassStep, FailStep

(* The four steps that end in a selection.                                 *)
LEMMA SweepSelects ==
  ASSUME NotBehind, DInv, NEW c \in Cleaners, Sweep(c)
  PROVE  Selected(pass[c])'
  <1>0. Types /\ PassOK(pass[c]) /\ pass[c] \in PassType
    BY DEF DInv, Types
  <1> DEFINE old == {i \in Live : Before(traces[i], pass[c].start - DefaultTTL)}
             new == [pass[c] EXCEPT !.stage = "delete", !.upTo = lastRow,
                                    !.deleted = Cardinality(old)]
  <1>1. /\ Step(c, "sweep", new)
        /\ traces' = [i \in Ids |-> IF i \in old THEN NoTrace ELSE traces[i]]
    BY Zenon DEF Sweep
  <1>2. pass'[c] = new /\ pass[c].stage = "sweep"
    BY <1>0, <1>1 DEF Step, Types
  <1>3. new.engine = pass[c].engine /\ new.start = pass[c].start
    BY <1>0 DEF PassType
  <1>4. pass[c].engine = {}
    BY <1>0, <1>2 DEF PassOK, ShapeOK
  <1>5. ASSUME NEW i, Awaited(pass[c], i)' PROVE FALSE
    <2>1. i \in Ids /\ traces'[i] /= NoTrace
      BY <1>5 DEF Awaited, Live
    <2>2. i \in Live /\ i \notin old /\ traces'[i] = traces[i]
      BY <1>1, <2>1 DEF Live
    <2>3. Due(traces[i], {}, pass[c].start)
      BY <1>2, <1>3, <1>4, <1>5, <2>2 DEF Awaited, Due
    <2>4. pass[c].start - traces[i].createdAt > DefaultTTL
      <3>1. {r \in {} : r.enabled /\ traces[i].class \in Satisfies[r.cond]} = {}
        OBVIOUS
      <3> QED BY <2>3, <3>1, Zenon DEF Due
    <2>5. ~(traces[i].createdAt < pass[c].start - DefaultTTL + Zone)
      BY <2>2 DEF Before
    <2>6. /\ pass[c].start \in Int /\ traces[i].createdAt \in Int /\ DefaultTTL \in Int
          /\ Zone \in Int /\ Zone >= 0
      BY <1>0, <2>2, StoreAssumption, DefaultTTLAssumption, ZoneAssumption
         DEF Types, PassType, Row, Live, NotBehind
    <2> HIDE DEF old, new
    <2> QED BY <2>4, <2>5, <2>6
  <1> QED BY <1>5 DEF Selected

LEMMA QuerySelects ==
  ASSUME NotBehind, DInv, CInv, NEW c \in Cleaners, Query(c), pass[c].engine /= {}
  PROVE  Selected(pass[c])'
  <1>0. Types /\ pass[c] \in PassType /\ \A r \in pass[c].engine : r.ttl > 0
    BY DEF DInv, Types, CInv
  <1> DEFINE cutoff == pass[c].start - PrefilterTTL(pass[c].engine)
             found == {[id |-> i, row |-> traces[i]] :
                         i \in {j \in Live : Before(traces[j], cutoff)}}
             new == [pass[c] EXCEPT !.stage = "scan", !.upTo = lastRow, !.found = found]
  <1>1. Step(c, "query", new) /\ traces' = traces
    BY Zenon DEF Query, KeepStore
  <1>2. pass'[c] = new
    BY <1>0, <1>1 DEF Step, Types
  <1>3. /\ new.engine = pass[c].engine /\ new.start = pass[c].start /\ new.found = found
        /\ new.stage = "scan"
    BY <1>0 DEF PassType
  <1>4. ASSUME NEW i, Awaited(pass[c], i)' PROVE [id |-> i, row |-> traces[i]] \in found
    <2>1. i \in Live /\ traces[i] \in Row
      BY <1>0, <1>1, <1>4 DEF Awaited, Live, Types
    <2>2. Due(traces[i], pass[c].engine, pass[c].start)
      BY <1>1, <1>2, <1>3, <1>4 DEF Awaited, Due
    <2>3. pass[c].engine \in SUBSET Fits /\ pass[c].start \in Int
      BY <1>0 DEF PassType
    <2>4. Before(traces[i], cutoff)
      BY <1>0, <2>1, <2>2, <2>3, DueIsCandidate
    <2> QED BY <2>1, <2>4
  <1> HIDE DEF found, new
  <1>5. ASSUME NEW i, Awaited(pass[c], i)'
        PROVE  [id |-> i, row |-> traces'[i]] \in pass'[c].found /\ pass'[c].stage /= "delete"
    <2>1. [id |-> i, row |-> traces[i]] \in found
      BY <1>4, <1>5
    <2> QED BY <1>1, <1>2, <1>3, <2>1
  <1> QED BY <1>5 DEF Selected

LEMMA ScanSelects ==
  ASSUME DInv, CInv, NEW c \in Cleaners, Scan(c)
  PROVE  Selected(pass[c])'
  <1>0. Types /\ PassOK(pass[c]) /\ pass[c] \in PassType
    BY DEF DInv, Types
  <1> DEFINE ids == {f.id : f \in {g \in pass[c].found : Expired(g.row, pass[c].engine, now)}}
             new == [pass[c] EXCEPT !.stage = "delete", !.found = {}, !.toDelete = ids]
  <1>1. Step(c, "scan", new) /\ traces' = traces
    BY Zenon DEF Scan, KeepStore
  <1>2. pass'[c] = new /\ pass[c].stage = "scan"
    BY <1>0, <1>1 DEF Step, Types
  <1>3. /\ new.engine = pass[c].engine /\ new.start = pass[c].start /\ new.toDelete = ids
        /\ new.stage = "delete" /\ new.upTo = pass[c].upTo
    BY <1>0 DEF PassType
  <1>4. ASSUME NEW i, Awaited(pass[c], i)' PROVE i \in ids
    <2>1. i \in Live /\ traces[i] \in Row
      BY <1>0, <1>1, <1>4 DEF Awaited, Live, Types
    <2>2. Due(traces[i], pass[c].engine, pass[c].start) /\ traces[i].row <= pass[c].upTo
      BY <1>1, <1>2, <1>3, <1>4 DEF Awaited, Due
    <2>3. [id |-> i, row |-> traces[i]] \in pass[c].found
      <3>1. Awaited(pass[c], i) /\ i \in Ids
        BY <2>1, <2>2 DEF Awaited, Live
      <3>2. Selected(pass[c])
        BY <1>2 DEF CInv
      <3> QED BY <1>2, <3>1, <3>2, Zenon DEF Selected
    <2>4. /\ pass[c].engine \in SUBSET Fits /\ pass[c].start \in Int /\ now \in Int
          /\ pass[c].start <= now
      BY <1>0, StoreAssumption DEF PassType, Types, PassOK, ShapeOK
    <2>5. Due(traces[i], pass[c].engine, now)
      BY <2>1, <2>2, <2>4, DueStays
    <2>6. Expired(traces[i], pass[c].engine, now)
      BY <2>1, <2>4, <2>5, DueIsExpired
    <2> DEFINE f == [id |-> i, row |-> traces[i]]
    <2>7. f.id = i /\ f.row = traces[i]
      OBVIOUS
    <2> HIDE DEF f
    <2>8. f \in {g \in pass[c].found : Expired(g.row, pass[c].engine, now)}
      BY <2>3, <2>6, <2>7 DEF f
    <2> QED BY <2>7, <2>8
  <1> HIDE DEF ids, new
  <1>5. ASSUME NEW i, Awaited(pass[c], i)'
        PROVE  i \in pass'[c].toDelete /\ pass'[c].stage /= "scan"
    BY <1>2, <1>3, <1>4, <1>5
  <1> QED BY <1>5 DEF Selected

LEMMA DeleteOneSelects ==
  ASSUME DInv, CInv, NEW c \in Cleaners, NEW j \in Ids, DeleteOne(c, j)
  PROVE  Selected(pass[c])'
  <1>0. Types /\ pass[c] \in PassType
    BY DEF DInv, Types
  <1> DEFINE left == pass[c].toDelete \ {j}
             count == pass[c].deleted + (IF traces[j] = NoTrace THEN 0 ELSE 1)
             new == [pass[c] EXCEPT !.toDelete = left, !.deleted = count]
  <1>1. Step(c, "delete", new) /\ traces' = [traces EXCEPT ![j] = NoTrace]
    BY DEF DeleteOne
  <1>2. pass'[c] = new /\ pass[c].stage = "delete"
    BY <1>0, <1>1 DEF Step, Types
  <1>3. /\ new.engine = pass[c].engine /\ new.start = pass[c].start /\ new.toDelete = left
        /\ new.stage = pass[c].stage /\ new.upTo = pass[c].upTo
    BY <1>0 DEF PassType
  <1>4. ASSUME NEW i, Awaited(pass[c], i)' PROVE i \in left
    <2>1. i \in Ids /\ traces'[i] /= NoTrace
      BY <1>4 DEF Awaited, Live
    <2>2. i /= j /\ i \in Live /\ traces'[i] = traces[i]
      BY <1>0, <1>1, <2>1 DEF Live, Types
    <2>3. Awaited(pass[c], i)
      BY <1>2, <1>3, <1>4, <2>2 DEF Awaited, Due
    <2>4. Selected(pass[c])
      BY <1>2 DEF CInv
    <2>5. i \in pass[c].toDelete
      BY <1>2, <2>1, <2>3, <2>4, Zenon DEF Selected
    <2> QED BY <2>2, <2>5
  <1> HIDE DEF left, new
  <1>5. ASSUME NEW i, Awaited(pass[c], i)'
        PROVE  i \in pass'[c].toDelete /\ pass'[c].stage /= "scan"
    BY <1>2, <1>3, <1>4, <1>5
  <1> QED BY <1>5 DEF Selected

LEMMA InitCInv ==
  ASSUME PositiveRules, CleanInit
  PROVE  CInv
  <1>1. \A r \in RuleIds : Positive(rules[r])
    BY DEF CleanInit, PositiveRules
  <1>2. NoPass.engine = {} /\ NoPass.stage = "idle"
    BY DEF NoPass
  <1>3. \A c \in Cleaners : pass[c] = NoPass
    BY DEF CleanInit
  <1> QED BY <1>1, <1>2, <1>3 DEF CInv

(* The rules of the table, and so those a pass loads.                      *)
LEMMA RulesStayPositive ==
  ASSUME PositiveRules, CInv, DInv, [CleanNext]_vars
  PROVE  \A r \in RuleIds : Positive(rules[r])'
  <1>1. CASE UNCHANGED rules
    BY <1>1 DEF CInv, Positive
  <1>2. ASSUME NEW r \in RuleIds, CreateRule(r) \/ UpdateRule(r) \/ DeleteRule(r)
        PROVE  \A s \in RuleIds : Positive(rules[s])'
    <2>1. \A x \in NewRules : x.ttl > 0
      BY DEF PositiveRules, NewRules
    <2>2. PICK x \in NewRules \cup {NoRule} : rules' = [rules EXCEPT ![r] = x]
      BY <1>2 DEF CreateRule, UpdateRule, DeleteRule, Edit
    <2>3. Positive(x)
      BY <2>1 DEF Positive
    <2>4. \A s \in RuleIds : rules'[s] = x \/ rules'[s] = rules[s]
      BY <2>2 DEF DInv, Types
    <2> QED BY <2>3, <2>4 DEF CInv, Positive
  <1>3. ASSUME NEW c \in Cleaners, Start(c) \/ PassStep(c) \/ FailStep(c) \/ Stop(c)
        PROVE  UNCHANGED rules
    BY <1>3 DEF Start, PassStep, FailStep, Stop, Load, Cutoff, Sweep, Query, Scan, DeleteOne,
       Finish, LoadFails, StatementFails
  <1>4. CASE Cancel \/ Restart \/ UNCHANGED vars \/ (StoreStep /\ UNCHANGED cleanVars)
    BY <1>1, <1>4 DEF Cancel, Restart, vars, cleanVars
  <1> QED BY <1>1, <1>2, <1>3, <1>4 DEF CleanNext

(* A step of pass c ends in a selection that misses nothing, or outside    *)
(* the stages that have one.                                               *)
LEMMA PassStepSelects ==
  ASSUME NotBehind, DInv, CInv, NEW c \in Cleaners,
         Start(c) \/ PassStep(c) \/ FailStep(c) \/ Stop(c),
         pass'[c].stage \in {"scan", "delete"}
  PROVE  Selected(pass[c])'
  <1>0. pass \in [Cleaners -> PassType] /\ pass[c] \in PassType /\ PassOK(pass[c])
    BY DEF DInv, Types
  <1>1. CASE Start(c) \/ Finish(c) \/ StatementFails(c) \/ Stop(c)
    <2>1. NoPass.stage = "idle" /\ \A st : [NoPass EXCEPT !.stage = st].stage = st
      BY DEF NoPass
    <2> QED BY <1>0, <1>1, <2>1 DEF Start, Finish, StatementFails, Stop, Step
  <1>2. CASE LoadFails(c)
    <2>1. NoPass.stage = "idle" /\ [pass[c] EXCEPT !.stage = "cutoff"].stage = "cutoff"
      BY <1>0 DEF NoPass, PassType
    <2>2. \/ pass' = [pass EXCEPT ![c] = [pass[c] EXCEPT !.stage = "cutoff"]]
          \/ pass' = [pass EXCEPT ![c] = NoPass]
      BY <1>2 DEF LoadFails, Step
    <2> QED BY <1>0, <2>1, <2>2
  <1>3. CASE Load(c)
    BY <1>0, <1>3 DEF Load, Step, PassType
  <1>4. CASE Cutoff(c)
    <2> DEFINE st == IF HasRules(pass[c].engine) THEN "query" ELSE "sweep"
    <2>1. pass' = [pass EXCEPT ![c] = [pass[c] EXCEPT !.start = now, !.stage = st]]
      BY <1>4, Zenon DEF Cutoff, Step
    <2>2. st \in {"query", "sweep"}
      OBVIOUS
    <2> HIDE DEF st
    <2>3. pass'[c].stage = st
      BY <1>0, <2>1 DEF PassType
    <2> QED BY <2>2, <2>3
  <1>5. CASE Sweep(c)
    BY <1>5, SweepSelects
  <1>6. CASE Query(c)
    <2>1. pass[c].stage = "query"
      BY <1>6 DEF Query, Step
    <2>2. pass[c].engine /= {}
      BY <2>1 DEF CInv
    <2> QED BY <1>6, <2>2, QuerySelects
  <1>7. CASE Scan(c)
    BY <1>7, ScanSelects
  <1>8. CASE \E j \in Ids : DeleteOne(c, j)
    BY <1>8, DeleteOneSelects
  <1> QED BY <1>1, <1>2, <1>3, <1>4, <1>5, <1>6, <1>7, <1>8 DEF PassStep, FailStep

LEMMA NextCInv ==
  ASSUME Assumptions, PositiveRules, NotBehind, DInv, CInv, [CleanNext]_vars
  PROVE  CInv'
  <1>1. \A r \in RuleIds : Positive(rules[r])'
    BY RulesStayPositive
  <1>2. Types /\ Gentle /\ \A c \in Cleaners : PassOK(pass[c])
    BY NextIsGentle DEF DInv
  <1>3. ASSUME NEW c \in Cleaners, pass'[c] = pass[c]
        PROVE  /\ \A r \in pass'[c].engine : r.ttl > 0
               /\ pass'[c].stage = "query" => pass'[c].engine /= {}
               /\ pass'[c].stage \in {"scan", "delete"} => Selected(pass[c])'
    BY <1>2, <1>3, SelectedStays DEF CInv
  <1>4. CASE UNCHANGED pass
    BY <1>1, <1>3, <1>4 DEF CInv
  <1>5. ASSUME NEW c \in Cleaners, Start(c) \/ PassStep(c) \/ FailStep(c) \/ Stop(c)
        PROVE  CInv'
    <2>1. \A d \in Cleaners \ {c} : pass'[d] = pass[d]
      BY <1>5, EngineSteps
    <2>2. \A r \in pass'[c].engine : r.ttl > 0
      <3>1. \A r \in Current : r.ttl > 0
        BY DEF Current, NewRetentionEngine, RuleSet, CInv, Positive
      <3> QED BY <1>5, <3>1, EngineFrom DEF CInv
    <2>3. pass'[c].stage = "query" => pass'[c].engine /= {}
      BY <1>5, QueryHasRules
    <2>4. pass'[c].stage \in {"scan", "delete"} => Selected(pass[c])'
      BY <1>5, PassStepSelects
    <2>5. ASSUME NEW d \in Cleaners
          PROVE  /\ \A r \in pass'[d].engine : r.ttl > 0
                 /\ pass'[d].stage = "query" => pass'[d].engine /= {}
                 /\ pass'[d].stage \in {"scan", "delete"} => Selected(pass[d])'
      BY <1>3, <2>1, <2>2, <2>3, <2>4
    <2> QED BY <1>1, <2>5 DEF CInv
  <1>6. CASE Restart
    <2>1. NoPass.engine = {} /\ NoPass.stage = "idle"
      BY DEF NoPass
    <2>2. \A c \in Cleaners : pass'[c] = NoPass
      BY <1>6 DEF Restart
    <2> QED BY <1>1, <2>1, <2>2 DEF CInv
  <1> QED BY <1>4, <1>5, <1>6 DEF CleanNext, CreateRule, UpdateRule, DeleteRule, Edit, Cancel,
         vars, cleanVars

(* A pass that ends without an error leaves no row that was there when it  *)
(* made its selection and was due when it began: neither the prefilter,    *)
(* nor the age of the selection, nor what happened to the table meanwhile  *)
(* loses one, for every table of rules whose TTLs are positive and fit a   *)
(* time.Duration, on a machine whose clock does not run behind UTC.        *)
THEOREM PassesAreComplete ==
  ASSUME Assumptions, PositiveRules, NotBehind
  PROVE  CleanSpec => []PassIsComplete
  <1>1. DInv /\ CInv => PassIsComplete
    <2> SUFFICES ASSUME DInv, CInv, NEW c \in Cleaners, Complete(c),
                        NEW i \in Live, traces[i].row <= pass[c].upTo,
                        Due(traces[i], pass[c].engine, pass[c].start)
                 PROVE  FALSE
      BY DEF PassIsComplete
    <2>1. Awaited(pass[c], i) /\ i \in Ids
      BY DEF Awaited, Live
    <2>2. Selected(pass[c]) /\ pass[c].stage = "delete" /\ pass[c].toDelete = {}
      BY DEF CInv, Complete
    <2> QED BY <2>1, <2>2 DEF Selected
  <1>2. CleanInit => DInv /\ CInv
    BY InitDInv, InitCInv
  <1>3. DInv /\ CInv /\ [CleanNext]_vars => DInv' /\ CInv'
    BY NextDInv, NextCInv
  <1> QED BY <1>1, <1>2, <1>3, PTL DEF CleanSpec

-----------------------------------------------------------------------------
(* What the store promises by itself it keeps with the cleanup beside it:  *)
(* a step of the two is one of the store, or only takes rows away.         *)
OnlyTakes ==
  /\ UNCHANGED <<lastRow, used, calls, onPromote, unset, wiredSince, exports, delivered, crashes>>
  /\ \A i \in Ids : traces'[i] \in {traces[i], NoTrace}
  /\ faults' >= faults

LEMMA CleanupOnlyTakes ==
  ASSUME Books, [CleanNext]_vars
  PROVE  [Next]_storeVars \/ OnlyTakes
  <1>0. traces \in [Ids -> Row \cup {NoTrace}] /\ faults \in Nat
    BY StoreAssumption DEF Books, CleanTypeOK, TypeOK
  <1>1. ASSUME NEW c \in Cleaners, Sweep(c) \/ \E i \in Ids : DeleteOne(c, i)
        PROVE  OnlyTakes
    <2>1. UNCHANGED <<lastRow, used, calls, onPromote, unset, wiredSince, exports, delivered,
                      crashes, faults>>
      BY <1>1 DEF Sweep, DeleteOne
    <2>2. \A i \in Ids : traces'[i] \in {traces[i], NoTrace}
      BY <1>0, <1>1 DEF Sweep, DeleteOne
    <2>3. faults' >= faults
      BY <1>0, <2>1
    <2> QED BY <2>1, <2>2, <2>3 DEF OnlyTakes
  <1>2. ASSUME NEW c \in Cleaners, FailStep(c) \/ Query(c) \/ Scan(c)
        PROVE  OnlyTakes
    <2>1. UNCHANGED <<lastRow, used, calls, onPromote, unset, wiredSince, exports, delivered,
                      crashes, traces>>
      BY <1>2 DEF FailStep, LoadFails, StatementFails, Query, Scan, KeepStore
    <2>2. faults' = faults \/ faults' = faults + 1
      BY <1>2 DEF FailStep, LoadFails, StatementFails, Fails, Query, Scan
    <2>3. faults' >= faults
      BY <1>0, <2>2
    <2> QED BY <2>1, <2>3 DEF OnlyTakes
  <1>3. ASSUME NEW c \in Cleaners, Start(c) \/ Load(c) \/ Cutoff(c) \/ Finish(c) \/ Stop(c)
        PROVE  UNCHANGED storeVars
    BY <1>3 DEF Start, Load, Cutoff, Finish, Stop
  <1>4. ASSUME \/ \E r \in RuleIds : CreateRule(r) \/ UpdateRule(r) \/ DeleteRule(r)
               \/ Cancel \/ UNCHANGED vars
        PROVE  UNCHANGED storeVars
    BY <1>4 DEF CreateRule, UpdateRule, DeleteRule, Edit, Cancel, vars
  <1>5. StoreStep \/ Restart => Next
    BY DEF Next, Restart
  <1> QED BY <1>1, <1>2, <1>3, <1>4, <1>5 DEF CleanNext, PassStep

LEMMA NextXInvClean ==
  ASSUME ~Repromote, IsFiniteSet(Ids), IsFiniteSet(Cleaners), Books, XInv, [CleanNext]_vars
  PROVE  XInv'
  <1>1. CASE [Next]_storeVars
    BY <1>1, NextXInv
  <1>2. CASE OnlyTakes
    <2>1. TInv'
      BY NextBooks DEF Books, CleanTypeOK, TInv
    <2>2. \A c \in Callers : Active(c)' => Active(c) /\ calls'[c].row = calls[c].row
                                                     /\ calls'[c].id = calls[c].id
      BY <1>2 DEF OnlyTakes, Active
    <2> QED BY <1>2, <2>1, <2>2, FewerHolders DEF OnlyTakes
  <1> QED BY <1>1, <1>2, CleanupOnlyTakes

(* So with passes running beside it, no trace is exported twice or for     *)
(* another promotion.                                                      *)
THEOREM ExportsAreUniqueWithCleanup ==
  ASSUME ~Repromote, IsFiniteSet(Ids), IsFiniteSet(Cleaners)
  PROVE  CleanSpec => []ExportedOnce
  <1>1. CleanInit => Books /\ XInv
    BY InitBooks, InitXInv DEF CleanInit
  <1>2. Books /\ XInv /\ [CleanNext]_vars => Books' /\ XInv'
    BY NextBooks, NextXInvClean
  <1> QED BY <1>1, <1>2, XInvShows, PTL DEF CleanSpec

LEMMA NextEInvClean ==
  ASSUME ~Repromote, IsFiniteSet(Ids), IsFiniteSet(Cleaners), Books, EInv, [CleanNext]_vars
  PROVE  EInv'
  <1>1. CASE [Next]_storeVars
    BY <1>1, NextEInv
  <1>2. CASE OnlyTakes
    <2>1. XInv'
      BY NextXInvClean DEF EInv
    <2>2. /\ onPromote' = NoCallback => \A e \in Exporters : wiredSince'[e] = MaxRows
          /\ \A i \in Live, e \in Exporters :
               traces[i].row > wiredSince'[e] => traces[i].row > wiredSince[e]
      BY <1>2 DEF OnlyTakes, EInv, NoneOwed
    <2> QED BY <1>2, <2>1, <2>2, SameHolders DEF OnlyTakes
  <1> QED BY <1>1, <1>2, CleanupOnlyTakes

(* Nor does a pass lose the export of a trace that stays stored: once      *)
(* everything has finished, it has been sent, but for at most one trace    *)
(* per failure; the failures of the passes themselves count as well.       *)
THEOREM NothingIsLostWithCleanup ==
  ASSUME ~Repromote, IsFiniteSet(Ids), IsFiniteSet(Cleaners)
  PROVE  CleanSpec => []EveryTraceIsSent
  <1>1. CleanInit => Books /\ EInv
    BY InitBooks, InitEInv DEF CleanInit
  <1>2. Books /\ EInv /\ [CleanNext]_vars => Books' /\ EInv'
    BY NextBooks, NextEInvClean
  <1> QED BY <1>1, <1>2, EInvShows, PTL DEF CleanSpec
==============================================================================
