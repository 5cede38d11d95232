------------------------- MODULE SharedRouterProofs -------------------------
(***************************************************************************)
(* Proofs about SharedRouter for any connections, addresses, route table   *)
(* and cache size, and any number of connections served at a time.         *)
(***************************************************************************)
EXTENDS SharedRouter, SequenceTheorems, WellFoundedInduction, TLAPS

(***************************************************************************)
(* Why no report crosses addresses, though instances, their caches and     *)
(* their profiles are shared by every thread and cleared under them: what  *)
(* a profile holds, and what a thread copies out of one, came from the     *)
(* address that the profile was created for, evicted or not.               *)
(***************************************************************************)
Shapes ==
  /\ pc = [c \in Conns |-> pc[c]]
  /\ profile = [c \in Conns |-> profile[c]]
  /\ history \in [Profiles -> SUBSET Conns]
  /\ dialogue \in [Profiles -> SUBSET Conns]
  /\ report \in [Conns -> [Domains -> ReportData]]
  /\ instances \in [Routes -> Conns \cup {None}]
  /\ snapshot \in [Conns -> SUBSET Instances]

HeldIsOwn ==
  \A c \in Conns : pc[c] = "record" => IpOf[profile[c]] = IpOf[c]

ProfilesAreOwn ==
  \A p \in Profiles : \A d \in history[p] \cup dialogue[p] : IpOf[d] = IpOf[p[2]]

ReportIsOwn ==
  \A c \in Conns, d \in Domains :
    \A x \in report[c][d].requests \cup report[c][d].interactions : IpOf[x] = IpOf[c]

AddressInv ==
  Shapes /\ HeldIsOwn /\ ProfilesAreOwn /\ ReportIsOwn

\* No profile exists yet, and nothing is reported.
LEMMA InitAddress ==
  ASSUME RouterAssumption, Init
  PROVE  AddressInv
BY DEF RouterAssumption, Init, AddressInv, Shapes, HeldIsOwn, ProfilesAreOwn,
       ReportIsOwn, ReportData, Nothing, NoData

(***************************************************************************)
(* The steps that touch no profile and no report.                          *)
(***************************************************************************)
LEMMA OthersKeepAddress ==
  ASSUME RouterAssumption, AddressInv, NEW c \in Conns,
         \/ \E p \in Paths : Accept(c, p)
         \/ AcceptProbe(c) \/ Match(c) \/ FallBack(c) \/ Raise(c)
         \/ Snapshot(c) \/ Send(c)
  PROVE  AddressInv'
<1> USE DEF RouterAssumption, AddressInv, Shapes, HeldIsOwn, ProfilesAreOwn,
        ReportIsOwn, Goes
<1>1. CASE \E p \in Paths : Accept(c, p)
  <2>1. /\ Goes(c, "idle", "match")
        /\ UNCHANGED <<instances, profile, history, dialogue, snapshot, report>>
    BY <1>1 DEF Accept
  <2> QED BY <2>1
<1>2. CASE AcceptProbe(c)
  BY <1>2 DEF AcceptProbe
<1>3. CASE Match(c)
  BY <1>3 DEF Match
<1>4. CASE FallBack(c)
  BY <1>4 DEF FallBack
<1>5. CASE Raise(c)
  BY <1>5 DEF Raise, Dropped
<1>6. CASE Snapshot(c)
  <2> DEFINE now == {<<r, instances[r]>> : r \in Kept}
  <2>1. now \subseteq Instances
    BY DEF Instances, Kept
  <2>2. /\ snapshot' = [snapshot EXCEPT ![c] = now]
        /\ Goes(c, "enrich", "collect")
        /\ UNCHANGED <<instances, profile, history, dialogue, report>>
    BY <1>6 DEF Snapshot
  <2> HIDE DEF now
  <2> QED BY <2>1, <2>2
<1>7. CASE Send(c)
  BY <1>7 DEF Send
<1> QED BY <1>1, <1>2, <1>3, <1>4, <1>5, <1>6, <1>7

(***************************************************************************)
(* The handler finds or creates the profile of its address: the one found  *)
(* is of that address because Mine compares addresses.                     *)
(***************************************************************************)
LEMMA LookUpKeepsAddress ==
  ASSUME RouterAssumption, AddressInv, NEW c \in Conns, LookUp(c)
  PROVE  AddressInv'
<1> DEFINE x == CHOOSE y \in Mine(handler[c], c) : TRUE
<1>1. /\ UNCHANGED <<history, dialogue, report, instances, snapshot>>
      /\ Goes(c, "lookup", "record")
  BY DEF LookUp
<1>2. \/ profile' = [profile EXCEPT ![c] = c]
      \/ Mine(handler[c], c) # {} /\ profile' = [profile EXCEPT ![c] = x]
  BY DEF LookUp
<1>3. CASE profile' = [profile EXCEPT ![c] = c]
  BY <1>1, <1>3
     DEF RouterAssumption, AddressInv, Shapes, HeldIsOwn, ProfilesAreOwn,
         ReportIsOwn, Goes
<1>4. CASE Mine(handler[c], c) # {} /\ profile' = [profile EXCEPT ![c] = x]
  <2>1. x \in Mine(handler[c], c)
    BY <1>4
  <2>2. IpOf[x] = IpOf[c]
    BY <2>1 DEF Mine
  <2> QED
    BY <1>1, <1>4, <2>1, <2>2
       DEF RouterAssumption, AddressInv, Shapes, HeldIsOwn, ProfilesAreOwn,
           ReportIsOwn, Goes
<1> QED BY <1>2, <1>3, <1>4

(***************************************************************************)
(* The request is recorded in the profile held, which may have been        *)
(* evicted or its instance cleared meanwhile.                              *)
(***************************************************************************)
LEMMA RecordRequestKeepsAddress ==
  ASSUME RouterAssumption, AddressInv, NEW c \in Conns, RecordRequest(c)
  PROVE  AddressInv'
<1> DEFINE held == <<handler[c], profile[c]>>
<1>1. /\ UNCHANGED <<profile, dialogue, report, instances, snapshot>>
      /\ Goes(c, "record", "dialogue")
      /\ history' = [history EXCEPT ![held] = @ \cup {c}]
  BY DEF RecordRequest
<1>2. IpOf[held[2]] = IpOf[c]
  BY <1>1 DEF AddressInv, HeldIsOwn, Goes
<1>3. Shapes' /\ HeldIsOwn' /\ ReportIsOwn'
  BY <1>1 DEF AddressInv, Shapes, HeldIsOwn, ReportIsOwn, Goes
<1>4. ProfilesAreOwn'
  <2> SUFFICES ASSUME NEW p \in Profiles, NEW d \in history'[p] \cup dialogue'[p]
               PROVE  IpOf[d] = IpOf[p[2]]
    BY DEF ProfilesAreOwn
  <2>1. d \in history[p] \cup dialogue[p] \/ (p = held /\ d = c)
    BY <1>1 DEF AddressInv, Shapes
  <2> QED BY <1>2, <2>1 DEF AddressInv, ProfilesAreOwn
<1> QED BY <1>3, <1>4 DEF AddressInv

(***************************************************************************)
(* The interaction is recorded in the profiles that an instance has for    *)
(* the address.                                                            *)
(***************************************************************************)
LEMMA RecordInteractionKeepsAddress ==
  ASSUME RouterAssumption, AddressInv, NEW c \in Conns, RecordInteraction(c)
  PROVE  AddressInv'
<1>1. /\ UNCHANGED <<history, report, instances, snapshot>>
      /\ Goes(c, "dialogue", "enrich")
      /\ profile' = [profile EXCEPT ![c] = None]
      /\ dialogue' = [p \in Profiles |->
                        IF p[1] = handler[c] /\ p[2] \in Mine(handler[c], c)
                        THEN dialogue[p] \cup {c} ELSE dialogue[p]]
  BY DEF RecordInteraction, Dropped
<1>2. Shapes' /\ HeldIsOwn' /\ ReportIsOwn'
  BY <1>1 DEF AddressInv, Shapes, HeldIsOwn, ReportIsOwn, Goes
<1>3. ProfilesAreOwn'
  <2> SUFFICES ASSUME NEW p \in Profiles, NEW d \in history'[p] \cup dialogue'[p]
               PROVE  IpOf[d] = IpOf[p[2]]
    BY DEF ProfilesAreOwn
  <2>1. \/ d \in history[p] \cup dialogue[p]
        \/ p[2] \in Mine(handler[c], c) /\ d = c
    BY <1>1
  <2>2. ASSUME p[2] \in Mine(handler[c], c)
        PROVE  IpOf[p[2]] = IpOf[c]
    BY <2>2 DEF Mine
  <2> QED BY <2>1, <2>2 DEF AddressInv, ProfilesAreOwn
<1> QED BY <1>2, <1>3 DEF AddressInv

(***************************************************************************)
(* What the entry of one domain of one report changes.                     *)
(***************************************************************************)
LEMMA EntryChanges ==
  ASSUME report \in [Conns -> [Domains -> ReportData]],
         NEW c \in Conns, NEW d, NEW data \in ReportData,
         report' = [report EXCEPT ![c][d] = data]
  PROVE  /\ report' \in [Conns -> [Domains -> ReportData]]
         /\ \A e \in Conns : e # c => report'[e] = report[e]
         /\ \A f \in Domains : report'[c][f] = IF f = d THEN data ELSE report[c][f]
<1> DEFINE row == [report[c] EXCEPT ![d] = data]
<1>1. row \in [Domains -> ReportData]
  OBVIOUS
<1>2. \A f \in Domains : row[f] = IF f = d THEN data ELSE report[c][f]
  OBVIOUS
<1>3. report' = [report EXCEPT ![c] = row]
  OBVIOUS
<1> HIDE DEF row
<1> QED BY <1>1, <1>2, <1>3

(***************************************************************************)
(* A report takes over what the profiles of its own address hold.          *)
(***************************************************************************)
LEMMA CollectKeepsAddress ==
  ASSUME RouterAssumption, AddressInv, NEW c \in Conns, Collect(c)
  PROVE  AddressInv'
<1>1. PICK i \in snapshot[c] :
        LET found == {<<i, x>> : x \in Mine(i, c)}
        IN  /\ Goes(c, "collect", "collect")
            /\ snapshot' = [snapshot EXCEPT ![c] = @ \ {i}]
            /\ UNCHANGED <<profile, history, dialogue, instances>>
            /\ report' = IF found = {} THEN report ELSE
                 [report EXCEPT ![c][DomainOf[i[1]]] =
                    [requests |-> UNION {history[p] : p \in found},
                     interactions |-> UNION {dialogue[p] : p \in found}]]
  BY DEF Collect
<1> DEFINE found == {<<i, x>> : x \in Mine(i, c)}
           asked == UNION {history[p] : p \in found}
           said == UNION {dialogue[p] : p \in found}
           d == DomainOf[i[1]]
<1>2. \A p \in found : p \in Profiles /\ IpOf[p[2]] = IpOf[c]
  BY DEF Mine, AddressInv, Shapes, Profiles
<1>3. /\ asked \subseteq Conns /\ said \subseteq Conns
      /\ \A x \in asked \cup said : IpOf[x] = IpOf[c]
  BY <1>2 DEF AddressInv, Shapes, ProfilesAreOwn
<1>4. \/ report' = report
      \/ report' = [report EXCEPT ![c][d] = [requests |-> asked, interactions |-> said]]
  BY <1>1
<1> HIDE DEF asked, said, d
<1>a. [requests |-> asked, interactions |-> said] \in ReportData
  BY <1>3 DEF ReportData
<1>5. /\ report' \in [Conns -> [Domains -> ReportData]]
      /\ \A e \in Conns, f \in Domains :
           \/ report'[e][f] = report[e][f]
           \/ e = c /\ report'[e][f] = [requests |-> asked, interactions |-> said]
  BY <1>a, <1>4, EntryChanges DEF AddressInv, Shapes
<1>6. ReportIsOwn'
  BY <1>3, <1>5 DEF AddressInv, ReportIsOwn
<1>7. Shapes' /\ HeldIsOwn' /\ ProfilesAreOwn'
  BY <1>1, <1>5 DEF AddressInv, Shapes, HeldIsOwn, ProfilesAreOwn, Goes
<1> QED BY <1>6, <1>7 DEF AddressInv

(***************************************************************************)
(* The end of a connection empties what no thread refers to.               *)
(***************************************************************************)
LEMMA CloseKeepsAddress ==
  ASSUME RouterAssumption, AddressInv, NEW c \in Conns, Close(c)
  PROVE  AddressInv'
<1>1. /\ history' \in [Profiles -> SUBSET Conns]
      /\ dialogue' \in [Profiles -> SUBSET Conns]
      /\ \A p \in Profiles : /\ history'[p] \subseteq history[p]
                             /\ dialogue'[p] \subseteq dialogue[p]
  BY DEF Close, AddressInv, Shapes
<1>2. Shapes' /\ HeldIsOwn' /\ ReportIsOwn'
  BY <1>1 DEF Close, Cleared, Goes, AddressInv, Shapes, HeldIsOwn,
              ReportIsOwn, ReportData, Nothing, NoData
<1>3. ProfilesAreOwn'
  BY <1>1 DEF AddressInv, ProfilesAreOwn
<1> QED BY <1>2, <1>3 DEF AddressInv

(***************************************************************************)
(* However connections share and clear the handlers, no report has what    *)
(* another address sent.                                                   *)
(***************************************************************************)
THEOREM NoForeignActivityHolds ==
  ASSUME RouterAssumption
  PROVE  Spec => []NoForeignActivity
<1>1. Init => AddressInv
  BY InitAddress
<1>2. AddressInv /\ [Next]_vars => AddressInv'
  <2> SUFFICES ASSUME AddressInv, [Next]_vars
               PROVE  AddressInv'
    OBVIOUS
  <2>1. CASE UNCHANGED vars
    BY <2>1 DEF vars, AddressInv, Shapes, HeldIsOwn, ProfilesAreOwn, ReportIsOwn
  <2>2. CASE Next
    BY <2>1, <2>2, OthersKeepAddress, LookUpKeepsAddress,
       RecordRequestKeepsAddress, RecordInteractionKeepsAddress,
       CollectKeepsAddress, CloseKeepsAddress DEF Next, Gone
  <2> QED BY <2>1, <2>2
<1>3. AddressInv => NoForeignActivity
  BY DEF AddressInv, ReportIsOwn, NoForeignActivity, Requests, Interactions
<1> QED BY <1>1, <1>2, <1>3, PTL DEF Spec

-----------------------------------------------------------------------------
(***************************************************************************)
(* The first of some routes is one of them.                                *)
(***************************************************************************)
LEMMA LeastIn ==
  ASSUME NEW S, S \subseteq Nat, S # {}
  PROVE  Min(S) \in S /\ \A y \in S : Min(S) <= y
<1>1. PICK x \in S : \A y \in S : ~ (<<y, x>> \in OpToRel(<, Nat))
  BY NatLessThanWellFounded, WFMin, Zenon
<1>2. \A y \in S : ~ (y < x)
  BY <1>1 DEF OpToRel
<1>3. \A y \in S : x <= y
  BY <1>2
<1> QED BY <1>3 DEF Min

(***************************************************************************)
(* What removing one element leaves of a sequence, and moving it to the    *)
(* end.                                                                    *)
(***************************************************************************)
LEMMA Removed ==
  ASSUME NEW S, NEW s \in Seq(S), NEW h \in 1 .. Len(s)
  PROVE  /\ RemoveAt(s, h) \in Seq(S)
         /\ Len(RemoveAt(s, h)) = Len(s) - 1
         /\ \A n \in 1 .. Len(s) - 1 : RemoveAt(s, h)[n] = s[IF n < h THEN n ELSE n + 1]
<1> DEFINE before == SubSeq(s, 1, h - 1)
           after == SubSeq(s, h + 1, Len(s))
<1>1. /\ before \in Seq(S)
      /\ Len(before) = h - 1
      /\ \A n \in 1 .. h - 1 : before[n] = s[n]
  BY SubSeqProperties, ElementOfSeq
<1>2. /\ after \in Seq(S)
      /\ Len(after) = Len(s) - h
      /\ \A n \in 1 .. Len(s) - h : after[n] = s[h + n]
  BY SubSeqProperties, ElementOfSeq
<1> HIDE DEF before, after
<1> DEFINE both == before \o after
<1>7. before \in Seq(S) /\ after \in Seq(S)
  BY <1>1, <1>2
<1>8. /\ both \in Seq(S)
      /\ Len(both) = Len(before) + Len(after)
      /\ \A n \in 1 .. Len(before) + Len(after) :
           both[n] = IF n <= Len(before) THEN before[n] ELSE after[n - Len(before)]
  BY <1>7, ConcatProperties, Zenon
<1>3. /\ both \in Seq(S)
      /\ Len(both) = (h - 1) + (Len(s) - h)
      /\ \A n \in 1 .. (h - 1) + (Len(s) - h) :
           both[n] = IF n <= h - 1 THEN before[n] ELSE after[n - (h - 1)]
  <2> HIDE DEF both
  <2> QED BY <1>1, <1>2, <1>8
<1>4. RemoveAt(s, h) = both
  BY DEF RemoveAt, before, after
<1> HIDE DEF both
<1>5. Len(s) \in Nat
  BY LenProperties
<1>6. \A n \in 1 .. Len(s) - 1 : both[n] = s[IF n < h THEN n ELSE n + 1]
  <2> SUFFICES ASSUME NEW n \in 1 .. Len(s) - 1
               PROVE  both[n] = s[IF n < h THEN n ELSE n + 1]
    OBVIOUS
  <2>1. CASE n < h
    <3>1. both[n] = before[n] /\ before[n] = s[n]
      BY <1>1, <1>3, <1>5, <2>1
    <3> QED BY <3>1, <2>1
  <2>2. CASE ~(n < h)
    <3>1. /\ both[n] = after[n - (h - 1)] /\ n - (h - 1) \in 1 .. Len(s) - h
          /\ h + (n - (h - 1)) = n + 1
      BY <1>3, <1>5, <2>2
    <3> QED BY <1>2, <3>1, <2>2
  <2> QED BY <2>1, <2>2
<1> QED BY <1>3, <1>4, <1>5, <1>6

(***************************************************************************)
(* move_to_end permutes a sequence.                                        *)
(***************************************************************************)
LEMMA MovedToEnd ==
  ASSUME NEW S, NEW s \in Seq(S), NEW h \in 1 .. Len(s), NEW t,
         t = Append(RemoveAt(s, h), s[h])
  PROVE  /\ t \in Seq(S)
         /\ Len(t) = Len(s)
         /\ \A n \in 1 .. h - 1 : t[n] = s[n]
         /\ \A n \in h .. Len(s) - 1 : t[n] = s[n + 1]
         /\ t[Len(s)] = s[h]
<1>1. s[h] \in S
  BY ElementOfSeq
<1> DEFINE rest == RemoveAt(s, h)
<1>2. /\ rest \in Seq(S)
      /\ Len(rest) = Len(s) - 1
      /\ \A n \in 1 .. Len(s) - 1 : rest[n] = s[IF n < h THEN n ELSE n + 1]
  BY Removed
<1>3. t = Append(rest, s[h])
  OBVIOUS
<1>4. Len(s) \in Nat
  BY LenProperties
<1> HIDE DEF rest
<1>5. /\ t \in Seq(S)
      /\ Len(t) = Len(rest) + 1
      /\ \A n \in 1 .. Len(rest) : t[n] = rest[n]
      /\ t[Len(rest) + 1] = s[h]
  BY <1>1, <1>2, <1>3, AppendProperties
<1>6. /\ \A n \in 1 .. h - 1 : t[n] = s[n]
      /\ \A n \in h .. Len(s) - 1 : t[n] = s[n + 1]
      /\ t[Len(s)] = s[h]
  <2>1. PICK k : k = Len(s)
    OBVIOUS
  <2>2. k \in Nat /\ h \in 1 .. k /\ Len(rest) = k - 1
    BY <1>2, <1>4, <2>1
  <2>3. \A n \in 1 .. h - 1 : n \in 1 .. k - 1 /\ n < h
    BY <2>2
  <2>4. \A n \in h .. k - 1 : n \in 1 .. k - 1 /\ ~(n < h)
    BY <2>2
  <2>5. \A n \in 1 .. k - 1 : t[n] = rest[n] /\ rest[n] = s[IF n < h THEN n ELSE n + 1]
    BY <1>2, <1>5, <2>1, <2>2
  <2>6. (k - 1) + 1 = k
    BY <2>2
  <2> QED BY <1>5, <2>1, <2>2, <2>3, <2>4, <2>5, <2>6
<1> QED BY <1>2, <1>4, <1>5, <1>6

(***************************************************************************)
(* The cache of an instance: what a lookup, which moves the profile of an  *)
(* address to the end, and a new profile, which joins after the oldest     *)
(* made room, make of it.                                                  *)
(***************************************************************************)
OnePerAddress(s) == \A m, n \in 1 .. Len(s) : IpOf[s[m]] = IpOf[s[n]] => m = n
Bounded(s) == Len(s) <= MaxProfiles
Sound(s) == s \in Seq(Conns) /\ Bounded(s) /\ OnePerAddress(s)

\* A lookup moves at most one profile to the end: nobody joins or leaves.
LEMMA TouchedIsSound ==
  ASSUME RouterAssumption, NEW i, NEW c, Sound(cache[i])
  PROVE  Sound(Touched(i, c)) /\ Range(Touched(i, c)) = Range(cache[i])
<1>1. PICK held : held = cache[i]
  OBVIOUS
<1> DEFINE hits == {n \in DOMAIN held : IpOf[held[n]] = IpOf[c]}
<1>2. PICK hit : hit = CHOOSE n \in hits : TRUE
  OBVIOUS
<1>3. CASE hits = {}
  <2>1. Touched(i, c) = cache[i]
    BY <1>1, <1>3 DEF Touched
  <2> QED BY <2>1
<1>4. CASE hits # {}
  <2>1. PICK moved : moved = Append(RemoveAt(held, hit), held[hit])
    OBVIOUS
  <2>2. Touched(i, c) = moved
    BY <1>1, <1>2, <1>4, <2>1 DEF Touched
  <2>3. held \in Seq(Conns) /\ Len(held) \in Nat /\ DOMAIN held = 1 .. Len(held)
    BY <1>1, LenProperties DEF Sound
  <2>4. hit \in 1 .. Len(held)
    BY <1>2, <1>4, <2>3
  <2> HIDE DEF hits
  <2>5. /\ moved \in Seq(Conns)
        /\ Len(moved) = Len(held)
        /\ \A n \in 1 .. hit - 1 : moved[n] = held[n]
        /\ \A n \in hit .. Len(held) - 1 : moved[n] = held[n + 1]
        /\ moved[Len(held)] = held[hit]
    <3>1. held \in Seq(Conns)
      BY <2>3
    <3>2. \A t : t = Append(RemoveAt(held, hit), held[hit]) =>
            /\ t \in Seq(Conns)
            /\ Len(t) = Len(held)
            /\ \A n \in 1 .. hit - 1 : t[n] = held[n]
            /\ \A n \in hit .. Len(held) - 1 : t[n] = held[n + 1]
            /\ t[Len(held)] = held[hit]
      BY <2>4, <3>1, MovedToEnd, Zenon
    <3> QED BY <2>1, <3>2, Zenon
  <2>6. /\ Len(held) \in Nat /\ hit \in 1 .. Len(held)
        /\ \A n \in 1 .. Len(held) :
             n \in 1 .. hit - 1 \/ n \in hit .. Len(held) - 1 \/ n = Len(held)
    <3>1. \A k \in Nat : \A h \in 1 .. k : \A n \in 1 .. k :
            n \in 1 .. h - 1 \/ n \in h .. k - 1 \/ n = k
      OBVIOUS
    <3>2. PICK k : k = Len(held)
      OBVIOUS
    <3>3. k \in Nat /\ hit \in 1 .. k
      BY <2>3, <2>4, <3>2
    <3>4. \A n \in 1 .. k : n \in 1 .. hit - 1 \/ n \in hit .. k - 1 \/ n = k
      BY <3>1, <3>3
    <3> QED BY <3>2, <3>3, <3>4
  <2>7. OnePerAddress(moved)
    <3>1. OnePerAddress(held)
      BY <1>1 DEF Sound
    <3> SUFFICES ASSUME NEW m \in 1 .. Len(held), NEW n \in 1 .. Len(held), m < n,
                        IpOf[moved[m]] = IpOf[moved[n]]
                 PROVE  FALSE
      BY <2>5, <2>6 DEF OnePerAddress
    <3>2. CASE n \in 1 .. hit - 1
      <4>1. moved[m] = held[m] /\ moved[n] = held[n]
        BY <2>5, <2>6, <3>2
      <4> QED BY <3>1, <4>1 DEF OnePerAddress
    <3>3. CASE m \in 1 .. hit - 1 /\ n \in hit .. Len(held) - 1
      <4>1. /\ moved[m] = held[m] /\ moved[n] = held[n + 1]
            /\ n + 1 \in 1 .. Len(held) /\ m # n + 1
        BY <2>5, <2>6, <3>3
      <4> QED BY <3>1, <4>1 DEF OnePerAddress
    <3>4. CASE m \in 1 .. hit - 1 /\ n = Len(held)
      <4>1. moved[m] = held[m] /\ moved[n] = held[hit] /\ m # hit
        BY <2>5, <2>6, <3>4
      <4> QED BY <2>4, <3>1, <4>1 DEF OnePerAddress
    <3>5. CASE m \in hit .. Len(held) - 1 /\ n \in hit .. Len(held) - 1
      <4>1. /\ moved[m] = held[m + 1] /\ moved[n] = held[n + 1]
            /\ m + 1 \in 1 .. Len(held) /\ n + 1 \in 1 .. Len(held) /\ m + 1 # n + 1
        BY <2>5, <2>6, <3>5
      <4> QED BY <3>1, <4>1 DEF OnePerAddress
    <3>6. CASE m \in hit .. Len(held) - 1 /\ n = Len(held)
      <4>1. /\ moved[m] = held[m + 1] /\ moved[n] = held[hit]
            /\ m + 1 \in 1 .. Len(held) /\ m + 1 # hit
        BY <2>5, <2>6, <3>6
      <4> QED BY <2>4, <3>1, <4>1 DEF OnePerAddress
    <3> QED BY <2>6, <3>2, <3>3, <3>4, <3>5, <3>6
  <2>8. Range(moved) = Range(held)
    <3>1. DOMAIN moved = 1 .. Len(held)
      BY <2>5, LenProperties
    <3>2. \A n \in 1 .. Len(held) : \E m \in 1 .. Len(held) : moved[n] = held[m]
      <4> SUFFICES ASSUME NEW n \in 1 .. Len(held)
                   PROVE  \E m \in 1 .. Len(held) : moved[n] = held[m]
        OBVIOUS
      <4>1. n \in 1 .. hit - 1 \/ n \in hit .. Len(held) - 1 \/ n = Len(held)
        BY <2>6
      <4>2. n \in hit .. Len(held) - 1 => n + 1 \in 1 .. Len(held)
        BY <2>6
      <4>3. CASE n \in 1 .. hit - 1
        BY <2>5, <4>3
      <4>4. CASE n \in hit .. Len(held) - 1
        BY <2>5, <4>2, <4>4
      <4>5. CASE n = Len(held)
        BY <2>5, <2>6, <4>5
      <4> QED BY <4>1, <4>3, <4>4, <4>5
    <3>3. \A m \in 1 .. Len(held) : \E n \in 1 .. Len(held) : held[m] = moved[n]
      <4> SUFFICES ASSUME NEW m \in 1 .. Len(held)
                   PROVE  \E n \in 1 .. Len(held) : held[m] = moved[n]
        OBVIOUS
      <4>1. m \in 1 .. hit - 1 \/ m - 1 \in hit .. Len(held) - 1 \/ m = hit
        BY <2>6
      <4>2. m - 1 \in hit .. Len(held) - 1 =>
              m - 1 \in 1 .. Len(held) /\ moved[m - 1] = held[m]
        BY <2>5, <2>6
      <4>3. Len(held) \in 1 .. Len(held)
        BY <2>6
      <4>4. CASE m \in 1 .. hit - 1
        BY <2>5, <4>4
      <4>5. CASE m - 1 \in hit .. Len(held) - 1
        BY <4>2, <4>5
      <4>6. CASE m = hit
        BY <2>5, <4>3, <4>6
      <4> QED BY <4>1, <4>4, <4>5, <4>6
    <3>4. /\ Range(moved) = {moved[n] : n \in 1 .. Len(held)}
          /\ Range(held) = {held[n] : n \in 1 .. Len(held)}
      BY <2>3, <3>1 DEF Range
    <3> QED BY <3>2, <3>3, <3>4
  <2>9. Bounded(moved)
    BY <1>1, <2>5 DEF Bounded, Sound
  <2> QED BY <1>1, <2>2, <2>5, <2>7, <2>8, <2>9 DEF Sound
<1> QED BY <1>3, <1>4

\* A new profile of an unknown address joins after the oldest made room.
LEMMA JoinedIsSound ==
  ASSUME RouterAssumption, NEW i, NEW c \in Conns, Sound(cache[i]), Mine(i, c) = {}
  PROVE  Sound(Append(Evicted(cache[i]), c))
<1>a. PICK held, kept, joined :
        held = cache[i] /\ kept = Evicted(held) /\ joined = Append(kept, c)
  OBVIOUS
<1>1. held \in Seq(Conns) /\ Len(held) \in Nat /\ DOMAIN held = 1 .. Len(held)
  BY <1>a, LenProperties DEF Sound
<1>2. \A n \in 1 .. Len(held) : held[n] \in Conns /\ IpOf[held[n]] # IpOf[c]
  BY <1>a, <1>1, ElementOfSeq DEF Mine, Range
<1>3. OnePerAddress(held) /\ Bounded(held) /\ MaxProfiles \in Nat \ {0}
  BY <1>a DEF Sound, RouterAssumption
<1>4. PICK gone \in Nat :
        /\ gone <= Len(held) /\ Len(held) - gone < MaxProfiles
        /\ kept \in Seq(Conns)
        /\ Len(kept) = Len(held) - gone
        /\ \A n \in 1 .. Len(held) - gone : kept[n] = held[n + gone]
  <2>1. CASE Len(held) < MaxProfiles
    <3>1. kept = held
      BY <1>a, <2>1 DEF Evicted
    <3> WITNESS 0 \in Nat
    <3> QED BY <1>1, <2>1, <3>1
  <2>2. CASE ~(Len(held) < MaxProfiles)
    <3>1. kept = SubSeq(held, Len(held) - MaxProfiles + 2, Len(held))
      BY <1>a, <2>2 DEF Evicted
    <3>a. PICK a : a = Len(held) - MaxProfiles + 1
      OBVIOUS
    <3>2. a \in Nat /\ a <= Len(held) /\ Len(held) - a < MaxProfiles
          /\ a + 1 \in Int /\ Len(held) \in Int
      BY <1>1, <1>3, <2>2, <3>a DEF Bounded
    <3>3. kept = SubSeq(held, a + 1, Len(held))
      BY <1>1, <1>3, <3>1, <3>a
    <3>4. \A n \in a + 1 .. Len(held) : held[n] \in Conns
      BY <1>2, <3>2
    <3>5. /\ kept \in Seq(Conns)
          /\ Len(kept) = IF a + 1 <= Len(held) THEN Len(held) - (a + 1) + 1 ELSE 0
          /\ \A n \in 1 .. Len(held) - (a + 1) + 1 : kept[n] = held[(a + 1) + n - 1]
      BY <3>2, <3>3, <3>4, SubSeqProperties
    <3>6. /\ Len(kept) = Len(held) - a
          /\ Len(held) - (a + 1) + 1 = Len(held) - a
      <4>1. Len(held) \in Nat /\ a \in Nat /\ a <= Len(held)
        BY <1>1, <3>2
      <4> QED BY <3>5, <4>1
    <3>7. \A n \in 1 .. Len(held) - a : (a + 1) + n - 1 = n + a
      BY <1>1, <3>2
    <3>8. \A n \in 1 .. Len(held) - a : kept[n] = held[n + a]
      BY <3>5, <3>6, <3>7
    <3>9. a \in Nat
      BY <3>2
    <3> WITNESS a \in Nat
    <3> QED BY <3>2, <3>5, <3>6, <3>8
  <2> QED BY <2>1, <2>2
<1>5. /\ joined \in Seq(Conns)
      /\ Len(joined) = Len(kept) + 1
      /\ \A n \in 1 .. Len(kept) : joined[n] = kept[n]
      /\ joined[Len(kept) + 1] = c
  BY <1>a, <1>4, AppendProperties
<1>6. \A n \in 1 .. Len(kept) : joined[n] = held[n + gone] /\ n + gone \in 1 .. Len(held)
  BY <1>1, <1>4, <1>5
<1>7. OnePerAddress(joined)
  <2> SUFFICES ASSUME NEW m \in 1 .. Len(joined), NEW n \in 1 .. Len(joined),
                      IpOf[joined[m]] = IpOf[joined[n]]
               PROVE  m = n
    BY DEF OnePerAddress
  <2>1. CASE m \in 1 .. Len(kept) /\ n \in 1 .. Len(kept)
    <3>1. /\ IpOf[held[m + gone]] = IpOf[held[n + gone]]
          /\ m + gone \in 1 .. Len(held) /\ n + gone \in 1 .. Len(held)
      BY <1>6, <2>1
    <3>2. m + gone = n + gone
      BY <1>3, <3>1 DEF OnePerAddress
    <3> QED BY <3>2, <2>1, <1>4
  <2>2. CASE m \in 1 .. Len(kept) /\ n = Len(kept) + 1
    BY <1>2, <1>5, <1>6, <2>2
  <2>3. CASE m = Len(kept) + 1 /\ n \in 1 .. Len(kept)
    BY <1>2, <1>5, <1>6, <2>3
  <2>4. CASE m = Len(kept) + 1 /\ n = Len(kept) + 1
    BY <2>4
  <2>5. \A k \in 1 .. Len(joined) : k \in 1 .. Len(kept) \/ k = Len(kept) + 1
    BY <1>1, <1>4, <1>5
  <2> QED BY <2>1, <2>2, <2>3, <2>4, <2>5
<1>8. Bounded(joined)
  BY <1>1, <1>3, <1>4, <1>5 DEF Bounded
<1> QED BY <1>a, <1>5, <1>7, <1>8 DEF Sound

(***************************************************************************)
(* The types of the router's state and the bounds of its caches.           *)
(***************************************************************************)
CacheInv == TypeOK /\ \A i \in Instances : Sound(cache[i])

\* Every cache is empty at the start.
LEMMA InitCaches ==
  ASSUME RouterAssumption, Init
  PROVE  CacheInv
<1>1. \A i \in Instances : Sound(cache[i])
  BY DEF Init, RouterAssumption, Sound, Bounded, OnePerAddress
<1>2. TypeOK
  BY DEF Init, TypeOK, ReportData, Nothing, NoData
<1> QED BY <1>1, <1>2 DEF CacheInv

\* One instance's cache at a time changes, into a sound one.
LEMMA CacheStep ==
  ASSUME CacheInv, NEW i, NEW s, i \in Instances => Sound(s),
         cache' = [cache EXCEPT ![i] = s]
  PROVE  cache' \in [Instances -> Seq(Conns)] /\ \A j \in Instances : Sound(cache'[j])
BY DEF CacheInv, TypeOK, Sound

\* A lookup leaves every cache sound.
LEMMA TouchStep ==
  ASSUME RouterAssumption, CacheInv, NEW i, NEW c,
         cache' = [cache EXCEPT ![i] = Touched(i, c)]
  PROVE  cache' \in [Instances -> Seq(Conns)] /\ \A j \in Instances : Sound(cache'[j])
<1>1. i \in Instances => Sound(Touched(i, c))
  BY TouchedIsSound DEF CacheInv
<1> QED BY <1>1, CacheStep

\* Every step of a thread, and the end of a process, keeps CacheInv.
LEMMA NextCaches ==
  ASSUME RouterAssumption, CacheInv, Next
  PROVE  CacheInv'
<1>0. TypeOK /\ \A i \in Instances : Sound(cache[i])
  BY DEF CacheInv
<1>1. CASE Gone
  BY <1>0, <1>1 DEF Gone, vars, TypeOK, CacheInv, Sound, Bounded, OnePerAddress
<1>2. ASSUME NEW c \in Conns, NEW p \in Paths, Accept(c, p)
      PROVE  CacheInv'
  BY <1>0, <1>2 DEF Accept, Goes, RouterAssumption, TypeOK, CacheInv, Sound, Bounded, OnePerAddress,
     Served
<1>3. ASSUME NEW c \in Conns, AcceptProbe(c)
      PROVE  CacheInv'
  BY <1>0, <1>3 DEF AcceptProbe, Goes, TypeOK, CacheInv, Sound, Bounded, OnePerAddress, Served
<1>4. ASSUME NEW c \in Conns, Match(c)
      PROVE  CacheInv'
  <2>1. PICK r : r = Min(untried[c])
    OBVIOUS
  <2>2. untried[c] # {} /\ untried[c] \subseteq Routes
    BY <1>0, <1>4 DEF Match, TypeOK
  <2>3. r \in Routes
    BY <2>1, <2>2, LeastIn DEF RouterAssumption
  <2>4. PICK creator : creator = IF instances[r] = None THEN c ELSE instances[r]
    OBVIOUS
  <2>5. creator \in Conns /\ <<r, creator>> \in Instances
    BY <1>0, <2>3, <2>4 DEF TypeOK, Instances
  <2>6. /\ Goes(c, "match", "lookup")
        /\ untried' = [untried EXCEPT ![c] = @ \ {r}]
        /\ instances' = [instances EXCEPT ![r] = creator]
        /\ older' = IF instances[r] = None THEN [older EXCEPT ![<<r, c>>] = Kept] ELSE older
        /\ handler' = [handler EXCEPT ![c] = <<r, creator>>]
        /\ UNCHANGED <<profile, cache, history, dialogue, snapshot, answered,
                       report, alone>>
    BY <1>4, <2>1, <2>4 DEF Match
  <2>7. older' \in [Instances -> SUBSET Routes]
    BY <1>0, <2>6 DEF TypeOK, Kept
  <2> QED BY <1>0, <2>3, <2>5, <2>6, <2>7
             DEF Goes, TypeOK, CacheInv, Sound, Bounded, OnePerAddress
<1>5. ASSUME NEW c \in Conns, FallBack(c) \/ Send(c)
      PROVE  CacheInv'
  BY <1>0, <1>5 DEF FallBack, Send, Goes, TypeOK, CacheInv, Sound, Bounded, OnePerAddress
<1>6. ASSUME NEW c \in Conns, Raise(c)
      PROVE  CacheInv'
  BY <1>0, <1>6 DEF Raise, Dropped, Goes, TypeOK, CacheInv, Sound, Bounded, OnePerAddress
<1>7. ASSUME NEW c \in Conns, LookUp(c)
      PROVE  CacheInv'
  <2>1. /\ Goes(c, "lookup", "record")
        /\ UNCHANGED <<untried, handler, instances, older, history, dialogue, snapshot,
                       answered, report, alone>>
    BY <1>7 DEF LookUp
  <2>2. PICK i : i = handler[c]
    OBVIOUS
  <2>3. CASE Mine(i, c) # {}
    <3>1. PICK x : x = CHOOSE y \in Mine(i, c) : TRUE
      OBVIOUS
    <3>2. x \in Conns
      BY <2>3, <3>1 DEF Mine
    <3>3. /\ profile' = [profile EXCEPT ![c] = x]
          /\ cache' = [cache EXCEPT ![i] = Touched(i, c)]
      BY <1>7, <2>2, <2>3, <3>1 DEF LookUp
    <3>4. cache' \in [Instances -> Seq(Conns)] /\ \A j \in Instances : Sound(cache'[j])
      BY <3>3, TouchStep
    <3> QED BY <1>0, <2>1, <3>2, <3>3, <3>4 DEF Goes, TypeOK, CacheInv, Sound, Bounded, OnePerAddress
  <2>4. CASE Mine(i, c) = {}
    <3>1. /\ profile' = [profile EXCEPT ![c] = c]
          /\ cache' = [cache EXCEPT ![i] = Append(Evicted(cache[i]), c)]
      BY <1>7, <2>2, <2>4 DEF LookUp
    <3>2. i \in Instances => Sound(Append(Evicted(cache[i]), c))
      BY <1>0, <2>4, JoinedIsSound
    <3>3. cache' \in [Instances -> Seq(Conns)] /\ \A j \in Instances : Sound(cache'[j])
      BY <3>1, <3>2, CacheStep
    <3> QED BY <1>0, <2>1, <3>1, <3>3 DEF Goes, TypeOK, CacheInv, Sound, Bounded, OnePerAddress
  <2> QED BY <2>3, <2>4
<1>8. ASSUME NEW c \in Conns, RecordRequest(c)
      PROVE  CacheInv'
  <2>1. PICK held : held = <<handler[c], profile[c]>>
    OBVIOUS
  <2>2. /\ Goes(c, "record", "dialogue")
        /\ history' = [history EXCEPT ![held] = @ \cup {c}]
        /\ UNCHANGED <<untried, handler, profile, instances, older, cache, dialogue,
                       snapshot, answered, report, alone>>
    BY <1>8, <2>1 DEF RecordRequest
  <2> QED BY <1>0, <2>2 DEF Goes, TypeOK, CacheInv, Sound, Bounded, OnePerAddress
<1>9. ASSUME NEW c \in Conns, RecordInteraction(c)
      PROVE  CacheInv'
  <2>1. PICK i : i = handler[c]
    OBVIOUS
  <2>2. /\ Goes(c, "dialogue", "enrich")
        /\ answered' = [answered EXCEPT ![c] = TRUE]
        /\ cache' = [cache EXCEPT ![i] = Touched(i, c)]
        /\ dialogue' = [p \in Profiles |->
                          IF p[1] = i /\ p[2] \in Mine(i, c)
                          THEN dialogue[p] \cup {c} ELSE dialogue[p]]
        /\ untried' = [untried EXCEPT ![c] = {}]
        /\ handler' = [handler EXCEPT ![c] = None]
        /\ profile' = [profile EXCEPT ![c] = None]
        /\ UNCHANGED <<instances, older, history, snapshot, report, alone>>
    BY <1>9, <2>1 DEF RecordInteraction, Dropped
  <2>3. cache' \in [Instances -> Seq(Conns)] /\ \A j \in Instances : Sound(cache'[j])
    BY <2>2, TouchStep
  <2>4. dialogue' \in [Profiles -> SUBSET Conns]
    BY <1>0, <2>2 DEF TypeOK
  <2> QED BY <1>0, <2>2, <2>3, <2>4 DEF Goes, TypeOK, CacheInv, Sound, Bounded, OnePerAddress
<1>10. ASSUME NEW c \in Conns, Snapshot(c)
       PROVE  CacheInv'
  <2>1. PICK now : now = {<<r, instances[r]>> : r \in Kept}
    OBVIOUS
  <2>2. now \subseteq Instances
    BY <1>0, <2>1 DEF Instances, TypeOK, Kept
  <2>3. /\ Goes(c, "enrich", "collect")
        /\ snapshot' = [snapshot EXCEPT ![c] = now]
        /\ UNCHANGED <<untried, handler, profile, instances, older, cache, history,
                       dialogue, answered, report, alone>>
    BY <1>10, <2>1 DEF Snapshot
  <2> QED BY <1>0, <2>2, <2>3 DEF Goes, TypeOK, CacheInv, Sound, Bounded, OnePerAddress
<1>11. ASSUME NEW c \in Conns, Collect(c)
       PROVE  CacheInv'
  <2>1. PICK i \in snapshot[c] :
          LET found == {<<i, x>> : x \in Mine(i, c)}
          IN  /\ Goes(c, "collect", "collect")
              /\ snapshot' = [snapshot EXCEPT ![c] = @ \ {i}]
              /\ cache' = [cache EXCEPT ![i] = Touched(i, c)]
              /\ report' = IF found = {} THEN report ELSE
                   [report EXCEPT ![c][DomainOf[i[1]]] =
                      [requests |-> UNION {history[p] : p \in found},
                       interactions |-> UNION {dialogue[p] : p \in found}]]
              /\ UNCHANGED <<untried, handler, profile, instances, older, history,
                             dialogue, answered, alone>>
    BY <1>11 DEF Collect
  <2> DEFINE found == {<<i, x>> : x \in Mine(i, c)}
  <2>2. PICK asked, said, d : /\ asked = UNION {history[p] : p \in found}
                              /\ said = UNION {dialogue[p] : p \in found}
                              /\ d = DomainOf[i[1]]
    OBVIOUS
  <2>3. \A p \in found : p \in Profiles
    BY <1>0 DEF Mine, TypeOK, Profiles
  <2>4. asked \subseteq Conns /\ said \subseteq Conns
    BY <1>0, <2>2, <2>3 DEF TypeOK
  <2>5. \/ report' = report
        \/ report' = [report EXCEPT ![c][d] = [requests |-> asked, interactions |-> said]]
    BY <2>1, <2>2
  <2>6. report' \in [Conns -> [Domains -> ReportData]]
    <3>1. [requests |-> asked, interactions |-> said] \in ReportData
      BY <2>4 DEF ReportData
    <3> QED BY <1>0, <2>5, <3>1, EntryChanges DEF TypeOK
  <2>7. /\ Goes(c, "collect", "collect")
        /\ snapshot' = [snapshot EXCEPT ![c] = @ \ {i}]
        /\ cache' = [cache EXCEPT ![i] = Touched(i, c)]
        /\ UNCHANGED <<untried, handler, profile, instances, older, history, dialogue,
                       answered, alone>>
    BY <2>1
  <2> HIDE DEF found
  <2>8. cache' \in [Instances -> Seq(Conns)] /\ \A j \in Instances : Sound(cache'[j])
    BY <2>7, TouchStep
  <2> QED BY <1>0, <2>6, <2>7, <2>8 DEF Goes, TypeOK, CacheInv, Sound, Bounded, OnePerAddress
<1>12. ASSUME NEW c \in Conns, Close(c)
       PROVE  CacheInv'
  <2>1. Sound(<<>>)
    BY DEF Sound, Bounded, OnePerAddress, RouterAssumption
  <2>2. \A i \in Instances : Sound(cache'[i])
    BY <1>0, <1>12, <2>1 DEF Close, TypeOK
  <2>3. cache' \in [Instances -> Seq(Conns)]
    BY <1>0, <1>12 DEF Close, TypeOK
  <2>4. /\ history' \in [Profiles -> SUBSET Conns]
        /\ dialogue' \in [Profiles -> SUBSET Conns]
        /\ older' \in [Instances -> SUBSET Routes]
    BY <1>0, <1>12 DEF Close, TypeOK
  <2>5. /\ Goes(c, "reply", "gone")
        /\ instances' = Cleared
        /\ answered' = [answered EXCEPT ![c] = FALSE]
        /\ report' = [report EXCEPT ![c] = Nothing]
        /\ alone' = [alone EXCEPT ![c] = FALSE]
        /\ UNCHANGED <<untried, handler, profile, snapshot>>
    BY <1>12 DEF Close
  <2> QED BY <1>0, <2>2, <2>3, <2>4, <2>5
             DEF Goes, Cleared, Nothing, NoData, ReportData, TypeOK, CacheInv, Sound, Bounded, OnePerAddress
<1> QED BY <1>1, <1>2, <1>3, <1>4, <1>5, <1>6, <1>7, <1>8, <1>9, <1>10, <1>11, <1>12 DEF Next

\* So CacheInv is invariant.
LEMMA CacheInvHolds ==
  ASSUME RouterAssumption
  PROVE  Init /\ [][Next]_vars => []CacheInv
<1>1. Init => CacheInv
  BY InitCaches
<1>2. CacheInv /\ [Next]_vars => CacheInv'
  <2>1. CacheInv /\ UNCHANGED vars => CacheInv'
    BY DEF vars, TypeOK, CacheInv, Sound, Bounded, OnePerAddress
  <2> QED BY <2>1, NextCaches
<1> QED BY <1>1, <1>2, PTL

(***************************************************************************)
(* The types of the state of the shared router.                            *)
(***************************************************************************)
THEOREM RouterTypeOK ==
  ASSUME RouterAssumption
  PROVE  Init /\ [][Next]_vars => []TypeOK
<1>1. CacheInv => TypeOK
  BY DEF CacheInv
<1> QED BY <1>1, CacheInvHolds, PTL

(***************************************************************************)
(* However the threads of overlapping connections look profiles up, create *)
(* and evict them, a cache holds at most MAX_PROFILES and one per address. *)
(***************************************************************************)
THEOREM CacheIsLRUHolds ==
  ASSUME RouterAssumption
  PROVE  Init /\ [][Next]_vars => []CacheIsLRU
<1>1. CacheInv => CacheIsLRU
  BY DEF CacheInv, CacheIsLRU, Sound, Bounded, OnePerAddress
<1> QED BY <1>1, CacheInvHolds, PTL
-----------------------------------------------------------------------------
(***************************************************************************)
(* Why a connection that is served alone reports exactly what it did.      *)
(* Before it is accepted nothing carries its name; when none is served no  *)
(* instance is left, so the instances it finds are its own; what the       *)
(* handler that answered recorded stays in the one created last, because   *)
(* the only steps are its own; and as the report looks at the instances in *)
(* the order of the dictionary, no instance that shares the domain of that *)
(* one takes its place in the report.                                      *)
(***************************************************************************)
Unrun(c) ==
  pc[c] = "idle" =>
    /\ report[c] = Nothing /\ ~answered[c]
    /\ \A r \in Routes :
         /\ instances[r] # c
         /\ cache[<<r, c>>] = <<>>
         /\ \A x \in Conns : history[<<<<r, c>>, x>>] = {} /\ dialogue[<<<<r, c>>, x>>] = {}
         /\ \A d \in Conns : handler[d] # <<r, c>> /\ <<r, c>> \notin snapshot[d]

Quiet == (\A c \in Conns : ~Served(c)) => \A r \in Routes : instances[r] = None

Spoke(c, r) == c \in Range(cache[<<r, c>>]) /\ dialogue[<<<<r, c>>, c>>] = {c}

OwnOnly(c) ==
  /\ \A d \in Conns \ {c} : ~Served(d)
  /\ \A r \in Routes :
       /\ instances[r] \in {None, c}
       /\ Range(cache[<<r, c>>]) \subseteq {c}
       /\ \A x \in Conns : /\ history[<<<<r, c>>, x>>] \subseteq {c}
                           /\ dialogue[<<<<r, c>>, x>>] \subseteq {c}
  /\ \A d \in Domains : /\ report[c][d].requests \subseteq {c}
                        /\ report[c][d].interactions \subseteq {c}

Silent(c) ==
  ~answered[c] =>
    /\ \A d \in Domains : report[c][d].interactions = {}
    /\ \A r \in Routes, x \in Conns : dialogue[<<<<r, c>>, x>>] = {}

\* The instance that c created last.
Latest(c, r) == instances[r] = c /\ \A q \in Kept \ {r} : q \in older[<<r, c>>]

Dispatching(c) ==
  /\ pc[c] \in {"match", "lookup", "record", "dialogue"} =>
       ~answered[c] /\ \A r \in untried[c] : instances[r] = None
  /\ pc[c] \in {"lookup", "record", "dialogue"} =>
       \E r \in Routes : handler[c] = <<r, c>> /\ Latest(c, r)
  /\ pc[c] \in {"record", "dialogue"} => profile[c] = c /\ c \in Range(cache[handler[c]])

\* The report has what it said,
Told(c) == \E d \in Domains : c \in report[c][d].interactions

\* or will have it from the last instance it looks at.
LookedAtLast(c, r) ==
  /\ <<r, c>> \in snapshot[c]
  /\ \A i \in snapshot[c] : i = <<r, c>> \/ i[1] \in older[<<r, c>>]

Collecting(c) ==
  /\ pc[c] = "collect" => snapshot[c] \subseteq Routes \X {c}
  /\ answered[c] =>
       /\ pc[c] = "enrich" => \E r \in Routes : Latest(c, r) /\ Spoke(c, r)
       /\ pc[c] = "collect" => \/ snapshot[c] = {} /\ Told(c)
                               \/ \E r \in Routes : LookedAtLast(c, r) /\ Spoke(c, r)
       /\ pc[c] = "reply" => Told(c)

Solo(c) == OwnOnly(c) /\ Silent(c) /\ Dispatching(c) /\ Collecting(c)

\* The steps of one connection.
Moves(c) ==
  \/ \E p \in Paths : Accept(c, p)
  \/ AcceptProbe(c)
  \/ Match(c) \/ FallBack(c) \/ Raise(c)
  \/ LookUp(c) \/ RecordRequest(c) \/ RecordInteraction(c)
  \/ Snapshot(c) \/ Collect(c) \/ Send(c) \/ Close(c)

(***************************************************************************)
(* A step of one connection leaves nothing under the name of another that  *)
(* has not been accepted.                                                  *)
(***************************************************************************)
LEMMA UnrunStep ==
  ASSUME RouterAssumption, CacheInv, NEW d \in Conns, Unrun(d), NEW c \in Conns, Moves(c)
  PROVE  Unrun(d)'
<1>0. TypeOK
  BY DEF CacheInv
<1>1. (c # d /\ pc'[d] = pc[d]) \/ pc'[d] # "idle"
  BY <1>0 DEF Moves, TypeOK, Accept, AcceptProbe, Match, FallBack, Raise, LookUp, RecordRequest,
     RecordInteraction, Snapshot, Collect, Send, Close, Goes
<1> SUFFICES ASSUME c # d, pc[d] = "idle"
             PROVE  Unrun(d)'
  BY <1>1 DEF Unrun
<1>2. /\ report[d] = Nothing /\ ~answered[d]
      /\ \A r \in Routes :
           /\ instances[r] # d
           /\ cache[<<r, d>>] = <<>>
           /\ \A x \in Conns : history[<<<<r, d>>, x>>] = {} /\ dialogue[<<<<r, d>>, x>>] = {}
           /\ \A e \in Conns : handler[e] # <<r, d>> /\ <<r, d>> \notin snapshot[e]
  BY DEF Unrun
<1>3. \A r \in Routes : <<r, d>> \in Instances /\ \A x \in Conns : <<<<r, d>>, x>> \in Profiles
  BY DEF Instances, Profiles
<1>4. None \notin Conns
  BY DEF RouterAssumption
<1>5. CASE (\E p \in Paths : Accept(c, p)) \/ AcceptProbe(c) \/ FallBack(c) \/ Send(c)
  <2>1. UNCHANGED <<handler, instances, cache, history, dialogue, snapshot, report, answered>>
    BY <1>5 DEF Accept, AcceptProbe, FallBack, Send
  <2> QED BY <1>2, <2>1 DEF Unrun
<1>6. CASE Match(c)
  <2>1. PICK r, creator : creator = (IF instances[r] = None THEN c ELSE instances[r])
          /\ instances' = [instances EXCEPT ![r] = creator]
          /\ handler' = [handler EXCEPT ![c] = <<r, creator>>]
          /\ UNCHANGED <<profile, cache, history, dialogue, snapshot, answered, report>>
          /\ r = Min(untried[c])
    BY <1>6 DEF Match
  <2>2. r \in Routes
    <3>1. untried[c] # {} /\ untried[c] \subseteq Routes
      BY <1>0, <1>6 DEF Match, TypeOK
    <3> QED BY <2>1, <3>1, LeastIn DEF RouterAssumption
  <2>3. creator # d
    BY <1>2, <2>1, <2>2
  <2> QED BY <1>0, <1>2, <2>1, <2>2, <2>3 DEF Unrun, TypeOK
<1>7. CASE Raise(c)
  <2>1. /\ handler' = [handler EXCEPT ![c] = None]
        /\ UNCHANGED <<instances, cache, history, dialogue, snapshot, report, answered>>
    BY <1>7 DEF Raise, Dropped
  <2>2. \A r \in Routes : <<r, d>> # None
    BY <1>3 DEF RouterAssumption, Instances
  <2> QED BY <1>0, <1>2, <2>1, <2>2 DEF Unrun, TypeOK
<1>8. CASE LookUp(c)
  <2>1. PICK i, s : /\ i = handler[c]
                    /\ cache' = [cache EXCEPT ![i] = s]
                    /\ UNCHANGED <<untried, handler, instances, history, dialogue, snapshot,
                                   answered, report>>
    BY <1>8 DEF LookUp
  <2> QED BY <1>0, <1>2, <2>1 DEF Unrun, TypeOK
<1>9. CASE RecordRequest(c)
  <2>1. PICK held : /\ held = <<handler[c], profile[c]>>
                    /\ history' = [history EXCEPT ![held] = @ \cup {c}]
                    /\ UNCHANGED <<untried, handler, instances, cache, dialogue, snapshot,
                                   answered, report>>
    BY <1>9 DEF RecordRequest
  <2>2. \A r \in Routes, x \in Conns : held # <<<<r, d>>, x>>
    BY <1>2, <2>1
  <2> QED BY <1>0, <1>2, <1>3, <2>1, <2>2 DEF Unrun, TypeOK
<1>10. CASE RecordInteraction(c)
  <2>1. PICK i, s : /\ i = handler[c]
                    /\ cache' = [cache EXCEPT ![i] = s]
                    /\ dialogue' = [p \in Profiles |->
                                      IF p[1] = i /\ p[2] \in Mine(i, c)
                                      THEN dialogue[p] \cup {c} ELSE dialogue[p]]
                    /\ answered' = [answered EXCEPT ![c] = TRUE]
                    /\ handler' = [handler EXCEPT ![c] = None]
                    /\ UNCHANGED <<instances, history, snapshot, report>>
    BY <1>10 DEF RecordInteraction, Dropped
  <2>2. \A r \in Routes : i # <<r, d>> /\ <<r, d>> # None
    BY <1>2, <1>3, <2>1 DEF RouterAssumption, Instances
  <2>3. \A r \in Routes, x \in Conns : dialogue'[<<<<r, d>>, x>>] = {}
    BY <1>2, <1>3, <2>1, <2>2
  <2>4. \A r \in Routes : cache'[<<r, d>>] = cache[<<r, d>>]
    BY <1>0, <1>3, <2>1, <2>2 DEF TypeOK
  <2>5. \A e \in Conns : handler'[e] = handler[e] \/ handler'[e] = None
    BY <1>0, <2>1 DEF TypeOK
  <2>6. answered'[d] = answered[d] /\ UNCHANGED <<instances, history, snapshot, report>>
    BY <1>0, <2>1 DEF TypeOK
  <2> QED BY <1>2, <2>2, <2>3, <2>4, <2>5, <2>6 DEF Unrun
<1>11. CASE Snapshot(c)
  <2>1. PICK now : /\ now = {<<r, instances[r]>> : r \in Kept}
                   /\ snapshot' = [snapshot EXCEPT ![c] = now]
                   /\ UNCHANGED <<handler, instances, cache, history, dialogue, answered, report>>
    BY <1>11 DEF Snapshot
  <2>2. \A r \in Routes : <<r, d>> \notin now
    BY <1>2, <2>1 DEF Kept
  <2> QED BY <1>0, <1>2, <2>1, <2>2 DEF Unrun, TypeOK
<1>12. CASE Collect(c)
  <2>a. PICK i \in snapshot[c] :
          LET found == {<<i, x>> : x \in Mine(i, c)}
          IN  /\ snapshot' = [snapshot EXCEPT ![c] = @ \ {i}]
              /\ cache' = [cache EXCEPT ![i] = Touched(i, c)]
              /\ report' = IF found = {} THEN report ELSE
                   [report EXCEPT ![c][DomainOf[i[1]]] =
                      [requests |-> UNION {history[p] : p \in found},
                       interactions |-> UNION {dialogue[p] : p \in found}]]
              /\ UNCHANGED <<handler, instances, history, dialogue, answered>>
    BY <1>12 DEF Collect
  <2>b. PICK row : report' = report \/ report' = [report EXCEPT ![c] = row]
    <3>1. \A f, data : [report EXCEPT ![c][f] = data] = [report EXCEPT ![c] = [@ EXCEPT ![f] = data]]
      OBVIOUS
    <3> QED BY <2>a, <3>1
  <2>1. /\ snapshot' = [snapshot EXCEPT ![c] = @ \ {i}]
        /\ \A j \in Instances \ {i} : cache'[j] = cache[j]
        /\ \A e \in Conns \ {c} : report'[e] = report[e]
        /\ UNCHANGED <<handler, instances, history, dialogue, answered>>
    BY <1>0, <2>a, <2>b DEF TypeOK
  <2>2. \A r \in Routes : i # <<r, d>>
    BY <1>2
  <2> QED BY <1>0, <1>2, <1>3, <2>1, <2>2 DEF Unrun, TypeOK
<1>13. CASE Close(c)
  <2>1. /\ instances' = [r \in Routes |-> None]
        /\ \A i \in Instances : cache'[i] = cache[i] \/ cache'[i] = <<>>
        /\ \A p \in Profiles : /\ history'[p] = history[p] \/ history'[p] = {}
                               /\ dialogue'[p] = dialogue[p] \/ dialogue'[p] = {}
        /\ answered' = [answered EXCEPT ![c] = FALSE]
        /\ report' = [report EXCEPT ![c] = Nothing]
        /\ UNCHANGED <<handler, snapshot>>
    BY <1>13 DEF Close, Cleared
  <2> QED BY <1>0, <1>2, <1>3, <1>4, <2>1 DEF Unrun, TypeOK
<1> QED BY <1>5, <1>6, <1>7, <1>8, <1>9, <1>10, <1>11, <1>12, <1>13 DEF Moves

\* A step of one thread keeps Quiet.
LEMMA QuietStep ==
  ASSUME CacheInv, Quiet, NEW c \in Conns, Moves(c)
  PROVE  Quiet'
<1>1. CASE Close(c)
  BY <1>1 DEF Close, Cleared, Quiet
<1>2. CASE ~Close(c)
  <2>1. Served(c)'
    BY <1>2 DEF CacheInv, TypeOK, Served, Moves, Accept, AcceptProbe, Match, FallBack, Raise, LookUp,
       RecordRequest, RecordInteraction, Snapshot, Collect, Send, Goes
  <2> QED BY <2>1 DEF Quiet
<1> QED BY <1>1, <1>2

\* The steps of others end that a connection is alone.
LEMMA OnlyItsOwn ==
  ASSUME CacheInv, NEW c \in Conns, Moves(c), NEW d \in Conns, (alone[d] /\ Served(d))',
         alone[d] /\ Served(d) => Solo(d)
  PROVE  d = c
<1> SUFFICES ASSUME d # c
             PROVE  FALSE
  OBVIOUS
<1>0. TypeOK
  BY DEF CacheInv
<1>1. pc'[d] = pc[d]
  BY <1>0 DEF Moves, TypeOK, Accept, AcceptProbe, Match, FallBack, Raise, LookUp, RecordRequest,
     RecordInteraction, Snapshot, Collect, Send, Close, Goes
<1>2. Served(d)
  BY <1>1 DEF Served
<1>3. CASE (\E p \in Paths : Accept(c, p)) \/ AcceptProbe(c)
  BY <1>2, <1>3 DEF Accept, AcceptProbe
<1>4. CASE ~((\E p \in Paths : Accept(c, p)) \/ AcceptProbe(c))
  <2>1. alone'[d] = alone[d]
    BY <1>0, <1>4 DEF Moves, TypeOK, Match, FallBack, Raise, LookUp, RecordRequest,
       RecordInteraction, Snapshot, Collect, Send, Close
  <2>2. Served(c)
    BY <1>4 DEF Served, Moves, Match, FallBack, Raise, LookUp, RecordRequest,
       RecordInteraction, Snapshot, Collect, Send, Close, Goes
  <2> QED BY <1>2, <2>1, <2>2 DEF Solo, OwnOnly
<1> QED BY <1>3, <1>4

\* A connection accepted alone finds nothing of its own.
LEMMA AcceptIsSolo ==
  ASSUME RouterAssumption, CacheInv, NEW c \in Conns, Unrun(c), Quiet,
         NEW p \in Paths, Accept(c, p), alone'[c]
  PROVE  Solo(c)'
<1>0. TypeOK
  BY DEF CacheInv
<1>1. \A e \in Conns : ~Served(e)
  BY <1>0 DEF Accept, TypeOK
<1>2. /\ \A e \in Conns \ {c} : pc'[e] = pc[e]
      /\ pc[c] = "idle" /\ pc'[c] = "match" /\ untried'[c] \subseteq Routes
      /\ UNCHANGED <<handler, profile, instances, older, cache, history, dialogue,
                     snapshot, answered, report>>
  BY <1>0 DEF Accept, Goes, TypeOK, RouterAssumption
<1>3. /\ \A d \in Domains : report[c][d].requests = {} /\ report[c][d].interactions = {}
      /\ ~answered[c]
      /\ \A r \in Routes :
           /\ instances[r] = None
           /\ Range(cache[<<r, c>>]) = {}
           /\ \A x \in Conns : history[<<<<r, c>>, x>>] = {} /\ dialogue[<<<<r, c>>, x>>] = {}
  <2>1. \A r \in Routes : instances[r] = None
    BY <1>1 DEF Quiet
  <2>2. Range(<<>>) = {}
    BY DEF Range
  <2>3. report[c] = Nothing /\ ~answered[c] /\ \A r \in Routes : cache[<<r, c>>] = <<>>
    BY <1>2 DEF Unrun
  <2>4. \A r \in Routes, x \in Conns :
          history[<<<<r, c>>, x>>] = {} /\ dialogue[<<<<r, c>>, x>>] = {}
    BY <1>2 DEF Unrun
  <2> QED BY <2>1, <2>2, <2>3, <2>4 DEF Nothing, NoData
<1> QED BY <1>1, <1>2, <1>3 DEF Solo, OwnOnly, Silent, Dispatching, Collecting, Served

\* A route matched creates an instance, which comes last in the dictionary.
LEMMA MatchIsSolo ==
  ASSUME RouterAssumption, CacheInv, NEW c \in Conns, Solo(c), Match(c)
  PROVE  Solo(c)'
<1>0. TypeOK
  BY DEF CacheInv
<1>a. PICK r : r = Min(untried[c])
  OBVIOUS
<1>2. r \in Routes /\ r \in untried[c]
  <2>1. untried[c] # {} /\ untried[c] \subseteq Routes
    BY <1>0 DEF Match, TypeOK
  <2> QED BY <1>a, <2>1, LeastIn DEF RouterAssumption
<1>3. instances[r] = None
  BY <1>2 DEF Solo, Dispatching, Match, Goes
<1>1. /\ untried' = [untried EXCEPT ![c] = @ \ {r}]
      /\ instances' = [instances EXCEPT ![r] = c]
      /\ older' = [older EXCEPT ![<<r, c>>] = Kept]
      /\ handler' = [handler EXCEPT ![c] = <<r, c>>]
      /\ UNCHANGED <<profile, cache, history, dialogue, snapshot, answered, report>>
  BY <1>a, <1>3 DEF Match
<1>4. /\ \A e \in Conns \ {c} : pc'[e] = pc[e]
      /\ pc[c] = "match" /\ pc'[c] = "lookup"
  BY <1>0 DEF Match, Goes, TypeOK
<1>5. /\ handler'[c] = <<r, c>> /\ instances'[r] = c
      /\ \A q \in Routes : instances'[q] \in {None, c}
      /\ \A q \in Routes \ {r} : instances'[q] = instances[q]
      /\ untried'[c] = untried[c] \ {r} /\ untried[c] \subseteq Routes
  BY <1>0, <1>1, <1>2 DEF TypeOK, Solo, OwnOnly
<1>b. Latest(c, r)'
  <2>1. older'[<<r, c>>] = Kept
    BY <1>0, <1>1, <1>2 DEF TypeOK, Instances
  <2>2. \A q \in Kept' \ {r} : q \in Kept
    BY <1>5 DEF Kept
  <2> QED BY <1>5, <2>1, <2>2 DEF Latest
<1>6. OwnOnly(c)' /\ Silent(c)'
  BY <1>1, <1>4, <1>5 DEF Solo, OwnOnly, Silent, Served
<1>7. Dispatching(c)' /\ Collecting(c)'
  BY <1>1, <1>2, <1>4, <1>5, <1>b DEF Solo, Dispatching, Collecting
<1> QED BY <1>6, <1>7 DEF Solo

\* Falling back, raising and sending touch no profile.
LEMMA WayIsSolo ==
  ASSUME RouterAssumption, CacheInv, NEW c \in Conns, Solo(c),
         FallBack(c) \/ Raise(c) \/ Send(c)
  PROVE  Solo(c)'
<1>0. TypeOK
  BY DEF CacheInv
<1>1. /\ \A e \in Conns \ {c} : pc'[e] = pc[e]
      /\ UNCHANGED <<untried, instances, older, cache, history, dialogue, snapshot, answered,
                     report>>
      /\ \/ pc[c] = "match" /\ pc'[c] = "enrich"
         \/ pc[c] \in {"lookup", "dialogue"} /\ pc'[c] = "match"
         \/ pc[c] = "collect" /\ pc'[c] = "reply" /\ snapshot[c] = {}
  BY <1>0 DEF FallBack, Raise, Dropped, Send, Goes, TypeOK
<1>2. OwnOnly(c)' /\ Silent(c)'
  BY <1>1 DEF Solo, OwnOnly, Silent, Served
<1>4. \A r \in Routes : Latest(c, r)' = Latest(c, r) /\ Spoke(c, r)' = Spoke(c, r)
  BY <1>1 DEF Latest, Spoke, Kept
<1>5. /\ \A r \in Routes : snapshot[c] = {} => ~LookedAtLast(c, r)
      /\ Told(c)' = Told(c)
  BY <1>1 DEF LookedAtLast, Told
<1>6. pc[c] = "match" /\ pc'[c] = "enrich" => ~answered[c]
  BY DEF Solo, Dispatching
<1>3. Dispatching(c)' /\ Collecting(c)'
  BY <1>1, <1>4, <1>5, <1>6 DEF Solo, Dispatching, Collecting
<1> QED BY <1>2, <1>3 DEF Solo

\* A lookup finds or creates the profile of its address.
LEMMA LookUpIsSolo ==
  ASSUME RouterAssumption, CacheInv, NEW c \in Conns, Solo(c), LookUp(c)
  PROVE  Solo(c)'
<1>0. TypeOK /\ \A i \in Instances : Sound(cache[i])
  BY DEF CacheInv
<1>1. /\ \A e \in Conns \ {c} : pc'[e] = pc[e]
      /\ pc[c] = "lookup" /\ pc'[c] = "record"
      /\ UNCHANGED <<untried, handler, instances, older, history, dialogue, snapshot, answered,
                     report>>
  BY <1>0 DEF LookUp, Goes, TypeOK
<1>2. PICK r \in Routes : handler[c] = <<r, c>> /\ Latest(c, r)
  BY <1>1 DEF Solo, Dispatching
<1>3. PICK i : i = <<r, c>> /\ i \in Instances /\ i = handler[c]
  BY <1>2 DEF Instances
<1>4. Range(cache[i]) \subseteq {c}
  BY <1>2, <1>3 DEF Solo, OwnOnly
<1>5. profile'[c] = c /\ Range(cache'[i]) = {c}
  <2>1. CASE Mine(i, c) # {}
    <3>1. PICK x : x = CHOOSE y \in Mine(i, c) : TRUE
      OBVIOUS
    <3>2. x \in Mine(i, c)
      BY <2>1, <3>1
    <3>3. x = c /\ Range(cache[i]) = {c}
      BY <1>4, <3>2 DEF Mine
    <3>4. profile' = [profile EXCEPT ![c] = x] /\ cache' = [cache EXCEPT ![i] = Touched(i, c)]
      BY <1>3, <2>1, <3>1 DEF LookUp
    <3>5. Range(Touched(i, c)) = Range(cache[i])
      BY <1>0, <1>3, TouchedIsSound
    <3> QED BY <1>0, <1>3, <3>3, <3>4, <3>5 DEF TypeOK
  <2>2. CASE Mine(i, c) = {}
    <3>1. profile' = [profile EXCEPT ![c] = c]
          /\ cache' = [cache EXCEPT ![i] = Append(Evicted(cache[i]), c)]
      BY <1>3, <2>2 DEF LookUp
    <3>2. c \notin Range(cache[i])
      BY <2>2 DEF Mine
    <3>3. cache[i] \in Seq(Conns) /\ Range(cache[i]) = {}
      BY <1>0, <1>3, <1>4, <3>2 DEF TypeOK
    <3>4. cache[i] = <<>>
      <4>1. cache[i] # <<>> => cache[i][1] \in Range(cache[i])
        BY <3>3, EmptySeq, LenProperties DEF Range
      <4> QED BY <3>3, <4>1
    <3>5. Evicted(<<>>) = <<>>
      BY DEF Evicted, RouterAssumption
    <3>6. Append(<<>>, c) = <<c>> /\ Range(<<c>>) = {c}
      BY DEF Range
    <3>7. cache'[i] = <<c>>
      BY <1>0, <1>3, <3>1, <3>4, <3>5, <3>6 DEF TypeOK
    <3> QED BY <1>0, <3>1, <3>6, <3>7 DEF TypeOK
  <2> QED BY <2>1, <2>2
<1>6. \A q \in Routes \ {r} : cache'[<<q, c>>] = cache[<<q, c>>]
  <2>1. \A j \in Instances \ {i} : cache'[j] = cache[j]
    BY <1>0, <1>3 DEF LookUp, TypeOK
  <2>2. \A q \in Routes \ {r} : <<q, c>> \in Instances \ {i}
    BY <1>3 DEF Instances
  <2> QED BY <2>1, <2>2
<1>7. \A q \in Routes : Range(cache'[<<q, c>>]) \subseteq {c}
  BY <1>3, <1>5, <1>6 DEF Solo, OwnOnly
<1>8. OwnOnly(c)' /\ Silent(c)'
  BY <1>1, <1>7 DEF Solo, OwnOnly, Silent, Served
<1>10. Latest(c, r)'
  BY <1>1, <1>2 DEF Latest, Kept
<1>9. Dispatching(c)' /\ Collecting(c)'
  BY <1>1, <1>2, <1>3, <1>5, <1>10 DEF Solo, Dispatching, Collecting
<1> QED BY <1>8, <1>9 DEF Solo

\* The request recorded is its own,
LEMMA RequestIsSolo ==
  ASSUME RouterAssumption, CacheInv, NEW c \in Conns, Solo(c), RecordRequest(c)
  PROVE  Solo(c)'
<1>0. TypeOK
  BY DEF CacheInv
<1>1. PICK held : /\ held = <<handler[c], profile[c]>>
                  /\ history' = [history EXCEPT ![held] = @ \cup {c}]
                  /\ UNCHANGED <<untried, handler, profile, instances, older, cache,
                                 dialogue, snapshot, answered, report>>
  BY DEF RecordRequest
<1>2. /\ \A e \in Conns \ {c} : pc'[e] = pc[e]
      /\ pc[c] = "record" /\ pc'[c] = "dialogue"
  BY <1>0 DEF RecordRequest, Goes, TypeOK
<1>3. \A r \in Routes, x \in Conns : history'[<<<<r, c>>, x>>] \subseteq {c}
  <2>1. \A r \in Routes, x \in Conns : <<<<r, c>>, x>> \in Profiles
    BY DEF Profiles, Instances
  <2> QED BY <1>0, <1>1, <2>1 DEF TypeOK, Solo, OwnOnly
<1>4. OwnOnly(c)' /\ Silent(c)'
  BY <1>1, <1>2, <1>3 DEF Solo, OwnOnly, Silent, Served
<1>6. \A r \in Routes : Latest(c, r)' = Latest(c, r)
  BY <1>1 DEF Latest, Kept
<1>5. Dispatching(c)' /\ Collecting(c)'
  BY <1>1, <1>2, <1>6 DEF Solo, Dispatching, Collecting
<1> QED BY <1>4, <1>5 DEF Solo

\* and so is the exchange.
LEMMA InteractionIsSolo ==
  ASSUME RouterAssumption, CacheInv, NEW c \in Conns, Solo(c), RecordInteraction(c)
  PROVE  Solo(c)'
<1>0. TypeOK /\ \A i \in Instances : Sound(cache[i])
  BY DEF CacheInv
<1>1. PICK i : /\ i = handler[c]
               /\ answered' = [answered EXCEPT ![c] = TRUE]
               /\ cache' = [cache EXCEPT ![i] = Touched(i, c)]
               /\ dialogue' = [p \in Profiles |->
                                 IF p[1] = i /\ p[2] \in Mine(i, c)
                                 THEN dialogue[p] \cup {c} ELSE dialogue[p]]
               /\ UNCHANGED <<instances, older, history, snapshot, report>>
  BY DEF RecordInteraction
<1>2. /\ \A e \in Conns \ {c} : pc'[e] = pc[e]
      /\ pc[c] = "dialogue" /\ pc'[c] = "enrich"
  BY <1>0 DEF RecordInteraction, Goes, TypeOK
<1>3. PICK r \in Routes : i = <<r, c>> /\ Latest(c, r)
  BY <1>1, <1>2 DEF Solo, Dispatching
<1>4. i \in Instances
  BY <1>3 DEF Instances
<1>5. c \in Range(cache[i]) /\ ~answered[c] /\ dialogue[<<i, c>>] = {}
  BY <1>1, <1>2, <1>3 DEF Solo, Dispatching, Silent
<1>6. \A j \in Instances : Range(cache'[j]) = Range(cache[j])
  <2>1. Range(Touched(i, c)) = Range(cache[i])
    BY <1>0, <1>4, TouchedIsSound
  <2> QED BY <1>0, <1>1, <1>4, <2>1 DEF TypeOK
<1>7. \A q \in Routes : <<q, c>> \in Instances /\ \A x \in Conns : <<<<q, c>>, x>> \in Profiles
  BY DEF Instances, Profiles
<1>8. dialogue'[<<i, c>>] = {c}
  <2>1. c \in Mine(i, c)
    BY <1>5 DEF Mine
  <2>2. <<i, c>> \in Profiles
    BY <1>3, <1>7
  <2> QED BY <1>1, <1>5, <2>1, <2>2
<1>9. \A q \in Routes, x \in Conns : dialogue'[<<<<q, c>>, x>>] \subseteq {c}
  <2>1. \A p \in Profiles : dialogue'[p] \subseteq dialogue[p] \cup {c}
    BY <1>1
  <2> QED BY <1>7, <2>1 DEF Solo, OwnOnly
<1>10. answered'[c]
  BY <1>0, <1>1 DEF TypeOK
<1>11. OwnOnly(c)' /\ Silent(c)'
  BY <1>1, <1>2, <1>6, <1>7, <1>9, <1>10 DEF Solo, OwnOnly, Silent, Served
<1>12. Spoke(c, r)'
  BY <1>3, <1>4, <1>5, <1>6, <1>8 DEF Spoke
<1>14. Latest(c, r)'
  BY <1>1, <1>3 DEF Latest, Kept
<1>13. Dispatching(c)' /\ Collecting(c)'
  BY <1>1, <1>2, <1>3, <1>12, <1>14 DEF Dispatching, Collecting
<1> QED BY <1>11, <1>13 DEF Solo

\* The snapshot holds the instance that answered,
LEMMA SnapshotIsSolo ==
  ASSUME RouterAssumption, CacheInv, NEW c \in Conns, Solo(c), Snapshot(c)
  PROVE  Solo(c)'
<1>0. TypeOK
  BY DEF CacheInv
<1>1. PICK now : /\ now = {<<r, instances[r]>> : r \in Kept}
                 /\ snapshot' = [snapshot EXCEPT ![c] = now]
                 /\ UNCHANGED <<handler, profile, instances, older, cache, history, dialogue,
                                answered, report>>
  BY DEF Snapshot
<1>2. /\ \A e \in Conns \ {c} : pc'[e] = pc[e]
      /\ pc[c] = "enrich" /\ pc'[c] = "collect"
  BY <1>0 DEF Snapshot, Goes, TypeOK
<1>3. snapshot'[c] = now
  BY <1>0, <1>1 DEF TypeOK
<1>4. \A i \in now : \E q \in Kept : i = <<q, c>> /\ q \in Routes
  BY <1>1 DEF Solo, OwnOnly, Kept
<1>5. ASSUME NEW r \in Routes, Latest(c, r)
      PROVE  LookedAtLast(c, r)'
  <2>1. <<r, c>> \in now
    BY <1>1, <1>5 DEF Latest, Kept, RouterAssumption
  <2>2. \A i \in now : i = <<r, c>> \/ i[1] \in older[<<r, c>>]
    BY <1>4, <1>5 DEF Latest
  <2> QED BY <1>1, <1>3, <2>1, <2>2 DEF LookedAtLast
<1>6. OwnOnly(c)' /\ Silent(c)'
  BY <1>1, <1>2 DEF Solo, OwnOnly, Silent, Served
<1>8. \A r \in Routes : Spoke(c, r)' = Spoke(c, r)
  BY <1>1 DEF Spoke
<1>7. Dispatching(c)' /\ Collecting(c)'
  BY <1>1, <1>2, <1>3, <1>4, <1>5, <1>8 DEF Solo, Dispatching, Collecting
<1> QED BY <1>6, <1>7 DEF Solo

\* so that the collection comes to its dialogue.
LEMMA CollectIsSolo ==
  ASSUME RouterAssumption, CacheInv, NEW c \in Conns, Solo(c), Collect(c)
  PROVE  Solo(c)'
<1>0. TypeOK /\ \A i \in Instances : Sound(cache[i])
  BY DEF CacheInv
<1>1. PICK i \in snapshot[c] :
        LET found == {<<i, x>> : x \in Mine(i, c)}
        IN  /\ Goes(c, "collect", "collect")
            /\ \A j \in snapshot[c] : j[1] \notin older[i]
            /\ snapshot' = [snapshot EXCEPT ![c] = @ \ {i}]
            /\ cache' = [cache EXCEPT ![i] = Touched(i, c)]
            /\ report' = IF found = {} THEN report ELSE
                 [report EXCEPT ![c][DomainOf[i[1]]] =
                    [requests |-> UNION {history[p] : p \in found},
                     interactions |-> UNION {dialogue[p] : p \in found}]]
            /\ UNCHANGED <<handler, profile, instances, older, history, dialogue, answered>>
  BY DEF Collect
<1> DEFINE found == {<<i, x>> : x \in Mine(i, c)}
<1>2. PICK asked, said, d : /\ asked = UNION {history[p] : p \in found}
                            /\ said = UNION {dialogue[p] : p \in found}
                            /\ d = DomainOf[i[1]]
  OBVIOUS
<1>4. /\ snapshot'[c] = snapshot[c] \ {i}
      /\ UNCHANGED <<handler, profile, instances, older, history, dialogue, answered>>
      /\ cache' = [cache EXCEPT ![i] = Touched(i, c)]
      /\ pc' = pc /\ pc[c] = "collect"
  BY <1>0, <1>1 DEF Goes, TypeOK
<1>5. i \in Instances /\ \E r \in Routes : i = <<r, c>>
  BY <1>0, <1>4 DEF TypeOK, Solo, Collecting
<1>6. \A j \in Instances : Range(cache'[j]) = Range(cache[j])
  <2>1. Range(Touched(i, c)) = Range(cache[i])
    BY <1>0, <1>5, TouchedIsSound
  <2> QED BY <1>0, <1>4, <1>5, <2>1 DEF TypeOK
<1>7. \A q \in Routes : <<q, c>> \in Instances
  BY DEF Instances
<1>a. d \in Domains
  BY <1>2, <1>5 DEF Domains, Instances
<1>8. \A p \in found : history[p] \subseteq {c} /\ dialogue[p] \subseteq {c}
  <2>1. \A x \in Mine(i, c) : x \in Conns
    BY DEF Mine
  <2> QED BY <1>5, <2>1 DEF Solo, OwnOnly
<1>9. asked \subseteq {c} /\ said \subseteq {c}
  BY <1>2, <1>8
<1>10. ~answered[c] => said = {}
  <2> SUFFICES ASSUME ~answered[c]
               PROVE  said = {}
    OBVIOUS
  <2>1. \A x \in Mine(i, c) : x \in Conns
    BY DEF Mine
  <2>2. \A p \in found : dialogue[p] = {}
    BY <1>5, <2>1 DEF Solo, Silent
  <2> QED BY <1>2, <2>2
<1>b. asked \subseteq Conns /\ said \subseteq Conns
  BY <1>9
<1>3. \A f \in Domains :
        report'[c][f] = IF found # {} /\ f = d
                        THEN [requests |-> asked, interactions |-> said] ELSE report[c][f]
  <2>1. [requests |-> asked, interactions |-> said] \in ReportData
    BY <1>b DEF ReportData
  <2>2. found # {} =>
          report' = [report EXCEPT ![c][d] = [requests |-> asked, interactions |-> said]]
    BY <1>1, <1>2
  <2>3. found = {} => report' = report
    BY <1>1
  <2> HIDE DEF found
  <2> QED BY <1>0, <2>1, <2>2, <2>3, EntryChanges DEF TypeOK
<1>11. \A r \in Routes : i = <<r, c>> /\ Spoke(c, r) => found # {} /\ said = {c}
  <2> SUFFICES ASSUME NEW r \in Routes, i = <<r, c>>, Spoke(c, r)
               PROVE  found # {} /\ c \in said
    BY <1>9
  <2>1. c \in Mine(i, c)
    BY DEF Spoke, Mine
  <2>2. <<i, c>> \in found /\ dialogue[<<i, c>>] = {c}
    BY <2>1 DEF Spoke
  <2> QED BY <1>2, <2>2
<1> HIDE DEF found
<1>12. OwnOnly(c)'
  BY <1>3, <1>4, <1>6, <1>7, <1>9 DEF Solo, OwnOnly, Served
<1>13. Silent(c)'
  BY <1>3, <1>4, <1>10 DEF Solo, Silent
<1>14. \A r \in Routes : Spoke(c, r) => Spoke(c, r)'
  BY <1>4, <1>6, <1>7 DEF Spoke
<1>15. Dispatching(c)'
  BY <1>4 DEF Dispatching
<1>16. Collecting(c)'
  <2>1. snapshot'[c] \subseteq Routes \X {c}
    BY <1>4 DEF Solo, Collecting
  <2>2. ASSUME answered[c]
        PROVE  \/ snapshot'[c] = {} /\ Told(c)'
               \/ \E r \in Routes : LookedAtLast(c, r)' /\ Spoke(c, r)'
    <3>1. snapshot[c] # {}
      BY <1>1
    <3>2. PICK r \in Routes : LookedAtLast(c, r) /\ Spoke(c, r)
      BY <1>4, <2>2, <3>1 DEF Solo, Collecting
    <3>3. CASE i = <<r, c>>
      <4>1. Told(c)'
        BY <1>3, <1>11, <1>a, <3>2, <3>3 DEF Told
      <4>2. snapshot'[c] = {}
        BY <1>1, <1>4, <3>2, <3>3 DEF LookedAtLast
      <4> QED BY <4>1, <4>2
    <3>4. CASE i # <<r, c>>
      <4>1. LookedAtLast(c, r)'
        BY <1>4, <3>2, <3>4 DEF LookedAtLast
      <4> QED BY <1>14, <3>2, <4>1
    <3> QED BY <3>3, <3>4
  <2> QED BY <1>4, <2>1, <2>2 DEF Collecting
<1> QED BY <1>12, <1>13, <1>15, <1>16 DEF Solo

(***************************************************************************)
(* Who has not been accepted, an unserved process, and who is alone.       *)
(***************************************************************************)
SoloInv ==
  /\ \A c \in Conns : Unrun(c)
  /\ Quiet
  /\ \A c \in Conns : alone[c] /\ Served(c) => Solo(c)

\* A step of a thread keeps SoloInv.
LEMMA SoloStep ==
  ASSUME RouterAssumption, CacheInv, SoloInv, NEW c \in Conns, Moves(c)
  PROVE  SoloInv'
<1>1. \A d \in Conns : Unrun(d)'
  BY UnrunStep DEF SoloInv
<1>2. Quiet'
  BY QuietStep DEF SoloInv
<1>3. ASSUME NEW d \in Conns, (alone[d] /\ Served(d))'
      PROVE  Solo(d)'
  <2>1. d = c
    BY <1>3, OnlyItsOwn DEF SoloInv
  <2>2. CASE \E p \in Paths : Accept(c, p)
    BY <1>3, <2>1, <2>2, AcceptIsSolo DEF SoloInv
  <2>3. CASE AcceptProbe(c)
    <3>1. ~alone'[c]
      BY <2>3 DEF AcceptProbe
    <3> QED BY <1>3, <2>1, <3>1
  <2>4. CASE Close(c)
    <3>1. ~Served(c)'
      BY <2>4 DEF CacheInv, TypeOK, Close, Goes, Served
    <3> QED BY <1>3, <2>1, <3>1
  <2>5. CASE ~((\E p \in Paths : Accept(c, p)) \/ AcceptProbe(c) \/ Close(c))
    <3>1. alone[c] /\ Served(c)
      BY <1>3, <2>1, <2>5 DEF CacheInv, TypeOK, Moves, Match, FallBack, Raise, LookUp, RecordRequest,
         RecordInteraction, Snapshot, Collect, Send, Goes, Served
    <3>2. Solo(c)
      BY <3>1 DEF SoloInv
    <3> QED
      BY <2>1, <2>5, <3>2, MatchIsSolo, WayIsSolo, LookUpIsSolo, RequestIsSolo,
         InteractionIsSolo, SnapshotIsSolo, CollectIsSolo DEF Moves
  <2> QED BY <2>2, <2>3, <2>4, <2>5
<1> QED BY <1>1, <1>2, <1>3 DEF SoloInv

\* Nobody is served at the start.
LEMMA InitSolo ==
  ASSUME RouterAssumption, Init
  PROVE  SoloInv
<1>1. \A c \in Conns : Unrun(c)
  <2> SUFFICES ASSUME NEW c \in Conns
               PROVE  Unrun(c)
    OBVIOUS
  <2>1. \A r \in Routes : /\ <<r, c>> \in Instances /\ <<r, c>> # None
                          /\ \A x \in Conns : <<<<r, c>>, x>> \in Profiles
    BY DEF Instances, Profiles, RouterAssumption
  <2> QED BY <2>1 DEF Init, Unrun, RouterAssumption
<1>2. Quiet
  BY DEF Init, Quiet
<1>3. \A c \in Conns : ~Served(c)
  BY DEF Init, Served
<1> QED BY <1>1, <1>2, <1>3 DEF SoloInv

(***************************************************************************)
(* A connection served while no other was reports exactly its own request  *)
(* and, if a handler answered it, its own interaction: neither what an     *)
(* earlier connection of its address left behind nor less than it did.     *)
(***************************************************************************)
THEOREM AloneReportsItselfHolds ==
  ASSUME RouterAssumption
  PROVE  Init /\ [][Next]_vars => []AloneReportsItself
<1>1. Init => SoloInv
  BY InitSolo
<1>2. CacheInv /\ SoloInv /\ [Next]_vars => SoloInv'
  <2>1. SoloInv /\ UNCHANGED vars => SoloInv'
    <3> SUFFICES ASSUME SoloInv, UNCHANGED vars
                 PROVE  SoloInv'
      OBVIOUS
    <3>1. \A c \in Conns : Unrun(c)' = Unrun(c)
      BY DEF vars, Unrun
    <3>2. Quiet' = Quiet /\ \A c \in Conns : Served(c)' = Served(c) /\ alone'[c] = alone[c]
      BY DEF vars, Quiet, Served
    <3>3. \A c \in Conns : Solo(c)' = Solo(c)
      BY DEF vars, Solo, OwnOnly, Silent, Dispatching, Collecting, Spoke, Served, Latest,
             LookedAtLast, Told, Kept
    <3> QED BY <3>1, <3>2, <3>3 DEF SoloInv
  <2>2. Next => UNCHANGED vars \/ \E c \in Conns : Moves(c)
    BY DEF Next, Gone, Moves
  <2> QED BY <2>1, <2>2, SoloStep
<1>3. SoloInv => AloneReportsItself
  <2> SUFFICES ASSUME SoloInv, NEW c \in Conns, Reported(c), alone[c]
               PROVE  /\ Requests(c) \subseteq {c}
                      /\ Interactions(c) = IF answered[c] THEN {c} ELSE {}
    BY DEF AloneReportsItself
  <2>1. Solo(c) /\ pc[c] = "reply"
    BY DEF SoloInv, Reported, Served
  <2>2. Requests(c) \subseteq {c} /\ Interactions(c) \subseteq {c}
    BY <2>1 DEF Solo, OwnOnly, Requests, Interactions
  <2>3. answered[c] => c \in Interactions(c)
    BY <2>1 DEF Solo, Collecting, Told, Interactions
  <2>4. ~answered[c] => Interactions(c) = {}
    BY <2>1 DEF Solo, Silent, Interactions
  <2> QED BY <2>2, <2>3, <2>4
<1> QED BY <1>1, <1>2, <1>3, CacheInvHolds, PTL
=============================================================================
