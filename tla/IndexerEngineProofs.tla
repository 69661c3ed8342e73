------------------------- MODULE IndexerEngineProofs -------------------------
(***************************************************************************)
(* The steps of the two indexing loops from the fetch of a batch on keep   *)
(* the invariant of IndexerEngineInvariant, and what follows from it.      *)
(***************************************************************************)
EXTENDS IndexerEngineInvariant

LEMMA RewindIInv ==
  ASSUME IInv, Rewind PROVE IInv'
<1> USE DEF IInv
<1> DEFINE l == "engine"
           f == frame[l]
           g == [f EXCEPT !.at = "fetch", !.next = f.fork, !.fork = 0]
<1>0. /\ At(l, "rewind") /\ Moves(l, g) /\ cursor' = f.fork - 1
      /\ history' = Truncate(history, f.fork)
      /\ UNCHANGED <<external, events, dedup, counts>>
  BY Zenon DEF Rewind
<1>1. l \in Loops /\ f \in Frame /\ f.at = "rewind" /\ Placement(l)
  BY <1>0, FrameTyped, Zenon DEF Loops, At, Placements
<1>2. f.fork \in 1..Len(chain) /\ f.total = 0 /\ Len(chain) \in Nat /\ Len(chain) <= MaxLedgers
  BY <1>1 DEF Placement, TypeOK
<1>3. /\ g \in Frame /\ g.at = "fetch" /\ g.hash = f.hash
      /\ g.next = f.fork /\ g.total = 0
  <2>1. f.fork \in 0..MaxLedgers + 1 /\ 0 \in 0..MaxLedgers
    BY <1>2, BoundsAssumption
  <2>2. g \in Frame
    BY <1>1, <2>1, FrameChanges, Zenon
  <2>3. g.at = "fetch" /\ g.hash = f.hash /\ g.next = f.fork /\ g.total = f.total
    BY <1>1, Zenon DEF Frame
  <2> QED
    BY <1>2, <2>2, <2>3, Zenon
<1> HIDE DEF l, g
<1>4. frame'[l] = g
  BY <1>0, <1>1, <1>3, FrameMoves, Zenon
<1>5. Placement(l)'
  BY <1>0, <1>2, <1>3, <1>4 DEF Placement, Working, Before, external
<1>6. ~Undisturbed'
  BY <1>0, <1>1, Zenon DEF Undisturbed, Covered, Known, external, counts
<1>7. DOMAIN history' \subseteq 1..Len(chain) /\ \A i \in DOMAIN history' : history'[i] \in 0..reorgs
  <2>1. \A i \in DOMAIN history : i \in 1..Len(chain) /\ history[i] \in 0..reorgs
    BY ChainTyped DEF HashesPast
  <2>2. DOMAIN history' \subseteq DOMAIN history /\ \A i \in DOMAIN history' : history'[i] = history[i]
    BY <1>0, Zenon DEF Truncate, Restrict
  <2> QED
    BY <2>1, <2>2, Zenon
<1>8. /\ events' \subseteq [txn: Txns, ledger: 1..Len(chain)]
      /\ dedup' \in [Loops -> SUBSET Txns] /\ UNCHANGED external /\ l = "engine"
      /\ \A m \in Loops : m # l => dedup'[m] = dedup[m]
      /\ cursor' \in 0..Len(chain)
      /\ faults' \in 0..MaxFaults /\ skips' \in 0..MaxSkips /\ crashes' \in 0..MaxCrashes
      /\ \A i \in DOMAIN g.hash : g.hash[i] <= reorgs
  BY <1>0, <1>1, <1>2, <1>3, SMTT(30) DEF TypeOK, counts, HashesPast, l
<1> QED
  BY <1>0, <1>1, <1>3, <1>5, <1>6, <1>7, <1>8, LoopIInv, Zenon
-----------------------------------------------------------------------------
LEMMA FetchedFrame ==
  ASSUME NEW f \in Frame, NEW last \in 0..MaxLedgers, NEW total \in 0..MaxLedgers,
         NEW full \in BOOLEAN, NEW hash \in Hashes
  PROVE  [f EXCEPT !.at = "ledger", !.last = last, !.total = total, !.full = full,
                   !.hash = hash] \in Frame
BY Zenon DEF Frame

(* A batch is part of the chain, and the engine keeps its hashes. *)
LEMMA FetchLedgersIInv ==
  ASSUME IInv, NEW l \in Loops, FetchLedgers(l) PROVE IInv'
<1> USE DEF IInv
<1> DEFINE f == frame[l]
           last == Smaller(f.next + Limit(l) - 1, Len(chain))
           fetched == last - f.next + 1
           hash == IF l = "engine" THEN [i \in f.next..last |-> chain[i].hash] ELSE <<>>
           full == (fetched = Limit(l))
           g == [f EXCEPT !.at = "ledger", !.last = last, !.total = @ + fetched,
                          !.full = full, !.hash = hash]
<1>0. /\ At(l, "fetch") /\ UNCHANGED <<external, tables, dedup, history, counts>>
      /\ IF fetched <= 0 THEN Moves(l, Asleep) ELSE Moves(l, g)
  BY Zenon DEF FetchLedgers
<1>1. /\ f \in Frame /\ f.at = "fetch" /\ Placement(l)
      /\ f.next \in Nat /\ f.total \in Nat /\ f.next \in 1..Len(chain) + 1 /\ f.total < f.next
  BY <1>0, FrameTyped, ChainTyped DEF At, Placements, Placement, Before
<1>2. /\ events' \subseteq [txn: Txns, ledger: 1..Len(chain)] /\ events' = events
      /\ dedup' \in [Loops -> SUBSET Txns] /\ UNCHANGED external /\ history' = history
      /\ dedup' = dedup /\ cursor' \in 0..Len(chain)
      /\ faults' \in 0..MaxFaults /\ skips' \in 0..MaxSkips /\ crashes' \in 0..MaxCrashes
  BY <1>0, Zenon DEF TypeOK, tables, counts
<1>3. Undisturbed' => Undisturbed /\ NothingLost' /\ Covered(l)
  BY <1>0, RowsSame, Zenon DEF Undisturbed, NothingLost, tables, external, counts
<1>4. CASE fetched <= 0
  <2>1. Moves(l, Asleep) /\ UNCHANGED <<external, events, dedup, history>>
    BY <1>0, <1>4, Zenon DEF tables
  <2> QED
    BY <1>1, <1>2, <1>3, <2>1, AsleepIInv, Zenon
<1>5. CASE ~(fetched <= 0)
  <2>1. last \in 1..Len(chain) /\ f.next <= last /\ f.next..last \subseteq 1..MaxLedgers
    <3>1. Limit(l) \in Int
      BY FrameTyped, SizesAssumption DEF Limit, Smaller
    <3>2. last \in Int /\ last <= Len(chain)
      BY <1>1, <3>1, ChainTyped DEF Smaller
    <3>3. f.next <= last
      BY <1>1, <1>5, <3>2
    <3> QED
      BY <1>1, <3>2, <3>3, ChainTyped, BoundsAssumption, SMTT(30)
  <2> HIDE DEF last
  <2>2. hash \in Hashes /\ \A i \in DOMAIN hash : hash[i] <= reorgs
    <3>1. CASE l = "engine"
      <4>1. hash = [i \in f.next..last |-> chain[i].hash]
        BY <3>1, Zenon
      <4>2. \A i \in f.next..last : chain[i].hash \in 0..MaxReorgs /\ chain[i].hash <= reorgs
        <5>1. \A i \in f.next..last : i \in DOMAIN chain
          BY <1>1, <2>1, ChainTyped
        <5> QED
          BY <5>1, ChainTyped, Zenon DEF HashesPast, Ledger
      <4>3. hash \in [f.next..last -> 0..MaxReorgs]
        BY <4>1, <4>2, Zenon
      <4> QED
        BY <2>1, <4>1, <4>2, <4>3, Zenon DEF Hashes
    <3>2. CASE l # "engine"
      BY <3>2, NoHashes
    <3> QED
      BY <3>1, <3>2, Zenon
  <2>3. f.total + fetched \in 0..MaxLedgers /\ f.total + fetched <= last
    <3>1. last \in Int /\ f.next <= last /\ last <= MaxLedgers /\ MaxLedgers \in Int
      BY <2>1, ChainTyped, BoundsAssumption
    <3> HIDE DEF f
    <3> QED
      BY <1>1, <3>1
  <2>4. l = "engine" => f.next..last \subseteq DOMAIN hash
    BY Zenon
  <2> DEFINE total == f.total + fetched
  <2>5. g = [f EXCEPT !.at = "ledger", !.last = last, !.total = total, !.full = full,
                      !.hash = hash]
    BY Zenon
  <2>6. full \in BOOLEAN /\ last \in 0..MaxLedgers
    BY <2>1, ChainTyped, BoundsAssumption
  <2>7. Moves(l, g)
    BY <1>0, <1>5, Zenon
  <2> HIDE DEF hash, full, fetched, g, total
  <2>8. total \in 0..MaxLedgers /\ total <= last
    BY <2>3, Zenon DEF total
  <2>9. g \in Frame
    BY <1>1, <2>2, <2>5, <2>6, <2>8, FetchedFrame, Zenon
  <2>10. /\ g.at = "ledger" /\ g.last = last /\ g.total = total /\ g.hash = hash
         /\ g.next = f.next /\ g.txn = f.txn
    BY <1>1, <2>5, Zenon DEF Frame
  <2>11. frame'[l] = g
    BY <2>7, <2>9, FrameMoves, Zenon
  <2>12. Placement(l)'
    <3>1. chain' = chain
      BY <1>2, Zenon DEF external
    <3> QED
      BY <1>1, <2>1, <2>4, <2>8, <2>10, <2>11, <3>1 DEF Placement, Working, Before
  <2>13. ASSUME Undisturbed' PROVE Covered(l)'
    <3>1. Covered(l) /\ ChainRows' = ChainRows
      BY <1>2, <1>3, <2>13, RowsSame, Zenon DEF external
    <3>2. Below(l)' /\ Done(l)'
      BY <1>1, <1>2, <2>10, <2>11, <3>1, Zenon DEF Covered, Below, Done, Before
    <3>3. InHand(l)' /\ Known(l)'
      BY <1>1, <1>2, <2>10, <2>11, <3>1, Zenon DEF Covered, InHand, Known, Recorded
    <3> QED
      BY <3>2, <3>3, Zenon DEF Covered
  <2> QED
    BY <1>2, <1>3, <2>2, <2>7, <2>9, <2>10, <2>12, <2>13, LoopIInv, Zenon
<1> QED
  BY <1>4, <1>5, Zenon

LEMMA RecordTyped ==
  ASSUME IInv, NEW s \in 1..Len(chain), NEW x \in 0..reorgs
  PROVE  /\ DOMAIN Record(history, s, x) \subseteq 1..Len(chain)
         /\ \A i \in DOMAIN Record(history, s, x) : Record(history, s, x)[i] \in 0..reorgs
<1>1. \A i \in DOMAIN history : i \in 1..Len(chain) /\ history[i] \in 0..reorgs
  BY DEF IInv, TypeOK, HashesPast
<1> DEFINE h == [i \in DOMAIN history \cup {s} |-> IF i = s THEN x ELSE history[i]]
<1>2. \A i \in DOMAIN h : i \in 1..Len(chain) /\ h[i] \in 0..reorgs
  BY <1>1, Zenon
<1>3. Record(history, s, x)
      = Restrict(h, {i \in DOMAIN h : Cardinality({j \in DOMAIN h : j > i}) < Window})
  BY Zenon DEF Record
<1> HIDE DEF h
<1> QED
  BY <1>2, <1>3, Zenon DEF Restrict

(* The ledger in hand and its list: the whole ledger, or none of it. *)
LEMMA FetchTransactionsIInv ==
  ASSUME IInv, NEW l \in Loops, FetchTransactions(l) PROVE IInv'
<1> USE DEF IInv
<1> DEFINE f == frame[l]
<1>0. PICK ts \in SUBSET Txns :
        /\ Moves(l, [f EXCEPT !.at = "txns", !.todo = ts])
        /\ \/ ts = chain[f.next].txns /\ skips' = skips
           \/ skips < MaxSkips /\ skips' = skips + 1
  <2>1. f.at = "ledger" /\ f.next \in DOMAIN chain
    BY FrameTyped, ChainTyped DEF FetchTransactions, At, Placements, Placement, Working
  <2>2. chain[f.next].txns \in SUBSET Txns
    BY <2>1, ChainTyped, Zenon
  <2>3. \/ Moves(l, [f EXCEPT !.at = "txns", !.todo = chain[f.next].txns]) /\ skips' = skips
        \/ /\ Moves(l, [f EXCEPT !.at = "txns", !.todo = {}])
           /\ skips < MaxSkips /\ skips' = skips + 1
    BY Zenon DEF FetchTransactions
  <2>4. CASE Moves(l, [f EXCEPT !.at = "txns", !.todo = chain[f.next].txns]) /\ skips' = skips
    BY <2>2, <2>4, Zenon
  <2>5. CASE /\ Moves(l, [f EXCEPT !.at = "txns", !.todo = {}])
             /\ skips < MaxSkips /\ skips' = skips + 1
    <3>1. {} \in SUBSET Txns
      BY Zenon
    <3> QED
      BY <2>5, <3>1, Zenon
  <2> QED
    BY <2>3, <2>4, <2>5, Zenon
<1>1. /\ f.at = "ledger" /\ UNCHANGED <<external, tables, dedup, faults, crashes>>
      /\ history' = IF l = "engine" THEN Record(history, f.next, f.hash[f.next]) ELSE history
  BY Zenon DEF FetchTransactions, At
<1>2. f \in Frame /\ Placement(l) /\ f.next \in 1..Len(chain)
  BY <1>1, FrameTyped, ChainTyped DEF Placements, Placement, Working
<1> DEFINE g == [f EXCEPT !.at = "txns", !.todo = ts]
<1>3. /\ g \in Frame /\ g.at = "txns" /\ g.todo = ts /\ g.hash = f.hash /\ g.next = f.next
      /\ g.last = f.last /\ g.total = f.total /\ g.txn = f.txn
  BY <1>2, Zenon DEF Frame
<1>4. Moves(l, g)
  BY <1>0, Zenon
<1> HIDE DEF g
<1>5. frame'[l] = g
  BY <1>3, <1>4, FrameMoves, Zenon
<1>6. /\ events' \subseteq [txn: Txns, ledger: 1..Len(chain)] /\ events' = events
      /\ dedup' \in [Loops -> SUBSET Txns] /\ UNCHANGED external
      /\ dedup' = dedup /\ cursor' \in 0..Len(chain)
      /\ faults' \in 0..MaxFaults /\ skips' \in 0..MaxSkips /\ crashes' \in 0..MaxCrashes
      /\ \A i \in DOMAIN g.hash : g.hash[i] <= reorgs
  BY <1>0, <1>1, <1>3, BoundsAssumption, SMTT(30) DEF TypeOK, tables, HashesPast
<1>7. history' = history
      \/ /\ l = "engine" /\ DOMAIN history' \subseteq 1..Len(chain)
         /\ \A i \in DOMAIN history' : history'[i] \in 0..reorgs
  <2>1. CASE l = "engine"
    <3>1. f.next \in DOMAIN f.hash
      BY <1>1, <1>2, <2>1, FrameTyped DEF Placement, Working
    <3>2. f.hash[f.next] \in 0..MaxReorgs
      BY <3>1, FrameTyped DEF Hashes
    <3>3. f.hash[f.next] \in 0..reorgs
      BY <3>1, <3>2 DEF HashesPast, TypeOK
    <3> QED
      BY <1>1, <1>2, <2>1, <3>3, RecordTyped, Zenon
  <2>2. CASE l # "engine"
    BY <1>1, <2>2, Zenon
  <2> QED
    BY <2>1, <2>2, Zenon
<1>8. Placement(l)'
  <2>1. chain' = chain
    BY <1>6, Zenon DEF external
  <2> QED
    BY <1>1, <1>2, <1>3, <1>5, <2>1, Zenon DEF Placement, Working, Before
<1>9. ASSUME Undisturbed' PROVE Undisturbed /\ NothingLost' /\ Covered(l)'
  <2>1. Undisturbed /\ ts = chain[f.next].txns
    BY <1>0, <1>6, <1>9 DEF Undisturbed, external, TypeOK
  <2>2. NothingLost' /\ ChainRows' = ChainRows /\ chain' = chain /\ Covered(l)
    BY <1>1, <2>1, RowsSame, Zenon DEF Undisturbed, NothingLost, tables, external
  <2>3. Below(l)' /\ Done(l)'
    BY <1>1, <1>3, <1>5, <1>6, <2>2, Zenon DEF Covered, Below, Done, Working
  <2>4. InHand(l)' /\ Known(l)'
    BY <1>1, <1>3, <1>5, <1>6, <2>1, <2>2, Zenon DEF Covered, InHand, Known, Recorded
  <2> QED
    BY <2>1, <2>2, <2>3, <2>4, Zenon DEF Covered
<1> QED
  BY <1>3, <1>4, <1>6, <1>7, <1>8, <1>9, LoopIInv, Zenon

LEMMA DispatchedFrame ==
  ASSUME NEW f \in Frame, NEW where \in {"persist", "txns"}, NEW ts \in SUBSET Txns,
         NEW t \in Txns \cup {NoTxn}
  PROVE  [f EXCEPT !.at = where, !.todo = ts, !.txn = t] \in Frame
BY Zenon DEF Frame

(* A transaction leaves the list for the deduplicator and the log; when it *)
(* goes neither way an error was stepped over.                             *)
LEMMA DispatchIInv ==
  ASSUME IInv, NEW l \in Loops, NEW t \in Txns, Dispatch(l, t) PROVE IInv'
<1> USE DEF IInv
<1> DEFINE f == frame[l]
           g(where) == [f EXCEPT !.at = where, !.todo = @ \ {t},
                                 !.txn = IF where = "persist" THEN t ELSE NoTxn]
<1>0. /\ f.at = "txns" /\ t \in f.todo /\ t \notin dedup[l]
      /\ dedup' = [dedup EXCEPT ![l] = @ \cup {t}]
      /\ UNCHANGED <<external, tables, history, faults, crashes>>
      /\ \/ Moves(l, g("persist")) /\ skips' = skips
         \/ skips < MaxSkips /\ skips' = skips + 1 /\ (Moves(l, g("persist")) \/ Moves(l, g("txns")))
  BY Zenon DEF Dispatch, At
<1>1. f \in Frame /\ Placement(l) /\ f.todo \subseteq Txns
  BY FrameTyped, Zenon DEF Placements
<1>2. PICK where \in {"persist", "txns"} :
        Moves(l, g(where)) /\ ((skips' = skips /\ where = "persist") \/ (skips' = skips + 1 /\ skips < MaxSkips))
  BY <1>0, Zenon
<1> DEFINE h == g(where)
<1>3. h \in Frame
  <2>1. f.todo \ {t} \in SUBSET Txns /\ (IF where = "persist" THEN t ELSE NoTxn) \in Txns \cup {NoTxn}
    BY <1>1, Zenon
  <2> QED
    BY <1>1, <2>1, DispatchedFrame, Zenon
<1>4. /\ h.at = where /\ h.todo = f.todo \ {t} /\ h.next = f.next /\ h.last = f.last
      /\ h.total = f.total /\ h.hash = f.hash
      /\ h.txn = IF where = "persist" THEN t ELSE NoTxn
  BY <1>1, Zenon DEF Frame
<1>5. Moves(l, h)
  BY <1>2, Zenon
<1> HIDE DEF h, g
<1>6. frame'[l] = h
  BY <1>3, <1>5, FrameMoves, Zenon
<1>7. /\ events' \subseteq [txn: Txns, ledger: 1..Len(chain)] /\ events' = events
      /\ dedup' \in [Loops -> SUBSET Txns] /\ UNCHANGED external /\ history' = history
      /\ cursor' \in 0..Len(chain)
      /\ faults' \in 0..MaxFaults /\ skips' \in 0..MaxSkips /\ crashes' \in 0..MaxCrashes
      /\ \A i \in DOMAIN h.hash : h.hash[i] <= reorgs
  BY <1>0, <1>2, <1>4, BoundsAssumption, SMTT(30) DEF TypeOK, tables, HashesPast
<1>8. dedup'[l] = dedup[l] \cup {t} /\ \A m \in Loops : m # l => dedup'[m] = dedup[m]
  BY <1>0, Zenon DEF TypeOK
<1>9. Placement(l)'
  <2>1. chain' = chain
    BY <1>7, Zenon DEF external
  <2> QED
    BY <1>0, <1>1, <1>4, <1>6, <2>1, Zenon DEF Placement, Working, Before
<1>10. ASSUME Undisturbed' PROVE Undisturbed /\ NothingLost' /\ Covered(l)'
  <2>1. Undisturbed /\ where = "persist"
    BY <1>2, <1>7, <1>10 DEF Undisturbed, external, TypeOK
  <2>2. NothingLost' /\ ChainRows' = ChainRows /\ chain' = chain /\ Covered(l)
    BY <1>0, <2>1, RowsSame, Zenon DEF Undisturbed, NothingLost, tables, external
  <2>3. Below(l)' /\ Done(l)'
    BY <1>0, <1>4, <1>6, <1>7, <2>1, <2>2, Zenon DEF Covered, Below, Done, Working
  <2>4. InHand(l)'
    <3>1. f.next \in DOMAIN chain /\ chain[f.next].txns \subseteq Txns
      BY <1>0, <1>1, ChainTyped DEF Placement, Working, Ledger, Frame
    <3>2. /\ f.todo \subseteq chain[f.next].txns
          /\ \A u \in chain[f.next].txns : u \in f.todo \cup Recorded
      BY <1>0, <2>2, <3>1, TxnsAssumption, Zenon DEF Covered, InHand, Known
    <3>3. Recorded' = Recorded /\ h.txn = t
      BY <1>4, <1>7, <2>1, Zenon DEF Recorded
    <3> QED
      BY <1>0, <1>4, <1>6, <2>1, <2>2, <3>2, <3>3, Zenon DEF InHand
  <2>5. Known(l)'
    <3>1. \A u \in dedup[l] : u \in Recorded
      BY <1>0, <2>2, TxnsAssumption DEF Covered, Known, TypeOK
    <3> QED
      BY <1>4, <1>6, <1>7, <1>8, <2>1, <3>1, Zenon DEF Known, Recorded
  <2> QED
    BY <2>1, <2>2, <2>3, <2>4, <2>5, Zenon DEF Covered
<1> QED
  BY <1>3, <1>5, <1>7, <1>8, <1>9, <1>10, LoopIInv, Zenon

(* The row is written under the ledger in hand. *)
LEMMA PersistIInv ==
  ASSUME IInv, NEW l \in Loops, PersistContractEvent(l) PROVE IInv'
<1> USE DEF IInv
<1> DEFINE f == frame[l]
           g == [f EXCEPT !.at = "txns", !.txn = NoTxn]
           row == [txn |-> f.txn, ledger |-> f.next]
<1>0. /\ f.at = "persist" /\ Moves(l, g)
      /\ UNCHANGED <<external, cursor, dedup, history, faults, crashes>>
      /\ \/ events' = (IF f.txn \in Recorded THEN events ELSE events \cup {row}) /\ skips' = skips
         \/ skips < MaxSkips /\ skips' = skips + 1 /\ events' = events
  BY Zenon DEF PersistContractEvent, At
<1>1. /\ f \in Frame /\ Placement(l) /\ f.next \in 1..Len(chain) /\ f.txn \in Txns
  BY <1>0, FrameTyped, ChainTyped DEF Placements, Placement, Working
<1>2. /\ g \in Frame /\ g.at = "txns" /\ g.todo = f.todo /\ g.next = f.next /\ g.last = f.last
      /\ g.total = f.total /\ g.hash = f.hash /\ g.txn = NoTxn
  BY <1>1, Zenon DEF Frame
<1> HIDE DEF g
<1>3. frame'[l] = g
  BY <1>0, <1>2, FrameMoves, Zenon
<1>4. events' \subseteq [txn: Txns, ledger: 1..Len(chain)] /\ events \subseteq events'
  BY <1>0, <1>1 DEF TypeOK
<1>5. /\ dedup' \in [Loops -> SUBSET Txns] /\ UNCHANGED external /\ history' = history
      /\ dedup' = dedup /\ cursor' \in 0..Len(chain)
      /\ faults' \in 0..MaxFaults /\ skips' \in 0..MaxSkips /\ crashes' \in 0..MaxCrashes
      /\ \A i \in DOMAIN g.hash : g.hash[i] <= reorgs
  BY <1>0, <1>2, BoundsAssumption, SMTT(30) DEF TypeOK, HashesPast
<1>6. Placement(l)'
  <2>1. chain' = chain
    BY <1>5, Zenon DEF external
  <2> QED
    BY <1>0, <1>1, <1>2, <1>3, <2>1, Zenon DEF Placement, Working, Before
<1>7. ASSUME Undisturbed' PROVE Undisturbed /\ NothingLost' /\ Covered(l)'
  <2>1. /\ Undisturbed /\ chain' = chain /\ ChainRows' = ChainRows /\ Covered(l)
        /\ events' = IF f.txn \in Recorded THEN events ELSE events \cup {row}
    BY <1>0, <1>7, RowsSame DEF Undisturbed, external, TypeOK
  <2>2. row \in ChainRows
    BY <1>0, <1>1, <2>1, ChainTyped, Zenon DEF Covered, InHand, ChainRows, OnChain
  <2>3. NothingLost'
    BY <1>0, <2>1, <2>2, Zenon DEF NothingLost, Undisturbed
  <2>4. f.txn \in Recorded' /\ Recorded \subseteq Recorded'
    <3>1. Recorded \subseteq Recorded'
      BY <1>4, Zenon DEF Recorded
    <3>2. row.txn = f.txn /\ (f.txn \notin Recorded => row \in events')
      BY <2>1, Zenon
    <3> QED
      BY <3>1, <3>2, Zenon DEF Recorded
  <2>5. Below(l)' /\ Done(l)'
    BY <1>0, <1>2, <1>3, <1>4, <2>1, Zenon DEF Covered, Below, Done, Working
  <2>6. InHand(l)' /\ Known(l)'
    BY <1>0, <1>2, <1>3, <1>5, <2>1, <2>4, Zenon DEF Covered, InHand, Known
  <2> QED
    BY <2>1, <2>3, <2>5, <2>6, Zenon DEF Covered
<1> QED
  BY <1>0, <1>2, <1>4, <1>5, <1>6, <1>7, LoopIInv, Zenon

LEMMA StepFrame ==
  ASSUME NEW f \in Frame, NEW where \in {"ledger", "advance", "fetch"}, NEW n \in 0..MaxLedgers + 1
  PROVE  /\ [f EXCEPT !.at = where, !.next = n, !.todo = {}] \in Frame
         /\ [f EXCEPT !.at = where, !.next = n] \in Frame
         /\ [f EXCEPT !.at = where, !.todo = {}] \in Frame
BY Zenon DEF Frame

(* The list is gone through: all of the ledger is in the log. *)
LEMMA EndLedgerIInv ==
  ASSUME IInv, NEW l \in Loops, EndLedger(l) PROVE IInv'
<1> USE DEF IInv
<1> DEFINE f == frame[l]
           more == l = "engine" /\ f.next < f.last
           g == IF more THEN [f EXCEPT !.at = "ledger", !.next = @ + 1, !.todo = {}]
                ELSE [f EXCEPT !.at = "advance", !.todo = {}]
<1>0. /\ f.at = "txns" /\ f.todo \subseteq dedup[l] /\ Moves(l, g)
      /\ UNCHANGED <<external, tables, dedup, history, counts>>
  BY Zenon DEF EndLedger, At
<1>1. /\ f \in Frame /\ Placement(l) /\ f.next \in 1..Len(chain) /\ f.last \in 1..Len(chain)
      /\ f.next <= f.last /\ f.next \in DOMAIN chain /\ chain[f.next].txns \subseteq Txns
  BY <1>0, FrameTyped, ChainTyped DEF Placements, Placement, Working, Ledger
<1>2. f.next + 1 \in 0..MaxLedgers + 1
  BY <1>1, ChainTyped, BoundsAssumption, SMTT(40)
<1>3. g \in Frame
  BY <1>1, <1>2, StepFrame, Zenon
<1>4. /\ g.at = (IF more THEN "ledger" ELSE "advance")
      /\ g.next = (IF more THEN f.next + 1 ELSE f.next)
      /\ g.last = f.last /\ g.total = f.total /\ g.hash = f.hash /\ g.txn = f.txn
  BY <1>1, Zenon DEF Frame
<1> HIDE DEF g
<1>5. frame'[l] = g
  BY <1>0, <1>3, FrameMoves, Zenon
<1>6. /\ events' \subseteq [txn: Txns, ledger: 1..Len(chain)] /\ events' = events
      /\ dedup' \in [Loops -> SUBSET Txns] /\ dedup' = dedup
      /\ UNCHANGED external /\ history' = history /\ cursor' \in 0..Len(chain)
      /\ faults' \in 0..MaxFaults /\ skips' \in 0..MaxSkips /\ crashes' \in 0..MaxCrashes
      /\ \A i \in DOMAIN g.hash : g.hash[i] <= reorgs
  BY <1>0, <1>4, Zenon DEF TypeOK, tables, counts, HashesPast
<1>7. Placement(l)'
  <2>1. chain' = chain
    BY <1>6, Zenon DEF external
  <2>2. f.total \in Int /\ f.total <= f.last /\ (l = "engine" => f.next..f.last \subseteq DOMAIN f.hash)
    BY <1>0, <1>1, FrameTyped DEF Placement, Working
  <2>3. l = "engine" => g.next..g.last \subseteq DOMAIN g.hash
    BY <1>1, <1>4, <2>2
  <2>4. 1 <= g.next /\ g.next <= g.last /\ g.last <= Len(chain) /\ g.total <= g.last
    BY <1>1, <1>4, <2>2, ChainTyped
  <2> QED
    BY <1>4, <1>5, <2>1, <2>3, <2>4, Zenon DEF Placement, Working, Before
<1>8. ASSUME Undisturbed' PROVE Undisturbed /\ NothingLost' /\ Covered(l)'
  <2>1. Undisturbed /\ NothingLost' /\ ChainRows' = ChainRows /\ chain' = chain /\ Covered(l)
    BY <1>0, <1>8, RowsSame, Zenon DEF Undisturbed, NothingLost, tables, external, counts
  <2>2. \A t \in chain[f.next].txns : t \in Recorded
    BY <1>0, <1>1, <2>1, TxnsAssumption, ZenonT(40) DEF Covered, InHand, Known
  <2>3. ASSUME NEW r \in ChainRows, r.ledger = f.next PROVE r \in events
    <3>1. r.txn \in chain[f.next].txns /\ r = [txn |-> r.txn, ledger |-> f.next]
      BY <2>3, Zenon DEF ChainRows, OnChain
    <3>2. PICK e \in events : e.txn = r.txn
      BY <2>2, <3>1, Zenon DEF Recorded
    <3>3. e \in ChainRows
      BY <2>1, <3>2, Zenon DEF NothingLost, Undisturbed
    <3>4. e.ledger \in DOMAIN chain /\ e.txn \in chain[e.ledger].txns /\ e = [txn |-> e.txn, ledger |-> e.ledger]
      BY <3>3, Zenon DEF ChainRows, OnChain
    <3>5. e.ledger = f.next
      BY <1>1, <3>1, <3>2, <3>4, Zenon DEF OneLedger
    <3> QED
      BY <3>1, <3>2, <3>4, <3>5, Zenon
  <2>4. \A r \in ChainRows : r.ledger \in Int /\ (r.ledger < f.next => r \in events)
    BY <1>0, <2>1, ChainTyped DEF Covered, Below, Working, ChainRows, OnChain
  <2>5. Below(l)' /\ Done(l)'
    BY <1>1, <1>4, <1>5, <1>6, <2>1, <2>3, <2>4, SMTT(40) DEF Below, Done, Working, Before
  <2>6. InHand(l)' /\ Known(l)'
    BY <1>0, <1>4, <1>5, <1>6, <2>1, Zenon DEF Covered, InHand, Known, Recorded
  <2> QED
    BY <2>1, <2>5, <2>6, Zenon DEF Covered
<1> QED
  BY <1>0, <1>3, <1>6, <1>7, <1>8, LoopIInv, Zenon

(* The cursor moves to the ledger in hand, all of which is in the log. *)
LEMMA UpdateCursorIInv ==
  ASSUME IInv, NEW l \in Loops, UpdateCursor(l) PROVE IInv'
<1> USE DEF IInv
<1> DEFINE f == frame[l]
           n == f.next + 1
           g == IF f.next < f.last THEN [f EXCEPT !.at = "ledger", !.next = n]
                ELSE [f EXCEPT !.at = "fetch", !.next = n]
<1>0. /\ f.at = "advance" /\ cursor' = Larger(cursor, f.next)
      /\ UNCHANGED <<external, events, dedup, history, counts>>
      /\ Moves(l, Asleep) \/ (l # "engine" /\ Moves(l, g))
  BY Zenon DEF UpdateCursor, At
<1>1. /\ f \in Frame /\ Placement(l) /\ f.next \in 1..Len(chain) /\ f.last \in 1..Len(chain)
      /\ f.next <= f.last /\ f.total \in Int /\ f.total <= f.last /\ cursor \in 0..Len(chain)
  <2>1. /\ f \in Frame /\ Placement(l) /\ f.next \in Int /\ f.last \in Int /\ f.total \in Int
        /\ cursor \in 0..Len(chain) /\ Len(chain) \in Nat
    <3>1. Placement(l) /\ cursor \in 0..Len(chain)
      BY Zenon DEF Placements, TypeOK
    <3> QED
      BY <3>1, FrameTyped, ChainTyped
  <2>2. 1 <= f.next /\ f.next <= f.last /\ f.last <= Len(chain) /\ f.total <= f.last
    BY <1>0, <2>1, Zenon DEF Placement, Working
  <2> QED
    BY <2>1, <2>2
<1>2. /\ cursor' \in 0..Len(chain) /\ cursor' \in {cursor, f.next}
      /\ n \in 0..MaxLedgers + 1 /\ n \in Int
  <2>1. cursor' \in {cursor, f.next}
    BY <1>0, Zenon DEF Larger
  <2>2. Len(chain) \in Nat /\ Len(chain) <= MaxLedgers /\ MaxLedgers \in Nat
    BY ChainTyped, BoundsAssumption, Zenon
  <2> HIDE DEF IInv
  <2> QED
    BY <1>1, <2>1, <2>2
<1>3. ASSUME Undisturbed' PROVE Undisturbed /\ NothingLost' /\ ChainRows' = ChainRows /\ Covered(l)
  <2>1. Undisturbed /\ ChainRows' = ChainRows /\ Covered(l) /\ events' = events
    BY <1>0, <1>3, RowsSame, Zenon DEF Undisturbed, external, counts
  <2>2. \A r \in ChainRows : r.ledger \in Int /\ (r.ledger <= f.next => r \in events)
    BY <1>0, <1>1, <2>1, ChainTyped DEF Covered, Below, Done, Working, ChainRows, OnChain
  <2> QED
    BY <1>2, <2>1, <2>2, Zenon DEF NothingLost, Undisturbed
<1>4. /\ events' \subseteq [txn: Txns, ledger: 1..Len(chain)] /\ events' = events
      /\ dedup' \in [Loops -> SUBSET Txns] /\ dedup' = dedup
      /\ UNCHANGED external /\ history' = history
      /\ faults' \in 0..MaxFaults /\ skips' \in 0..MaxSkips /\ crashes' \in 0..MaxCrashes
  BY <1>0, Zenon DEF TypeOK, counts
<1>5. CASE Moves(l, Asleep)
  BY <1>0, <1>2, <1>3, <1>4, <1>5, AsleepIInv, Zenon
<1>6. CASE l # "engine" /\ Moves(l, g)
  <2>1. g \in Frame
    BY <1>1, <1>2, StepFrame, Zenon
  <2>2. /\ g.at = (IF f.next < f.last THEN "ledger" ELSE "fetch") /\ g.next = n
        /\ g.last = f.last /\ g.total = f.total /\ g.hash = f.hash /\ g.txn = f.txn
    BY <1>1, Zenon DEF Frame
  <2> HIDE DEF g
  <2>3. frame'[l] = g
    BY <1>6, <2>1, FrameMoves, Zenon
  <2>4. Placement(l)'
    <3>1. chain' = chain /\ 1 <= n /\ n <= Len(chain) + 1 /\ (f.next < f.last => n <= f.last)
          /\ (~(f.next < f.last) => f.total < n)
      <4>1. chain' = chain /\ Len(chain) \in Nat
        BY <1>4, ChainTyped, Zenon DEF external
      <4> HIDE DEF IInv
      <4> QED
        BY <1>1, <4>1, SMTT(30)
    <3> HIDE DEF n
    <3> QED
      BY <1>1, <1>6, <2>2, <2>3, <3>1 DEF Placement, Working, Before
  <2>5. ASSUME Undisturbed' PROVE Covered(l)'
    <3>1. Covered(l) /\ ChainRows' = ChainRows
      BY <1>3, <2>5, Zenon
    <3>2. \A r \in ChainRows : r.ledger \in Int /\ (r.ledger < n => r \in events)
      BY <1>0, <1>1, <3>1, ChainTyped, SMTT(40) DEF Covered, Below, Done, Working, ChainRows, OnChain
    <3>3. Below(l)' /\ Done(l)'
      BY <1>4, <2>2, <2>3, <3>1, <3>2, Zenon DEF Below, Done
    <3>4. InHand(l)' /\ Known(l)'
      BY <1>0, <1>4, <2>2, <2>3, <3>1, Zenon DEF Covered, InHand, Known, Recorded
    <3> QED
      BY <3>3, <3>4, Zenon DEF Covered
  <2>6. \A i \in DOMAIN g.hash : g.hash[i] <= reorgs
    BY <2>2, Zenon DEF HashesPast
  <2> QED
    BY <1>2, <1>3, <1>4, <1>6, <2>1, <2>4, <2>5, <2>6, LoopIInv, Zenon
<1> QED
  BY <1>0, <1>5, <1>6, Zenon

(* An error ends the cycle: the next one reads the cursor again. *)
LEMMA FailCycleIInv ==
  ASSUME IInv, NEW l \in Loops, FailCycle(l) PROVE IInv'
<1> USE DEF IInv
<1>1. /\ frame[l].at # "persist" /\ Moves(l, Asleep) /\ faults' \in 0..MaxFaults
      /\ UNCHANGED <<external, tables, dedup, history, skips, crashes>>
  BY BoundsAssumption DEF FailCycle, TypeOK
<1>2. /\ UNCHANGED <<external, events, dedup, history>> /\ cursor' \in 0..Len(chain)
      /\ skips' \in 0..MaxSkips /\ crashes' \in 0..MaxCrashes
      /\ Undisturbed' => Undisturbed /\ NothingLost'
  BY <1>1, RowsSame, Zenon DEF TypeOK, tables, external, Undisturbed, NothingLost
<1> QED
  BY <1>1, <1>2, AsleepIInv, Zenon

LEMMA NextIInv == IInv /\ [Next]_vars => IInv'
<1> SUFFICES ASSUME IInv, [Next]_vars PROVE IInv'
  BY Zenon
<1>1. CASE UNCHANGED vars
  <2>1. ChainRows' = ChainRows
    BY <1>1, RowsSame, Zenon DEF vars
  <2> QED
    BY <1>1, <2>1, Zenon DEF vars, IInv, TypeOK, HashesPast, Placements, Placement, OneLedger, NothingLost,
       Undisturbed, Covered, Below, Done, InHand, Known, Recorded
<1>2. ASSUME NEW l \in Loops, LoopStep(l) PROVE IInv'
  BY <1>2, ReadCursorIInv, FetchLedgersIInv, FetchTransactionsIInv, DispatchIInv, PersistIInv,
     EndLedgerIInv, UpdateCursorIInv, Zenon DEF LoopStep
<1>3. CASE EngineStep
  BY <1>3, CheckReorgIInv, DeleteEventsFromIInv, RewindIInv, Zenon DEF EngineStep
<1> QED
  BY <1>1, <1>2, <1>3, CloseLedgerIInv, ReplaceFromIInv, FailCycleIInv, ExpireIInv, CrashIInv, Zenon
     DEF Next

LEMMA Invariant == Spec => []IInv
BY InitIInv, NextIInv, PTL DEF Spec
-----------------------------------------------------------------------------
(* The cursor row, the event log, the loops' locals and the in-memory      *)
(* structures keep their types, and the cursor never passes the last       *)
(* ledger Horizon has closed, whatever fails or restarts.                  *)
THEOREM TypeCorrect == Spec => []TypeOK
BY Invariant, PTL DEF IInv

(* poll and Reconcile advance one cursor at once, from batches fetched     *)
(* earlier; still it only passes ledgers whose transactions are all in     *)
(* contract_events, as long as no ledger is replaced and no error is       *)
(* logged and stepped over.                                                *)
THEOREM NoEventIsLost == Spec => []NothingLost
BY Invariant, PTL DEF IInv

LEMMA StepRewinds ==
  ASSUME IInv, [Next]_vars, cursor' < cursor
  PROVE  cursor' + 1 \in DOMAIN history /\ history[cursor' + 1] # chain[cursor' + 1].hash
<1>1. cursor \in Int /\ \A l \in Loops : frame[l].next \in Int /\ frame[l].fork \in Int
  BY FrameTyped, ChainTyped DEF IInv, TypeOK
<1>2. cursor' # cursor
  BY <1>1
<1>3. ASSUME NEW l \in Loops, UpdateCursor(l) PROVE FALSE
  <2>1. cursor' = Larger(cursor, frame[l].next)
    BY <1>3, Zenon DEF UpdateCursor
  <2> QED
    BY <1>1, <2>1 DEF Larger
<1>4. Rewind
  BY <1>2, <1>3, Zenon
     DEF Next, vars, tables, CloseLedger, ReplaceFrom, EngineStep, CheckReorg, DeleteEventsFrom,
         LoopStep, ReadCursor, FetchLedgers, FetchTransactions, Dispatch, PersistContractEvent,
         EndLedger, FailCycle, Expire, Crash
<1>5. /\ frame["engine"].at = "rewind" /\ cursor' = frame["engine"].fork - 1
      /\ Placement("engine") /\ frame["engine"].fork \in Int
  BY <1>1, <1>4, Zenon DEF Rewind, At, IInv, Placements, Loops
<1>6. cursor' + 1 = frame["engine"].fork
  BY <1>5
<1> QED
  BY <1>5, <1>6, Zenon DEF Placement

(* checkReorg is the only code that moves the cursor back, and it moves it *)
(* to just below a ledger in the history whose hash Horizon no longer has. *)
THEOREM RewindsOnlyAtForks == Spec => RewindOnlyAtFork
<1>1. IInv /\ [Next]_vars =>
        [cursor' < cursor => /\ cursor' + 1 \in DOMAIN history
                             /\ history[cursor' + 1] # chain[cursor' + 1].hash]_vars
  BY StepRewinds, Zenon
<1> QED
  BY <1>1, Invariant, PTL DEF Spec, RewindOnlyAtFork
=============================================================================
