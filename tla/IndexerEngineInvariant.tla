----------------------- MODULE IndexerEngineInvariant ------------------------
(***************************************************************************)
(* Safety of IndexerEngine for any chain, any sizes of batch and window,   *)
(* and any number of errors, replaced ledgers and restarts.                *)
(*                                                                         *)
(* NothingLost speaks of the cursor and the log only.  What makes it       *)
(* inductive is what a loop in the middle of a cycle relies on: that every *)
(* ledger below the one in hand is in the log (the cursor it started from  *)
(* never moved back), that what is left of the ledger in hand is in its    *)
(* list of transactions, and that a deduplicator knows only transactions   *)
(* whose row is written, or is about to be.                                *)
(***************************************************************************)
EXTENDS IndexerEngine, TLAPS

Working == {"ledger", "txns", "persist", "advance"}
Before == {"check", "fetch", "delete", "rewind"}

(* The hash a ledger was given counts the replacements up to then. *)
HashesPast ==
  /\ \A i \in DOMAIN chain : chain[i].hash <= reorgs
  /\ \A i \in DOMAIN history : history[i] <= reorgs
  /\ \A l \in Loops : \A i \in DOMAIN frame[l].hash : frame[l].hash[i] <= reorgs

(* Where a loop is in the chain. *)
Placement(l) ==
  LET f == frame[l]
  IN /\ f.at \in Working => /\ 1 <= f.next /\ f.next <= f.last /\ f.last <= Len(chain)
                            /\ f.total <= f.last
                            /\ l = "engine" => f.next..f.last \subseteq DOMAIN f.hash
     /\ f.at \in Before => 1 <= f.next /\ f.next <= Len(chain) + 1 /\ f.total < f.next
     /\ f.at \in {"check", "delete", "rewind"} => l = "engine" /\ f.total = 0
     /\ f.at = "persist" => f.txn \in Txns
     /\ f.at \in {"delete", "rewind"} =>
          f.fork \in DOMAIN history /\ history[f.fork] # chain[f.fork].hash

Placements == \A l \in Loops : Placement(l)

(* Each transaction is in one ledger. *)
OneLedger == \A i, j \in DOMAIN chain : i # j => chain[i].txns \cap chain[j].txns = {}

(* While nothing was replaced or skipped: a loop has recorded the ledgers  *)
(* below the one in hand, ...                                              *)
Below(l) == frame[l].at \in Working \cup Before =>
  \A r \in ChainRows : r.ledger < frame[l].next => r \in events
Done(l) == frame[l].at = "advance" =>
  \A r \in ChainRows : r.ledger = frame[l].next => r \in events

(* ... of that one what is not on its list, nor just being written, ...    *)
InHand(l) ==
  LET f == frame[l]
  IN /\ f.at \in {"txns", "persist"} =>
          /\ f.todo \subseteq chain[f.next].txns
          /\ \A t \in chain[f.next].txns : t \in f.todo \cup Recorded \/ f.txn = t
     /\ f.at = "persist" => f.txn \in chain[f.next].txns

(* ... and all that its deduplicator would pass over.                      *)
Known(l) ==
  LET f == frame[l]
  IN /\ f.at \notin {"delete", "rewind"}
     /\ f.at # "persist" => f.txn = NoTxn
     /\ \A t \in dedup[l] : t \in Recorded \/ f.txn = t

Covered(l) == Below(l) /\ Done(l) /\ InHand(l) /\ Known(l)

Undisturbed == reorgs = 0 /\ skips = 0

IInv ==
  /\ TypeOK /\ HashesPast /\ Placements /\ OneLedger
  /\ NothingLost
  /\ Undisturbed => \A l \in Loops : Covered(l)
-----------------------------------------------------------------------------
Ledger == [hash: 0..MaxReorgs, txns: SUBSET Txns]

LEMMA NoHashes == <<>> \in Hashes
<1>1. <<>> \in [{} -> 0..MaxReorgs]
  OBVIOUS
<1> QED
  BY <1>1, Zenon DEF Hashes

LEMMA AsleepTyped ==
  /\ Asleep \in Frame
  /\ Asleep.at = "idle" /\ Asleep.hash = <<>> /\ Asleep.txn = NoTxn /\ Asleep.total = 0
BY NoHashes, BoundsAssumption DEF Asleep, Frame

LEMMA InitIInv == Init => IInv
<1> SUFFICES ASSUME Init PROVE IInv
  BY Zenon
<1>1. TypeOK
  BY AsleepTyped, BoundsAssumption DEF Init, TypeOK, Ledger
<1>2. HashesPast /\ Placements /\ OneLedger
  BY AsleepTyped DEF Init, HashesPast, Placements, Placement, OneLedger, Working, Before
<1>3. NothingLost
  BY DEF Init, NothingLost, ChainRows, OnChain
<1>4. \A l \in Loops : Covered(l)
  BY AsleepTyped, Zenon DEF Init, Covered, Below, Done, InHand, Known, Working, Before
<1> QED
  BY <1>1, <1>2, <1>3, <1>4, Zenon DEF IInv

(* A step of one loop changes that loop's frame only. *)
LEMMA FrameMoves ==
  ASSUME TypeOK, NEW l \in Loops, NEW g \in Frame, Moves(l, g)
  PROVE  /\ frame' \in [Loops -> Frame] /\ frame'[l] = g
         /\ \A m \in Loops : m # l => frame'[m] = frame[m]
BY Zenon DEF TypeOK, Moves

(* What TypeOK says of the chain and the history. *)
LEMMA ChainTyped ==
  ASSUME TypeOK
  PROVE  /\ Len(chain) \in Nat /\ Len(chain) <= MaxLedgers /\ DOMAIN chain = 1..Len(chain)
         /\ \A i \in DOMAIN chain : chain[i] \in Ledger
         /\ \A i \in DOMAIN chain : chain[i].hash \in Nat /\ chain[i].txns \subseteq Txns
         /\ \A i \in DOMAIN history : i \in 1..Len(chain) /\ history[i] \in Nat
<1>1. chain \in Seq(Ledger) /\ Len(chain) <= MaxLedgers
  BY Zenon DEF TypeOK, Ledger
<1>2. Len(chain) \in Nat /\ DOMAIN chain = 1..Len(chain) /\ \A i \in DOMAIN chain : chain[i] \in Ledger
  BY <1>1
<1>3. \A i \in DOMAIN chain : chain[i].hash \in Nat /\ chain[i].txns \subseteq Txns
  BY <1>2 DEF Ledger
<1>4. \A i \in DOMAIN history : i \in 1..Len(chain) /\ history[i] \in Nat
  BY DEF TypeOK
<1> QED
  BY <1>1, <1>2, <1>3, <1>4, Zenon

LEMMA RowsSame == chain' = chain => ChainRows' = ChainRows
BY Zenon DEF ChainRows, OnChain

(* What TypeOK says of a frame, field by field. *)
LEMMA FrameTyped ==
  ASSUME TypeOK, NEW l \in Loops
  PROVE  /\ frame[l] \in Frame
         /\ frame[l].next \in 0..MaxLedgers + 1 /\ frame[l].last \in 0..MaxLedgers
         /\ frame[l].fork \in 0..MaxLedgers /\ frame[l].total \in 0..MaxLedgers
         /\ frame[l].todo \subseteq Txns /\ frame[l].hash \in Hashes
BY Zenon DEF TypeOK, Frame

(* The changes the steps make to a frame keep it a frame. *)
LEMMA FrameChanges ==
  ASSUME NEW f \in Frame, NEW n \in 0..MaxLedgers + 1, NEW k \in 0..MaxLedgers,
         NEW ts \in SUBSET Txns
  PROVE  /\ [f EXCEPT !.at = "fetch"] \in Frame
         /\ [f EXCEPT !.at = "delete", !.fork = k] \in Frame
         /\ [f EXCEPT !.at = "rewind"] \in Frame
         /\ [f EXCEPT !.at = "fetch", !.next = n, !.fork = k] \in Frame
         /\ [f EXCEPT !.at = "fetch", !.next = n] \in Frame
         /\ [f EXCEPT !.at = "ledger", !.next = n] \in Frame
         /\ [f EXCEPT !.at = "ledger", !.next = n, !.todo = ts] \in Frame
         /\ [f EXCEPT !.at = "advance", !.todo = ts] \in Frame
         /\ [f EXCEPT !.at = "txns", !.txn = NoTxn] \in Frame
         /\ [f EXCEPT !.at = "txns", !.todo = ts] \in Frame
<1>1. [f EXCEPT !.at = "fetch"] \in Frame /\ [f EXCEPT !.at = "rewind"] \in Frame
  BY Zenon DEF Frame
<1>2. [f EXCEPT !.at = "delete", !.fork = k] \in Frame
  BY Zenon DEF Frame
<1>3. [f EXCEPT !.at = "fetch", !.next = n, !.fork = k] \in Frame
  BY Zenon DEF Frame
<1>4. [f EXCEPT !.at = "fetch", !.next = n] \in Frame
  BY Zenon DEF Frame
<1>5. [f EXCEPT !.at = "ledger", !.next = n] \in Frame
  BY Zenon DEF Frame
<1>6. [f EXCEPT !.at = "ledger", !.next = n, !.todo = ts] \in Frame
  BY Zenon DEF Frame
<1>7. [f EXCEPT !.at = "advance", !.todo = ts] \in Frame
  BY Zenon DEF Frame
<1>8. [f EXCEPT !.at = "txns", !.txn = NoTxn] \in Frame
  BY Zenon DEF Frame
<1>9. [f EXCEPT !.at = "txns", !.todo = ts] \in Frame
  BY Zenon DEF Frame
<1> QED
  BY <1>1, <1>2, <1>3, <1>4, <1>5, <1>6, <1>7, <1>8, <1>9, Zenon
-----------------------------------------------------------------------------
(* Horizon closes a ledger: no loop has it in hand yet. *)
LEMMA CloseLedgerIInv ==
  ASSUME IInv, CloseLedger PROVE IInv'
<1> USE DEF IInv
<1>1. PICK ts \in SUBSET (Txns \ Placed(chain)) :
        chain' = Append(chain, [hash |-> reorgs, txns |-> ts])
  BY Zenon DEF CloseLedger
<1>2. /\ Len(chain) < MaxLedgers
      /\ UNCHANGED <<tables, frame, dedup, history, reorgs, counts>>
  BY Zenon DEF CloseLedger
<1> USE DEF tables, counts
<1>3. /\ chain' \in Seq(Ledger) /\ Len(chain') = Len(chain) + 1
      /\ \A i \in 1..Len(chain) : chain'[i] = chain[i]
      /\ chain'[Len(chain) + 1] = [hash |-> reorgs, txns |-> ts]
      /\ DOMAIN chain = 1..Len(chain) /\ DOMAIN chain' = 1..Len(chain) + 1
  <2>1. chain \in Seq(Ledger) /\ [hash |-> reorgs, txns |-> ts] \in Ledger
    BY Zenon DEF TypeOK, Ledger
  <2> QED
    BY <1>1, <2>1
<1>4. TypeOK'
  <2>1. Len(chain) \in Nat /\ Len(chain') <= MaxLedgers
    BY <1>2, <1>3, ChainTyped, BoundsAssumption
  <2>2. 0..Len(chain) \subseteq 0..Len(chain') /\ 1..Len(chain) \subseteq 1..Len(chain')
    BY <1>3, <2>1
  <2> QED
    BY <1>2, <1>3, <2>1, <2>2, Zenon DEF TypeOK, Ledger
<1>5. HashesPast'
  BY <1>2, <1>3, SMTT(30) DEF HashesPast, TypeOK
<1>6. Placements'
  <2> SUFFICES ASSUME NEW l \in Loops PROVE Placement(l)'
    BY Zenon DEF Placements
  <2>1. Placement(l) /\ frame'[l] = frame[l] /\ history' = history
    BY <1>2, Zenon DEF Placements
  <2>2. DOMAIN history \subseteq 1..Len(chain) /\ Len(chain) \in Nat
    BY DEF TypeOK
  <2> QED
    BY <1>3, <2>1, <2>2, FrameTyped DEF Placement
<1>7. OneLedger'
  <2>1. \A i \in 1..Len(chain) : chain[i].txns \cap ts = {}
    BY <1>1, <1>3 DEF Placed
  <2> QED
    BY <1>3, <2>1 DEF OneLedger
<1>8. ASSUME NEW r \in ChainRows', r.ledger <= Len(chain) PROVE r \in ChainRows
  BY <1>3, <1>8 DEF ChainRows, OnChain
<1>9. ChainRows \subseteq ChainRows'
  BY <1>3 DEF ChainRows, OnChain
<1>10. \A r \in ChainRows' : r.ledger \in Nat
  BY <1>3 DEF ChainRows, OnChain, TypeOK
<1>11. NothingLost'
  BY <1>2, <1>8, <1>9, <1>10 DEF NothingLost, TypeOK
<1>12. ASSUME Undisturbed', NEW l \in Loops PROVE Covered(l)'
  <2>1. Undisturbed /\ Covered(l) /\ Placement(l)
    BY <1>2, <1>12, Zenon DEF Undisturbed, Placements
  <2>2. frame[l].at \in Working => frame[l].next \in 1..Len(chain)
    BY <2>1, FrameTyped, ChainTyped DEF Placement
  <2>3. frame[l].at \in Working \cup Before => frame[l].next <= Len(chain) + 1
    BY <2>1, <2>2, ChainTyped DEF Placement, Working
  <2>4. ASSUME frame[l].at \in Working \cup Before, NEW r \in ChainRows',
               r.ledger < frame[l].next
        PROVE  r \in ChainRows
    <3>1. frame[l].next <= Len(chain) + 1 /\ frame[l].next \in Int /\ Len(chain) \in Nat
      BY <2>3, <2>4, FrameTyped DEF TypeOK
    <3> QED
      BY <1>8, <1>10, <2>4, <3>1
  <2>5. Below(l)'
    BY <1>2, <2>1, <2>4, Zenon DEF Covered, Below
  <2>7. Done(l)'
    <3>1. ASSUME frame[l].at = "advance", NEW r \in ChainRows', r.ledger = frame[l].next
          PROVE  r \in ChainRows
      BY <1>8, <2>2, <3>1 DEF Working, TypeOK
    <3> QED
      BY <1>2, <2>1, <3>1, Zenon DEF Covered, Done
  <2>6. InHand(l)' /\ Known(l)'
    BY <1>2, <1>3, <2>1, <2>2, Zenon DEF Covered, InHand, Known, Recorded, Working
  <2> QED
    BY <2>5, <2>6, <2>7, Zenon DEF Covered
<1> QED
  BY <1>4, <1>5, <1>6, <1>7, <1>11, <1>12, Zenon

(* The end of the chain is replaced: hashes of a later count than any that *)
(* was seen, and nothing to show of the log.                               *)
LEMMA ReplaceFromIInv ==
  ASSUME IInv, NEW k \in 1..MaxLedgers, k <= Len(chain), ReplaceFrom(k) PROVE IInv'
<1> USE DEF IInv
<1>0. Len(chain) \in Nat /\ chain \in Seq(Ledger) /\ DOMAIN chain = 1..Len(chain)
      /\ reorgs \in Nat
  BY DEF TypeOK, Ledger
<1>1. PICK ts \in [k..Len(chain) -> SUBSET (Txns \ Placed(SubSeq(chain, 1, k - 1)))] :
        /\ \A i, j \in k..Len(chain) : i # j => ts[i] \cap ts[j] = {}
        /\ chain' = [i \in 1..Len(chain) |->
                       IF i < k THEN chain[i] ELSE [hash |-> reorgs + 1, txns |-> ts[i]]]
  BY Zenon DEF ReplaceFrom
<1>2. /\ reorgs' = reorgs + 1 /\ reorgs + 1 <= MaxReorgs
      /\ UNCHANGED <<tables, frame, dedup, history, counts>>
  BY <1>0, BoundsAssumption DEF ReplaceFrom, TypeOK
<1> USE DEF tables, counts
<1>3. /\ \A i \in 1..Len(chain) : chain'[i] \in Ledger
      /\ \A i \in 1..Len(chain) : chain'[i] = chain[i] \/ chain'[i].hash = reorgs + 1
  <2>1. ASSUME NEW i \in 1..Len(chain)
        PROVE  chain'[i] \in Ledger /\ (chain'[i] = chain[i] \/ chain'[i].hash = reorgs + 1)
    <3>1. CASE i < k
      BY <1>0, <1>1, <2>1, <3>1
    <3>2. CASE ~(i < k)
      <4>1. i \in k..Len(chain) /\ reorgs + 1 \in 0..MaxReorgs
        BY <1>0, <1>2, <2>1, <3>2
      <4>2. ts[i] \in SUBSET Txns
        BY <1>1, <4>1, Zenon
      <4>3. chain'[i] = [hash |-> reorgs + 1, txns |-> ts[i]]
        BY <1>1, <2>1, <3>2, Zenon
      <4> QED
        BY <4>1, <4>2, <4>3 DEF Ledger
    <3> QED
      BY <3>1, <3>2, Zenon
  <2> QED
    BY <2>1, Zenon
<1>4. chain' \in Seq(Ledger) /\ Len(chain') = Len(chain) /\ DOMAIN chain' = 1..Len(chain)
  BY <1>0, <1>1, <1>3
<1>5. TypeOK'
  <2>1. reorgs' \in 0..MaxReorgs
    BY <1>0, <1>2, BoundsAssumption
  <2>2. chain' \in Seq([hash: 0..MaxReorgs, txns: SUBSET Txns])
    BY <1>4, Zenon DEF Ledger
  <2> QED
    BY <1>2, <1>4, <2>1, <2>2, Zenon DEF TypeOK
<1>6. HashesPast'
  <2>1. \A i \in DOMAIN chain' : chain'[i].hash <= reorgs + 1
    <3>1. \A i \in 1..Len(chain) : chain[i].hash <= reorgs /\ chain[i].hash \in Nat
      BY <1>0, ChainTyped, Zenon DEF HashesPast
    <3> QED
      BY <1>0, <1>3, <1>4, <3>1
  <2>2. \A i \in DOMAIN history : history[i] <= reorgs + 1
    BY <1>0 DEF HashesPast, TypeOK
  <2>3. \A l \in Loops : \A i \in DOMAIN frame[l].hash : frame[l].hash[i] \in Int
    BY FrameTyped DEF Hashes
  <2> QED
    BY <1>0, <1>2, <2>1, <2>2, <2>3 DEF HashesPast
<1>7. Placements'
  <2> SUFFICES ASSUME NEW l \in Loops PROVE Placement(l)'
    BY Zenon DEF Placements
  <2>1. Placement(l) /\ frame'[l] = frame[l] /\ history' = history
    BY <1>2, Zenon DEF Placements
  <2>2. \A i \in DOMAIN history : i \in 1..Len(chain) /\ history[i] # reorgs + 1
    BY <1>0 DEF TypeOK, HashesPast
  <2> QED
    BY <1>3, <1>4, <2>1, <2>2, Zenon DEF Placement
<1>8. OneLedger'
  <2> SUFFICES ASSUME NEW i \in 1..Len(chain), NEW j \in 1..Len(chain), i < j
               PROVE  chain'[i].txns \cap chain'[j].txns = {}
    BY <1>4 DEF OneLedger
  <2>1. CASE j < k
    <3>1. i < k /\ chain'[i] = chain[i] /\ chain'[j] = chain[j]
      BY <1>0, <1>1, <2>1
    <3> QED
      BY <1>0, <3>1 DEF OneLedger
  <2>2. CASE i < k /\ ~(j < k)
    <3>1. j \in k..Len(chain) /\ i \in 1..k - 1
      BY <1>0, <2>2
    <3>2. SubSeq(chain, 1, k - 1)[i] = chain[i] /\ i \in DOMAIN SubSeq(chain, 1, k - 1)
      BY <1>0, <3>1
    <3>3. chain[i].txns \subseteq Placed(SubSeq(chain, 1, k - 1))
      BY <3>2, Zenon DEF Placed
    <3>4. chain'[i] = chain[i] /\ chain'[j].txns = ts[j]
      BY <1>1, <2>2, Zenon
    <3> QED
      BY <1>1, <3>1, <3>3, <3>4, Zenon
  <2>3. CASE ~(i < k)
    <3>1. i \in k..Len(chain) /\ j \in k..Len(chain) /\ ~(j < k)
      BY <1>0, <2>3
    <3>2. chain'[i].txns = ts[i] /\ chain'[j].txns = ts[j]
      BY <1>1, <2>3, <3>1, Zenon
    <3> QED
      BY <1>1, <3>1, <3>2
  <2> QED
    BY <2>1, <2>2, <2>3, Zenon
<1>9. ~Undisturbed' /\ NothingLost'
  BY <1>0, <1>2 DEF Undisturbed, NothingLost
<1> QED
  BY <1>5, <1>6, <1>7, <1>8, <1>9, Zenon
-----------------------------------------------------------------------------
(* A step of one loop, Horizon standing still, need only be looked at from *)
(* that loop: the other keeps its frame and its deduplicator, and a longer *)
(* log suits it as well.                                                   *)
LEMMA LoopIInv ==
  ASSUME IInv, NEW l \in Loops, NEW g \in Frame, Moves(l, g), UNCHANGED external,
         cursor' \in 0..Len(chain), events' \subseteq [txn: Txns, ledger: 1..Len(chain)],
         dedup' \in [Loops -> SUBSET Txns],
         \A m \in Loops : m # l => dedup'[m] = dedup[m],
         history' = history
         \/ /\ l = "engine" /\ DOMAIN history' \subseteq 1..Len(chain)
            /\ \A i \in DOMAIN history' : history'[i] \in 0..reorgs,
         faults' \in 0..MaxFaults, skips' \in 0..MaxSkips, crashes' \in 0..MaxCrashes,
         \A i \in DOMAIN g.hash : g.hash[i] <= reorgs,
         Placement(l)',
         Undisturbed' => Undisturbed /\ NothingLost' /\ Covered(l)' /\ events \subseteq events'
  PROVE  IInv'
<1> USE DEF IInv, external
<1>1. /\ frame' \in [Loops -> Frame] /\ frame'[l] = g
      /\ \A m \in Loops : m # l => frame'[m] = frame[m]
  BY FrameMoves, Zenon
<1>2. reorgs \in 0..MaxReorgs /\ MaxReorgs \in Nat
  BY BoundsAssumption, Zenon DEF TypeOK
<1>3. \A i \in DOMAIN history' : history'[i] \in 0..MaxReorgs /\ history'[i] <= reorgs
  BY <1>2, SMTT(30) DEF TypeOK, HashesPast
<1>4. TypeOK'
  BY <1>1, <1>3, Zenon DEF TypeOK
<1>5. HashesPast'
  BY <1>1, <1>3, Zenon DEF HashesPast
<1>6. Placements'
  <2> SUFFICES ASSUME NEW m \in Loops, m # l PROVE Placement(m)'
    BY Zenon DEF Placements
  <2>1. Placement(m) /\ frame'[m] = frame[m] /\ chain' = chain
    BY <1>1, Zenon DEF Placements
  <2>2. CASE history' = history
    BY <2>1, <2>2, Zenon DEF Placement
  <2>3. CASE m # "engine"
    BY <2>1, <2>3, Zenon DEF Placement
  <2> QED
    BY <2>2, <2>3, Zenon
<1>7. OneLedger'
  BY Zenon DEF OneLedger
<1>8. ASSUME Undisturbed', NEW m \in Loops PROVE Covered(m)'
  <2>1. CASE m = l
    BY <1>8, <2>1, Zenon
  <2>2. CASE m # l
    <3>1. Covered(m) /\ frame'[m] = frame[m] /\ dedup'[m] = dedup[m]
      BY <1>1, <1>8, <2>2, Zenon
    <3>2. ChainRows' = ChainRows /\ Recorded \subseteq Recorded' /\ events \subseteq events'
      BY <1>8, RowsSame, Zenon DEF Recorded
    <3>3. Below(m)' /\ Done(m)'
      BY <3>1, <3>2, Zenon DEF Covered, Below, Done
    <3>4. InHand(m)' /\ Known(m)'
      BY <3>1, <3>2, Zenon DEF Covered, InHand, Known
    <3> QED
      BY <3>3, <3>4, Zenon DEF Covered
  <2> QED
    BY <2>1, <2>2, Zenon
<1>9. NothingLost'
  BY Zenon DEF NothingLost, Undisturbed
<1> QED
  BY <1>4, <1>5, <1>6, <1>7, <1>8, <1>9, Zenon

(* A loop that goes to sleep with nothing in hand. *)
LEMMA AsleepIInv ==
  ASSUME IInv, NEW l \in Loops, Moves(l, Asleep), UNCHANGED <<external, events, dedup, history>>,
         cursor' \in 0..Len(chain), frame[l].at # "persist",
         faults' \in 0..MaxFaults, skips' \in 0..MaxSkips, crashes' \in 0..MaxCrashes,
         Undisturbed' => Undisturbed /\ NothingLost'
  PROVE  IInv'
<1> USE DEF IInv
<1>1. frame'[l] = Asleep
  BY AsleepTyped, FrameMoves, Zenon
<1>2. Placement(l)'
  BY <1>1, AsleepTyped, Zenon DEF Placement, Working, Before
<1>3. ASSUME Undisturbed' PROVE Covered(l)'
  <2>1. Covered(l)
    BY <1>3, Zenon
  <2> QED
    BY <1>1, <2>1, AsleepTyped, Zenon DEF Covered, Below, Done, InHand, Known, Working, Before, Recorded
<1>4. Asleep \in Frame /\ \A i \in DOMAIN Asleep.hash : Asleep.hash[i] <= reorgs
  BY AsleepTyped
<1>5. /\ events' \subseteq [txn: Txns, ledger: 1..Len(chain)] /\ events \subseteq events'
      /\ dedup' \in [Loops -> SUBSET Txns] /\ UNCHANGED external /\ history' = history
      /\ \A m \in Loops : m # l => dedup'[m] = dedup[m]
  BY Zenon DEF TypeOK
<1> QED
  BY <1>2, <1>3, <1>4, <1>5, LoopIInv, Zenon

LEMMA ReadCursorIInv ==
  ASSUME IInv, NEW l \in Loops, ReadCursor(l) PROVE IInv'
<1> USE DEF IInv
<1> DEFINE g == [Asleep EXCEPT !.at = IF l = "engine" /\ cursor > 0 THEN "check" ELSE "fetch",
                               !.next = cursor + 1]
<1>1. At(l, "idle") /\ Moves(l, g) /\ UNCHANGED <<external, tables, dedup, history, counts>>
  BY Zenon DEF ReadCursor
<1>2. cursor \in 0..Len(chain) /\ Len(chain) \in Nat /\ Len(chain) <= MaxLedgers
  BY DEF TypeOK
<1>3. /\ g \in Frame /\ g.next = cursor + 1 /\ g.total = 0 /\ g.hash = <<>> /\ g.txn = NoTxn
      /\ g.at \in {"check", "fetch"} /\ (g.at = "check" => l = "engine")
  <2>1. cursor + 1 \in 0..MaxLedgers + 1
    BY <1>2, BoundsAssumption
  <2>2. PICK a \in {"check", "fetch"} :
          /\ a = IF l = "engine" /\ cursor > 0 THEN "check" ELSE "fetch"
          /\ a = "check" => l = "engine"
    BY Zenon
  <2>3. g = [Asleep EXCEPT !.at = a, !.next = cursor + 1]
    BY <2>2, Zenon
  <2> HIDE DEF g
  <2>4. g \in Frame /\ g.at = a /\ g.next = cursor + 1
    BY <2>1, <2>2, <2>3, AsleepTyped, Zenon DEF Frame
  <2>5. g.total = 0 /\ g.hash = <<>> /\ g.txn = NoTxn
    BY <2>3, Zenon DEF Asleep
  <2> QED
    BY <2>2, <2>4, <2>5, Zenon
<1>4. frame'[l] = g
  BY <1>1, <1>3, FrameMoves, Zenon
<1> HIDE DEF g
<1>5. Placement(l)'
  BY <1>1, <1>2, <1>3, <1>4 DEF Placement, Working, Before, external
<1>6. ASSUME Undisturbed' PROVE Undisturbed /\ NothingLost' /\ Covered(l)'
  <2>1. Undisturbed /\ NothingLost' /\ Covered(l)
    BY <1>1, <1>6, RowsSame, Zenon DEF Undisturbed, NothingLost, tables, external, counts
  <2>2. \A r \in ChainRows : r.ledger \in Nat
    BY <1>2 DEF ChainRows, OnChain, TypeOK
  <2>3. Below(l)'
    BY <1>1, <1>2, <1>3, <1>4, <2>1, <2>2, RowsSame
       DEF Undisturbed, NothingLost, Below, tables, external
  <2>4. Done(l)' /\ InHand(l)' /\ Known(l)'
    BY <1>1, <1>3, <1>4, <2>1, Zenon
       DEF Covered, Done, InHand, Known, Recorded, At, tables, external
  <2> QED
    BY <2>1, <2>3, <2>4, Zenon DEF Covered
<1>7. /\ events' \subseteq [txn: Txns, ledger: 1..Len(chain)] /\ events \subseteq events'
      /\ dedup' \in [Loops -> SUBSET Txns] /\ UNCHANGED external /\ history' = history
      /\ \A m \in Loops : m # l => dedup'[m] = dedup[m]
      /\ cursor' \in 0..Len(chain)
      /\ faults' \in 0..MaxFaults /\ skips' \in 0..MaxSkips /\ crashes' \in 0..MaxCrashes
      /\ \A i \in DOMAIN g.hash : g.hash[i] <= reorgs
  BY <1>1, <1>3 DEF TypeOK, tables, counts
<1> QED
  BY <1>1, <1>3, <1>5, <1>6, <1>7, LoopIInv, Zenon

(* DetectReorg finds a ledger of the history that the chain does not have. *)
LEMMA CheckReorgIInv ==
  ASSUME IInv, CheckReorg PROVE IInv'
<1> USE DEF IInv
<1> DEFINE l == "engine"
           f == frame[l]
           from == Larger(f.next - Window, 1)
           forked == Forked(from, f.next - 1)
<1>0. /\ At(l, "check") /\ UNCHANGED <<external, tables, dedup, history, counts>>
      /\ \/ forked = {} /\ Moves(l, [f EXCEPT !.at = "fetch"])
         \/ Moves(l, Asleep)
         \/ \E fork \in forked : Moves(l, [f EXCEPT !.at = "delete", !.fork = fork])
  BY Zenon DEF CheckReorg
<1>00. l \in Loops /\ f \in Frame /\ f.at = "check" /\ Placement(l)
  BY <1>0, FrameTyped, Zenon DEF Loops, At, Placements
<1>1. /\ events' \subseteq [txn: Txns, ledger: 1..Len(chain)] /\ events \subseteq events'
      /\ dedup' \in [Loops -> SUBSET Txns] /\ UNCHANGED external /\ history' = history
      /\ \A m \in Loops : m # l => dedup'[m] = dedup[m]
      /\ cursor' \in 0..Len(chain) /\ events' = events
      /\ faults' \in 0..MaxFaults /\ skips' \in 0..MaxSkips /\ crashes' \in 0..MaxCrashes
      /\ \A i \in DOMAIN f.hash : f.hash[i] <= reorgs
  BY <1>0, <1>00, Zenon DEF TypeOK, tables, counts, HashesPast
<1>2. Undisturbed' => Undisturbed /\ NothingLost' /\ Covered(l)
  <2>1. ChainRows' = ChainRows /\ UNCHANGED <<events, cursor, reorgs, skips>>
    BY <1>0, RowsSame, Zenon DEF tables, external, counts
  <2> QED
    BY <1>00, <2>1, Zenon DEF Undisturbed, NothingLost
<1>3. forked \subseteq DOMAIN history /\ \A i \in forked : history[i] # chain[i].hash
  BY Zenon DEF Forked
<1>4. Undisturbed => forked = {}
  <2>1. ASSUME Undisturbed, NEW i \in forked PROVE FALSE
    <3>1. i \in DOMAIN history /\ history[i] # chain[i].hash
      BY <1>3, Zenon
    <3>2. history[i] \in Nat /\ chain[i].hash \in Nat /\ i \in DOMAIN chain
      BY <3>1, ChainTyped, Zenon
    <3> QED
      BY <2>1, <3>1, <3>2 DEF HashesPast, Undisturbed
  <2> QED
    BY <2>1, Zenon
<1> HIDE DEF forked, from, l
<1>6. CASE forked = {} /\ Moves(l, [f EXCEPT !.at = "fetch"])
  <2> DEFINE g == [f EXCEPT !.at = "fetch"]
  <2>1. /\ g \in Frame /\ Moves(l, g) /\ g.at = "fetch" /\ g.hash = f.hash
        /\ g.next = f.next /\ g.total = f.total /\ g.txn = f.txn
    BY <1>0, <1>00, <1>6, Zenon DEF Frame
  <2>2. frame'[l] = g
    BY <1>00, <2>1, FrameMoves, Zenon
  <2> HIDE DEF g
  <2>3. Placement(l)'
    BY <1>00, <1>1, <2>1, <2>2, Zenon DEF Placement, Working, Before, external
  <2>4. ASSUME Undisturbed' PROVE Covered(l)'
    <3>1. Covered(l) /\ ChainRows' = ChainRows
      BY <1>1, <1>2, <2>4, RowsSame, Zenon DEF external
    <3>2. Below(l)' /\ Done(l)'
      BY <1>00, <1>1, <2>1, <2>2, <3>1, Zenon DEF Covered, Below, Done, Before
    <3>3. InHand(l)' /\ Known(l)'
      BY <1>0, <1>00, <1>1, <2>1, <2>2, <3>1, Zenon DEF Covered, InHand, Known, Recorded
    <3> QED
      BY <3>2, <3>3, Zenon DEF Covered
  <2> QED
    BY <1>00, <1>1, <1>2, <2>1, <2>3, <2>4, LoopIInv, Zenon
<1>7. CASE Moves(l, Asleep)
  BY <1>0, <1>00, <1>1, <1>2, <1>7, AsleepIInv, Zenon
<1>8. ASSUME NEW fork \in forked, Moves(l, [f EXCEPT !.at = "delete", !.fork = fork])
      PROVE  IInv'
  <2> DEFINE g == [f EXCEPT !.at = "delete", !.fork = fork]
  <2>0. fork \in 0..MaxLedgers /\ fork \in DOMAIN history /\ history[fork] # chain[fork].hash
    BY <1>3, <1>8, ChainTyped, BoundsAssumption
  <2>1. /\ g \in Frame /\ Moves(l, g) /\ g.at = "delete" /\ g.hash = f.hash
        /\ g.next = f.next /\ g.total = f.total /\ g.fork = fork
    BY <1>0, <1>00, <1>8, <2>0, Zenon DEF Frame
  <2>2. frame'[l] = g
    BY <1>00, <2>1, FrameMoves, Zenon
  <2> HIDE DEF g
  <2>3. Placement(l)'
    BY <1>00, <1>1, <2>0, <2>1, <2>2, Zenon DEF Placement, Working, Before, external
  <2>4. ~Undisturbed'
    BY <1>2, <1>4, <1>8, Zenon
  <2> QED
    BY <1>00, <1>1, <2>1, <2>3, <2>4, LoopIInv, Zenon
<1> QED
  BY <1>0, <1>6, <1>7, <1>8, Zenon

(* A rollback happens only after a replacement. *)
LEMMA DeleteEventsFromIInv ==
  ASSUME IInv, DeleteEventsFrom PROVE IInv'
<1> USE DEF IInv
<1> DEFINE l == "engine"
           f == frame[l]
           g == [f EXCEPT !.at = "rewind"]
<1>0. /\ At(l, "delete") /\ Moves(l, g) /\ events' \subseteq events
      /\ UNCHANGED <<external, cursor, dedup, history, counts>>
  BY Zenon DEF DeleteEventsFrom
<1>1. l \in Loops /\ f \in Frame /\ f.at = "delete" /\ Placement(l)
  BY <1>0, FrameTyped, Zenon DEF Loops, At, Placements
<1>2. /\ g \in Frame /\ g.at = "rewind" /\ g.hash = f.hash
      /\ g.next = f.next /\ g.total = f.total /\ g.fork = f.fork
  BY <1>1, Zenon DEF Frame
<1> HIDE DEF l, g
<1>3. frame'[l] = g
  BY <1>0, <1>1, <1>2, FrameMoves, Zenon
<1>4. Placement(l)'
  BY <1>0, <1>1, <1>2, <1>3, Zenon DEF Placement, Working, Before, external
<1>5. ~Undisturbed'
  BY <1>0, <1>1, Zenon DEF Undisturbed, Covered, Known, external, counts
<1>6. /\ events' \subseteq [txn: Txns, ledger: 1..Len(chain)]
      /\ dedup' \in [Loops -> SUBSET Txns] /\ UNCHANGED external /\ history' = history
      /\ \A m \in Loops : m # l => dedup'[m] = dedup[m]
      /\ cursor' \in 0..Len(chain)
      /\ faults' \in 0..MaxFaults /\ skips' \in 0..MaxSkips /\ crashes' \in 0..MaxCrashes
      /\ \A i \in DOMAIN g.hash : g.hash[i] <= reorgs
  BY <1>0, <1>1, <1>2, Zenon DEF TypeOK, counts, HashesPast
<1> QED
  BY <1>0, <1>1, <1>2, <1>4, <1>5, <1>6, LoopIInv, Zenon

(* A deduplicator that forgets lets the log decide. *)
LEMMA ExpireIInv ==
  ASSUME IInv, NEW l \in Loops, NEW t \in Txns, Expire(l, t) PROVE IInv'
<1> USE DEF IInv, external, tables, counts
<1>1. /\ dedup' = [dedup EXCEPT ![l] = @ \ {t}]
      /\ UNCHANGED <<external, tables, frame, history, counts>>
  BY Zenon DEF Expire
<1>2. dedup' \in [Loops -> SUBSET Txns] /\ \A m \in Loops : dedup'[m] \subseteq dedup[m]
  BY <1>1, Zenon DEF TypeOK
<1>3. TypeOK' /\ HashesPast' /\ OneLedger'
  BY <1>1, <1>2, Zenon DEF TypeOK, HashesPast, OneLedger
<1>4. Placements'
  BY <1>1, Zenon DEF Placements, Placement
<1>5. NothingLost'
  BY <1>1, RowsSame, Zenon DEF NothingLost
<1>6. ASSUME Undisturbed', NEW m \in Loops PROVE Covered(m)'
  <2>1. Covered(m) /\ ChainRows' = ChainRows
    BY <1>1, <1>6, RowsSame, Zenon DEF Undisturbed
  <2>2. Below(m)' /\ Done(m)' /\ InHand(m)'
    BY <1>1, <2>1, Zenon DEF Covered, Below, Done, InHand, Recorded
  <2>3. Known(m)'
    BY <1>1, <1>2, <2>1, Zenon DEF Covered, Known, Recorded
  <2> QED
    BY <2>2, <2>3, Zenon DEF Covered
<1> QED
  BY <1>3, <1>4, <1>5, <1>6, Zenon

(* After a restart both loops start from the cursor. *)
LEMMA CrashIInv == ASSUME IInv, Crash PROVE IInv'
<1> USE DEF IInv, external, tables
<1>1. /\ frame' = [l \in Loops |-> Asleep] /\ dedup' = [l \in Loops |-> {}] /\ history' = <<>>
      /\ crashes' \in 0..MaxCrashes /\ UNCHANGED <<external, tables, faults, skips>>
  BY BoundsAssumption DEF Crash, TypeOK
<1>2. TypeOK'
  BY <1>1, AsleepTyped DEF TypeOK
<1>3. HashesPast' /\ Placements' /\ OneLedger'
  BY <1>1, AsleepTyped DEF HashesPast, Placements, Placement, OneLedger, Working, Before
<1>4. NothingLost'
  BY <1>1, RowsSame, Zenon DEF NothingLost
<1>5. \A l \in Loops : Covered(l)'
  BY <1>1, AsleepTyped, Zenon DEF Covered, Below, Done, InHand, Known, Working, Before
<1> QED
  BY <1>2, <1>3, <1>4, <1>5, Zenon
=============================================================================
