------------------------- MODULE BrowserStoreProofs -------------------------
EXTENDS Browser, Sequences, FiniteSetTheorems, WellFoundedInduction, TLAPS

-----------------------------------------------------------------------------
(* OutboxStore.                                                            *)

\* Positions in the server's log.
LEMMA PositionFacts ==
    ASSUME NEW op, server \in Seq(Outbox!Operations)
    PROVE  /\ op \in Outbox!Range(server) <=> \E i \in DOMAIN server : server[i] = op
           /\ op \in Outbox!Range(server) => Outbox!Position(op) \in DOMAIN server /\ server[Outbox!Position(op)] = op
           /\ op \notin Outbox!Range(server) => Outbox!Position(op) = 0
           /\ Outbox!Position(op) = 0 <=> op \notin Outbox!Range(server)
<1>1. op \in Outbox!Range(server) <=> \E i \in DOMAIN server : server[i] = op
  BY DEF Outbox!Range
<1>2. op \in Outbox!Range(server) => Outbox!Position(op) \in DOMAIN server /\ server[Outbox!Position(op)] = op
  BY <1>1 DEF Outbox!Position
<1>3. op \notin Outbox!Range(server) => Outbox!Position(op) = 0
  BY DEF Outbox!Position
<1>4. 0 \notin DOMAIN server
  OBVIOUS
<1> QED BY <1>1, <1>2, <1>3, <1>4

\* A step that changes nothing but a tab's session.
LEMMA SessionStep ==
    ASSUME Outbox!OutboxInv, NEW t \in Outbox!Tabs, NEW s \in Outbox!Sessions, version = 3,
           UNCHANGED <<version, log, coverage, cursor, rows, seen, server, paged>>,
           session' = [session EXCEPT ![t] = s],
           \A op \in s.sent : Outbox!Recorded(op),
           s.acks \subseteq Outbox!Range(server),
           \A op \in s.covered : op.tab = t /\ op \in paged,
           s.clearing = "rows" =>
               \A r \in rows : Outbox!Op(r) \in s.covered => r.state = "durably_acked",
           s.clearing = "proofs" => \A r \in rows : Outbox!Op(r) \notin s.covered
    PROVE  Outbox!OutboxInv'
<1> USE DEF Outbox!OutboxInv
<1>1. Outbox!TypeOK'
  BY DEF Outbox!TypeOK
<1>2. Outbox!RowsInv' /\ Outbox!ServerInv' /\ Outbox!KeptInv' 
  BY DEF Outbox!RowsInv, Outbox!ServerInv, Outbox!KeptInv, Outbox!Recorded, Outbox!Op, Outbox!Range
<1>3. Outbox!ProofInv'
  BY DEF Outbox!ProofInv, Outbox!ProofOf, Outbox!Op
<1>4. Outbox!SessionInv'
  <2> SUFFICES ASSUME NEW u \in Outbox!Tabs PROVE
        /\ \A op \in session'[u].sent : Outbox!Recorded(op)'
        /\ session'[u].acks \subseteq Outbox!Range(server)'
        /\ \A op \in session'[u].covered : op.tab = u /\ op \in paged'
        /\ session'[u].clearing = "rows" =>
               \A r \in rows' : Outbox!Op(r) \in session'[u].covered => r.state = "durably_acked"
        /\ session'[u].clearing = "proofs" => \A r \in rows' : Outbox!Op(r) \notin session'[u].covered
    BY DEF Outbox!SessionInv
  <2>1. session'[u] = IF u = t THEN s ELSE session[u]
    BY DEF Outbox!TypeOK
  <2>2. seen' = seen /\ rows' = rows /\ server' = server /\ paged' = paged
    OBVIOUS
  <2>3. Outbox!SessionInv
    OBVIOUS
  <2> QED BY <2>1, <2>2, <2>3 DEF Outbox!SessionInv, Outbox!Recorded, Outbox!Range
<1> QED BY <1>1, <1>2, <1>3, <1>4

\* A session that is on belongs to version 3.
LEMMA OnIsUpgraded ==
    ASSUME Outbox!OutboxInv, NEW t \in Outbox!Tabs,
           session[t] # Outbox!Off
    PROVE  version = 3
BY DEF Outbox!OutboxInv, Outbox!TypeOK, Outbox!ProofInv

\* The empty sessions.
LEMMA IdleFacts ==
    /\ Outbox!Idle \in Outbox!Sessions /\ Outbox!Off \in Outbox!Sessions
    /\ Outbox!Idle.on /\ ~Outbox!Off.on
    /\ Outbox!Idle.sent = {} /\ Outbox!Idle.acks = {} /\ Outbox!Idle.covered = {}
    /\ Outbox!Idle.clearing = "no" /\ Outbox!Idle.toMark = {}
    /\ Outbox!Off.sent = {} /\ Outbox!Off.acks = {} /\ Outbox!Off.covered = {}
    /\ Outbox!Off.clearing = "no" /\ Outbox!Off.toMark = {}
BY DEF Outbox!Idle, Outbox!Off, Outbox!Sessions

LEMMA OutboxOpen ==
    ASSUME Outbox!OutboxInv, NEW t \in Outbox!Tabs, Outbox!Open(t)
    PROVE  Outbox!OutboxInv'
<1>1. UNCHANGED <<version, log, coverage, cursor, rows, seen, server, paged>> /\ version = 3
  BY DEF Outbox!Open, Outbox!crdtDb, Outbox!outboxDb
<1>2. session' = [session EXCEPT ![t] = Outbox!Idle]
  BY DEF Outbox!Open
<1> QED BY <1>1, <1>2, IdleFacts, SessionStep

LEMMA OutboxReload ==
    ASSUME Outbox!OutboxInv, NEW t \in Outbox!Tabs, Outbox!Reload(t)
    PROVE  Outbox!OutboxInv'
<1>1. UNCHANGED <<version, log, coverage, cursor, rows, seen, server, paged>>
  BY DEF Outbox!Reload, Outbox!crdtDb, Outbox!outboxDb
<1>2. session' = [session EXCEPT ![t] = Outbox!Off] /\ session[t].on
  BY DEF Outbox!Reload
<1>3. version = 3
  BY <1>2, IdleFacts, OnIsUpgraded
<1> QED BY <1>1, <1>2, <1>3, IdleFacts, SessionStep

LEMMA OutboxFlush ==
    ASSUME Outbox!OutboxInv, NEW t \in Outbox!Tabs, Outbox!Flush(t)
    PROVE  Outbox!OutboxInv'
<1> DEFINE batch == {Outbox!Op(r) : r \in Outbox!Oldest(Outbox!Unacked(t))}
           s == [session[t] EXCEPT !.toMark = batch, !.sent = session[t].sent \cup batch]
<1>1. UNCHANGED <<version, log, coverage, cursor, rows, seen, server, paged>>
  BY DEF Outbox!Flush, Outbox!crdtDb, Outbox!outboxDb
<1>2. session' = [session EXCEPT ![t] = s] /\ session[t].on
  BY DEF Outbox!Flush, Outbox!OutboxInv, Outbox!TypeOK
<1>3. version = 3
  BY <1>2, IdleFacts, OnIsUpgraded
<1>4. \A op \in batch : op \in Outbox!Operations /\ Outbox!Recorded(op)
  <2> SUFFICES ASSUME NEW r \in rows PROVE Outbox!Op(r) \in Outbox!Operations /\ Outbox!Recorded(Outbox!Op(r))
    BY DEF Outbox!Oldest, Outbox!Unacked
  <2>1. r \in Outbox!RowRecords /\ Outbox!Recorded(r)
    BY DEF Outbox!OutboxInv, Outbox!TypeOK, Outbox!RowsInv
  <2> QED BY <2>1 DEF Outbox!RowRecords, Outbox!Operations, Outbox!Op, Outbox!Recorded
<1>5. session[t] \in Outbox!Sessions
  BY DEF Outbox!OutboxInv, Outbox!TypeOK
<1> HIDE DEF batch
<1>6. /\ s \in Outbox!Sessions /\ s.sent = session[t].sent \cup batch /\ s.acks = session[t].acks
      /\ s.covered = session[t].covered /\ s.clearing = session[t].clearing
  BY <1>4, <1>5 DEF Outbox!Sessions
<1> HIDE DEF s
<1>7. Outbox!SessionInv
  BY DEF Outbox!OutboxInv
<1>8. /\ \A op \in s.sent : Outbox!Recorded(op)
      /\ s.acks \subseteq Outbox!Range(server)
      /\ \A op \in s.covered : op.tab = t /\ op \in paged
      /\ s.clearing = "rows" => \A r \in rows : Outbox!Op(r) \in s.covered => r.state = "durably_acked"
      /\ s.clearing = "proofs" => \A r \in rows : Outbox!Op(r) \notin s.covered
  BY <1>4, <1>6, <1>7 DEF Outbox!SessionInv
<1> HIDE DEF Outbox!OutboxInv
<1> QED BY <1>1, <1>2, <1>3, <1>6, <1>8, SessionStep

LEMMA OutboxDisconnect ==
    ASSUME Outbox!OutboxInv, NEW t \in Outbox!Tabs, Outbox!Disconnect(t)
    PROVE  Outbox!OutboxInv'
<1> DEFINE s == [session[t] EXCEPT !.sent = {}, !.acks = {}]
<1>1. UNCHANGED <<version, log, coverage, cursor, rows, seen, server, paged>>
  BY DEF Outbox!Disconnect, Outbox!crdtDb, Outbox!outboxDb
<1>2. session' = [session EXCEPT ![t] = s] /\ session[t].on
  BY DEF Outbox!Disconnect, Outbox!OutboxInv, Outbox!TypeOK
<1>3. version = 3
  BY <1>2, IdleFacts, OnIsUpgraded
<1>5. session[t] \in Outbox!Sessions
  BY DEF Outbox!OutboxInv, Outbox!TypeOK
<1>6. /\ s \in Outbox!Sessions /\ s.sent = {} /\ s.acks = {}
      /\ s.covered = session[t].covered /\ s.clearing = session[t].clearing
  BY <1>5 DEF Outbox!Sessions
<1> HIDE DEF s
<1>7. Outbox!SessionInv
  BY DEF Outbox!OutboxInv
<1>8. /\ \A op \in s.sent : Outbox!Recorded(op)
      /\ s.acks \subseteq Outbox!Range(server)
      /\ \A op \in s.covered : op.tab = t /\ op \in paged
      /\ s.clearing = "rows" => \A r \in rows : Outbox!Op(r) \in s.covered => r.state = "durably_acked"
      /\ s.clearing = "proofs" => \A r \in rows : Outbox!Op(r) \notin s.covered
  BY <1>6, <1>7 DEF Outbox!SessionInv
<1> QED BY <1>1, <1>2, <1>3, <1>6, <1>8, SessionStep

LEMMA OutboxReadCovered ==
    ASSUME Outbox!OutboxInv, NEW t \in Outbox!Tabs, Outbox!ReadCovered(t)
    PROVE  Outbox!OutboxInv'
<1> DEFINE c == Outbox!Covered(t, Outbox!AckedIds(t))
           s == [session[t] EXCEPT !.clearing = "rows", !.covered = c]
<1>1. UNCHANGED <<version, log, coverage, cursor, rows, seen, server, paged>>
  BY DEF Outbox!ReadCovered, Outbox!crdtDb, Outbox!outboxDb
<1>2. session' = [session EXCEPT ![t] = s] /\ session[t].on
  BY DEF Outbox!ReadCovered, Outbox!OutboxInv, Outbox!TypeOK
<1>3. version = 3
  BY <1>2, IdleFacts, OnIsUpgraded
<1>4. \A op \in c : op \in Outbox!Operations /\ op.tab = t /\ log[op.tab][op.n] # 0
                    /\ \E r \in rows : Outbox!Op(r) = op /\ r.state = "durably_acked"
  BY DEF Outbox!OutboxInv, Outbox!TypeOK, Outbox!RowRecords, Outbox!Operations,
         Outbox!Op, Outbox!Covered, Outbox!AckedIds
<1>5. session[t] \in Outbox!Sessions
  BY DEF Outbox!OutboxInv, Outbox!TypeOK
<1> HIDE DEF c
<1>6. /\ s \in Outbox!Sessions /\ s.sent = session[t].sent /\ s.acks = session[t].acks
      /\ s.covered = c /\ s.clearing = "rows"
  BY <1>4, <1>5 DEF Outbox!Sessions
<1> HIDE DEF s
<1>7. Outbox!SessionInv /\ Outbox!ProofInv /\ Outbox!RowsInv
  BY DEF Outbox!OutboxInv
<1>8. \A op \in c : op \in paged
  BY <1>3, <1>4, <1>7 DEF Outbox!ProofInv, Outbox!ProofOf
<1>9. \A r \in rows : Outbox!Op(r) \in c => r.state = "durably_acked"
  BY <1>4, <1>7 DEF Outbox!RowsInv
<1>10. /\ \A op \in s.sent : Outbox!Recorded(op)
       /\ s.acks \subseteq Outbox!Range(server)
       /\ \A op \in s.covered : op.tab = t /\ op \in paged
       /\ s.clearing = "rows" => \A r \in rows : Outbox!Op(r) \in s.covered => r.state = "durably_acked"
       /\ s.clearing = "proofs" => \A r \in rows : Outbox!Op(r) \notin s.covered
  <2>1. Outbox!SessionInv
    BY <1>7
  <2>2. /\ \A op \in session[t].sent : Outbox!Recorded(op)
        /\ session[t].acks \subseteq Outbox!Range(server)
    BY <2>1 DEF Outbox!SessionInv
  <2>3. \A op \in c : op.tab = t
    BY <1>4
  <2> QED BY <1>6, <1>8, <1>9, <2>2, <2>3
<1>11. s \in Outbox!Sessions
  BY <1>6
<1> HIDE DEF Outbox!OutboxInv
<1> QED BY <1>1, <1>2, <1>3, <1>10, <1>11, SessionStep

\* What a transition leaves of the rows.
LEMMA TransitionFacts ==
    ASSUME Outbox!RowsInv, rows \subseteq Outbox!RowRecords, NEW t, NEW ids,
           NEW state \in {"sent", "durably_acked"}
    PROVE  LET after == Outbox!Transition(t, ids, state) IN
           /\ after \subseteq Outbox!RowRecords
           /\ \A q \in after : \E r \in rows :
                 /\ q.tab = r.tab /\ q.n = r.n /\ Outbox!Op(q) = Outbox!Op(r)
                 /\ r.state = "durably_acked" => q.state = "durably_acked"
                 /\ q.state = r.state \/ (q.state = state /\ Outbox!Op(r) \in ids)
           /\ \A r \in rows : \E q \in after : Outbox!Op(q) = Outbox!Op(r)
           /\ \A q, p \in after : Outbox!Op(q) = Outbox!Op(p) => q = p
<1> DEFINE After(r) == IF r.tab = t /\ Outbox!Op(r) \in ids /\ r.state # "durably_acked"
                       THEN [r EXCEPT !.state = state] ELSE r
           after == Outbox!Transition(t, ids, state)
<1>1. after = {After(r) : r \in rows}
  BY DEF Outbox!Transition
<1>2. ASSUME NEW r \in rows
      PROVE  /\ After(r) \in Outbox!RowRecords
             /\ After(r).tab = r.tab /\ After(r).n = r.n /\ Outbox!Op(After(r)) = Outbox!Op(r)
             /\ r.state = "durably_acked" => After(r).state = "durably_acked"
             /\ After(r).state = r.state \/ (After(r).state = state /\ Outbox!Op(r) \in ids)
  <2>1. r \in Outbox!RowRecords
    OBVIOUS
  <2>2. /\ After(r) \in Outbox!RowRecords /\ After(r).tab = r.tab /\ After(r).n = r.n
        /\ r.state = "durably_acked" => After(r).state = "durably_acked"
        /\ After(r).state = r.state \/ (After(r).state = state /\ Outbox!Op(r) \in ids)
    BY <2>1 DEF Outbox!RowRecords
  <2>3. Outbox!Op(After(r)) = Outbox!Op(r)
    BY <2>2 DEF Outbox!Op
  <2> QED BY <2>2, <2>3
<1> HIDE DEF After
<1>3. \A r, q \in rows : Outbox!Op(r) = Outbox!Op(q) => r = q
  BY DEF Outbox!RowsInv
<1> QED BY <1>1, <1>2, <1>3

\* Marking rows, and the step of the session that goes with it.
LEMMA MarkStep ==
    ASSUME Outbox!OutboxInv, NEW t \in Outbox!Tabs, NEW s \in Outbox!Sessions, version = 3,
           UNCHANGED <<version, log, coverage, cursor, seen, server, paged>>,
           NEW ids, NEW state \in {"sent", "durably_acked"},
           state = "durably_acked" => ids \subseteq Outbox!Range(server),
           rows' = Outbox!Transition(t, ids, state),
           session' = [session EXCEPT ![t] = s],
           s.sent = session[t].sent, s.acks \subseteq session[t].acks,
           s.covered = session[t].covered, s.clearing = session[t].clearing
    PROVE  Outbox!OutboxInv'
<1>1. /\ rows' \subseteq Outbox!RowRecords
      /\ \A q \in rows' : \E r \in rows :
            /\ q.tab = r.tab /\ q.n = r.n /\ Outbox!Op(q) = Outbox!Op(r)
            /\ r.state = "durably_acked" => q.state = "durably_acked"
            /\ q.state = r.state \/ (q.state = state /\ Outbox!Op(r) \in ids)
      /\ \A r \in rows : \E q \in rows' : Outbox!Op(q) = Outbox!Op(r)
      /\ \A q, p \in rows' : Outbox!Op(q) = Outbox!Op(p) => q = p
  <2>1. Outbox!RowsInv /\ rows \subseteq Outbox!RowRecords
    BY DEF Outbox!OutboxInv, Outbox!TypeOK
  <2> DEFINE after == Outbox!Transition(t, ids, state)
  <2>2. /\ after \subseteq Outbox!RowRecords
        /\ \A q \in after : \E r \in rows :
              /\ q.tab = r.tab /\ q.n = r.n /\ Outbox!Op(q) = Outbox!Op(r)
              /\ r.state = "durably_acked" => q.state = "durably_acked"
              /\ q.state = r.state \/ (q.state = state /\ Outbox!Op(r) \in ids)
        /\ \A r \in rows : \E q \in after : Outbox!Op(q) = Outbox!Op(r)
        /\ \A q, p \in after : Outbox!Op(q) = Outbox!Op(p) => q = p
    BY <2>1, TransitionFacts
  <2>3. rows' = after
    OBVIOUS
  <2> HIDE DEF after
  <2> QED BY <2>2, <2>3
<1>2. Outbox!TypeOK'
  BY <1>1 DEF Outbox!OutboxInv, Outbox!TypeOK
<1>3. Outbox!RowsInv'
  <2>1. Outbox!RowsInv /\ Outbox!Range(server)' = Outbox!Range(server)
    BY DEF Outbox!OutboxInv, Outbox!Range
  <2>2. ASSUME NEW q \in rows' PROVE Outbox!Recorded(q)' /\ (q.state = "durably_acked" => Outbox!Op(q) \in Outbox!Range(server))
    BY <1>1, <2>1 DEF Outbox!RowsInv, Outbox!Recorded
  <2> QED BY <1>1, <2>1, <2>2 DEF Outbox!RowsInv, Outbox!Op
<1>4. Outbox!ServerInv'
  BY DEF Outbox!OutboxInv, Outbox!ServerInv, Outbox!Recorded
<1>5. Outbox!ProofInv'
  <2>1. Outbox!ProofInv /\ \A op : Outbox!ProofOf(op)' = Outbox!ProofOf(op)
    BY DEF Outbox!OutboxInv, Outbox!ProofOf
  <2>2. \A q \in rows' : Outbox!Op(q) \in paged => Outbox!ProofOf(Outbox!Op(q)) # 0
    BY <1>1, <2>1 DEF Outbox!ProofInv
  <2>3. \A q \in rows' : Outbox!Op(q) \in paged' => Outbox!ProofOf(Outbox!Op(q))' # 0
    BY <2>1, <2>2
  <2>4. \A op \in Outbox!Operations : Outbox!ProofOf(op)' <= cursor'[op.tab] /\ (Outbox!ProofOf(op)' # 0 => op \in paged')
    BY <2>1 DEF Outbox!ProofInv
  <2> HIDE DEF Outbox!ProofOf
  <2> QED BY <2>3, <2>4 DEF Outbox!ProofInv, Outbox!Op
<1>6. Outbox!SessionInv'
  <2> SUFFICES ASSUME NEW u \in Outbox!Tabs PROVE
        /\ \A op \in session'[u].sent : Outbox!Recorded(op)'
        /\ session'[u].acks \subseteq Outbox!Range(server)'
        /\ \A op \in session'[u].covered : op.tab = u /\ op \in paged'
        /\ session'[u].clearing = "rows" =>
               \A r \in rows' : Outbox!Op(r) \in session'[u].covered => r.state = "durably_acked"
        /\ session'[u].clearing = "proofs" => \A r \in rows' : Outbox!Op(r) \notin session'[u].covered
    BY DEF Outbox!SessionInv, Outbox!Op
  <2>1. /\ session'[u].sent = session[u].sent /\ session'[u].acks \subseteq session[u].acks
        /\ session'[u].covered = session[u].covered /\ session'[u].clearing = session[u].clearing
    BY DEF Outbox!OutboxInv, Outbox!TypeOK
  <2>2. seen' = seen /\ Outbox!Range(server)' = Outbox!Range(server) /\ paged' = paged /\ Outbox!SessionInv
    BY DEF Outbox!OutboxInv, Outbox!Range
  <2> QED BY <1>1, <2>1, <2>2 DEF Outbox!SessionInv, Outbox!Recorded
<1>7. Outbox!KeptInv'
  <2>1. Outbox!KeptInv /\ \A op : Outbox!Recorded(op)' <=> Outbox!Recorded(op)
    BY DEF Outbox!OutboxInv, Outbox!Recorded
  <2>2. \A op \in Outbox!Operations : Outbox!Recorded(op) => op \in paged' \/ \E r \in rows' : Outbox!Op(r) = op
    BY <1>1, <2>1 DEF Outbox!KeptInv
  <2> QED BY <2>1, <2>2 DEF Outbox!KeptInv, Outbox!Op, Outbox!Operations
<1> QED BY <1>2, <1>3, <1>4, <1>5, <1>6, <1>7 DEF Outbox!OutboxInv

LEMMA OutboxMarkSent ==
    ASSUME Outbox!OutboxInv, NEW t \in Outbox!Tabs, Outbox!MarkSent(t)
    PROVE  Outbox!OutboxInv'
<1> DEFINE s == [session[t] EXCEPT !.toMark = {}]
<1>1. UNCHANGED <<version, log, coverage, cursor, seen, server, paged>>
  BY DEF Outbox!MarkSent, Outbox!crdtDb
<1>2. session' = [session EXCEPT ![t] = s] /\ session[t].toMark # {}
  BY DEF Outbox!MarkSent, Outbox!OutboxInv, Outbox!TypeOK
<1>3. rows' = Outbox!Transition(t, session[t].toMark, "sent")
  BY DEF Outbox!MarkSent
<1>4. version = 3
  BY <1>2, IdleFacts, OnIsUpgraded
<1>5. session[t] \in Outbox!Sessions
  BY DEF Outbox!OutboxInv, Outbox!TypeOK
<1>6. /\ s \in Outbox!Sessions /\ s.sent = session[t].sent /\ s.acks = session[t].acks
      /\ s.covered = session[t].covered /\ s.clearing = session[t].clearing
  BY <1>5 DEF Outbox!Sessions
<1> HIDE DEF s
<1> QED BY <1>1, <1>2, <1>3, <1>4, <1>6, MarkStep

LEMMA OutboxMarkDurablyAcked ==
    ASSUME Outbox!OutboxInv, NEW t \in Outbox!Tabs, Outbox!MarkDurablyAcked(t)
    PROVE  Outbox!OutboxInv'
<1> DEFINE s == [session[t] EXCEPT !.acks = {}]
<1>1. UNCHANGED <<version, log, coverage, cursor, seen, server, paged>>
  BY DEF Outbox!MarkDurablyAcked, Outbox!crdtDb
<1>2. session' = [session EXCEPT ![t] = s] /\ session[t].acks # {}
  BY DEF Outbox!MarkDurablyAcked, Outbox!OutboxInv, Outbox!TypeOK
<1>3. rows' = Outbox!Transition(t, session[t].acks, "durably_acked")
  BY DEF Outbox!MarkDurablyAcked
<1>4. version = 3
  BY <1>2, IdleFacts, OnIsUpgraded
<1>5. session[t] \in Outbox!Sessions
  BY DEF Outbox!OutboxInv, Outbox!TypeOK
<1>6. /\ s \in Outbox!Sessions /\ s.sent = session[t].sent /\ s.acks = {}
      /\ s.covered = session[t].covered /\ s.clearing = session[t].clearing
  BY <1>5 DEF Outbox!Sessions
<1> HIDE DEF s
<1>7. session[t].acks \subseteq Outbox!Range(server)
  BY DEF Outbox!OutboxInv, Outbox!SessionInv
<1> QED BY <1>1, <1>2, <1>3, <1>4, <1>6, <1>7, MarkStep

LEMMA OutboxAddPending ==
    ASSUME Outbox!OutboxInv, NEW t \in Outbox!Tabs, Outbox!AddPending(t)
    PROVE  Outbox!OutboxInv'
<1> DEFINE op == [tab |-> t, n |-> seen[t] + 1]
           row0 == Outbox!Row(op, seen["first"] + seen["second"] + 1, "pending")
<1>1. UNCHANGED <<version, log, coverage, cursor, server, session, paged>>
  BY DEF Outbox!AddPending, Outbox!crdtDb
<1>2. rows' = rows \cup {row0} /\ seen' = [seen EXCEPT ![t] = @ + 1] /\ session[t].on
  BY DEF Outbox!AddPending
<1>3. seen \in [Outbox!Tabs -> Nat] /\ rows \subseteq Outbox!RowRecords /\ server \in Seq(Outbox!Operations)
  BY DEF Outbox!OutboxInv, Outbox!TypeOK
<1>4. op \in Outbox!Operations
  <2>1. seen["first"] + seen["second"] < MaxOps /\ seen["first"] \in Nat /\ seen["second"] \in Nat /\ MaxOps \in Nat
    BY <1>3, FanoutAssumption DEF Outbox!AddPending, Outbox!Tabs
  <2>2. t = "first" \/ t = "second"
    BY DEF Outbox!Tabs
  <2>3. seen[t] + 1 \in 1 .. MaxOps
    BY <2>1, <2>2
  <2> QED BY <2>3 DEF Outbox!Operations
<1>5. row0 \in Outbox!RowRecords /\ Outbox!Op(row0) = op /\ row0.tab = t /\ row0.n = seen[t] + 1 /\ row0.state = "pending"
  BY <1>3, <1>4 DEF Outbox!Row, Outbox!RowRecords, Outbox!Op, Outbox!Operations, Outbox!Tabs
<1> HIDE DEF row0
<1>6. ~Outbox!Recorded(op) /\ \A o \in Outbox!Operations : Outbox!Recorded(o)' <=> Outbox!Recorded(o) \/ o = op
  BY <1>2, <1>3 DEF Outbox!Recorded, Outbox!Operations
<1>7. version = 3
  BY <1>2, IdleFacts, OnIsUpgraded
<1>8. op \notin paged /\ op \notin Outbox!Range(server)
  <2>1. \A i \in DOMAIN server : server[i] # op
    BY <1>6 DEF Outbox!OutboxInv, Outbox!ServerInv
  <2> QED BY <2>1 DEF Outbox!OutboxInv, Outbox!ServerInv, Outbox!Range
<1>9. \A r \in rows : Outbox!Op(r) # op /\ Outbox!Recorded(r)
  BY <1>6 DEF Outbox!OutboxInv, Outbox!RowsInv, Outbox!Op, Outbox!Recorded
<1>10. Outbox!TypeOK'
  <2>1. seen[t] + 1 \in 0 .. MaxOps
    BY <1>3, <1>4 DEF Outbox!Operations
  <2> QED BY <1>1, <1>2, <1>3, <1>5, <2>1 DEF Outbox!OutboxInv, Outbox!TypeOK
<1>11. Outbox!RowsInv'
  <2>1. \A r \in rows : Outbox!Recorded(r)'
    BY <1>2, <1>3, <1>9 DEF Outbox!Recorded, Outbox!RowRecords
  <2>2. \A r : r = row0 => Outbox!Recorded(r)'
    BY <1>2, <1>3, <1>5 DEF Outbox!Recorded
  <2>3. Outbox!RowsInv /\ Outbox!Range(server)' = Outbox!Range(server)
    BY <1>1 DEF Outbox!OutboxInv, Outbox!Range
  <2>4. \A r \in rows' : Outbox!Recorded(r)' /\ (r.state = "durably_acked" => Outbox!Op(r) \in Outbox!Range(server)')
    <3> HIDE DEF Outbox!Recorded
    <3> QED BY <1>2, <1>5, <2>1, <2>2, <2>3 DEF Outbox!RowsInv
  <2>5. \A r, q \in rows' : Outbox!Op(r) = Outbox!Op(q) => r = q
    BY <1>2, <1>5, <1>9, <2>3 DEF Outbox!RowsInv
  <2> QED BY <2>4, <2>5 DEF Outbox!RowsInv, Outbox!Op
<1>12. Outbox!ServerInv'
  <2>1. Outbox!ServerInv /\ server' = server /\ paged' = paged /\ cursor' = cursor
    BY <1>1 DEF Outbox!OutboxInv
  <2>2. \A i \in DOMAIN server : server[i] \in Outbox!Operations
    BY <1>3
  <2> QED BY <1>6, <2>1, <2>2 DEF Outbox!ServerInv
<1>13. Outbox!ProofInv'
  <2>1. Outbox!ProofInv /\ \A o : Outbox!ProofOf(o)' = Outbox!ProofOf(o)
    BY <1>1 DEF Outbox!OutboxInv, Outbox!ProofOf
  <2>2. \A r \in rows' : Outbox!Op(r) \in paged => Outbox!ProofOf(Outbox!Op(r))' # 0
    BY <1>2, <1>5, <1>8, <2>1 DEF Outbox!ProofInv
  <2>3. \A o \in Outbox!Operations : Outbox!ProofOf(o)' <= cursor'[o.tab] /\ (Outbox!ProofOf(o)' # 0 => o \in paged')
    BY <1>1, <2>1 DEF Outbox!ProofInv
  <2>4. (version = 2)' => log' = Outbox!None /\ session' = [u \in Outbox!Tabs |-> Outbox!Off]
    BY <1>1, <1>7
  <2> HIDE DEF Outbox!ProofOf
  <2> QED BY <1>1, <2>2, <2>3, <2>4 DEF Outbox!ProofInv, Outbox!Op
<1>14. Outbox!SessionInv'
  <2> SUFFICES ASSUME NEW u \in Outbox!Tabs PROVE
        /\ \A o \in session[u].sent : Outbox!Recorded(o)'
        /\ session[u].acks \subseteq Outbox!Range(server)
        /\ \A o \in session[u].covered : o.tab = u /\ o \in paged
        /\ session[u].clearing = "rows" =>
               \A r \in rows' : Outbox!Op(r) \in session[u].covered => r.state = "durably_acked"
        /\ session[u].clearing = "proofs" => \A r \in rows' : Outbox!Op(r) \notin session[u].covered
    BY <1>1 DEF Outbox!SessionInv, Outbox!Op, Outbox!Range
  <2>1. Outbox!SessionInv /\ session[u].sent \subseteq Outbox!Operations
    BY DEF Outbox!OutboxInv, Outbox!TypeOK, Outbox!Sessions
  <2>2. op \notin session[u].covered
    BY <1>8, <2>1 DEF Outbox!SessionInv
  <2> QED BY <1>2, <1>5, <1>6, <2>1, <2>2 DEF Outbox!SessionInv
<1>15. Outbox!KeptInv'
  <2>1. Outbox!KeptInv
    BY DEF Outbox!OutboxInv
  <2>2. \A o \in Outbox!Operations : Outbox!Recorded(o)' => o \in paged' \/ \E r \in rows' : Outbox!Op(r) = o
    BY <1>1, <1>2, <1>5, <1>6, <2>1 DEF Outbox!KeptInv
  <2> QED BY <2>2 DEF Outbox!KeptInv, Outbox!Op, Outbox!Operations
<1> QED BY <1>10, <1>11, <1>12, <1>13, <1>14, <1>15 DEF Outbox!OutboxInv

LEMMA OutboxCommit ==
    ASSUME Outbox!OutboxInv, NEW t \in Outbox!Tabs, NEW op, Outbox!Commit(t, op)
    PROVE  Outbox!OutboxInv'
<1> DEFINE s == [session[t] EXCEPT !.sent = session[t].sent \ {op}, !.acks = session[t].acks \cup {op}]
<1>1. UNCHANGED <<version, log, coverage, cursor, rows, seen, paged>>
  BY DEF Outbox!Commit, Outbox!crdtDb, Outbox!outboxDb
<1>2. /\ session \in [Outbox!Tabs -> Outbox!Sessions] /\ server \in Seq(Outbox!Operations)
      /\ Outbox!SessionInv /\ Outbox!ServerInv /\ Outbox!RowsInv
  BY DEF Outbox!OutboxInv, Outbox!TypeOK
<1>3. session' = [session EXCEPT ![t] = s] /\ op \in session[t].sent
  BY <1>2 DEF Outbox!Commit
<1>4. session[t] \in Outbox!Sessions
  BY <1>2
<1>5. op \in Outbox!Operations /\ Outbox!Recorded(op)
  BY <1>2, <1>3, <1>4 DEF Outbox!Sessions, Outbox!SessionInv
<1>6. version = 3
  BY <1>3, IdleFacts, OnIsUpgraded
<1>7. /\ s \in Outbox!Sessions /\ s.sent \subseteq session[t].sent /\ s.acks = session[t].acks \cup {op}
      /\ s.covered = session[t].covered /\ s.clearing = session[t].clearing
  BY <1>4, <1>5 DEF Outbox!Sessions
<1> HIDE DEF s
<1>8. /\ server' \in Seq(Outbox!Operations)
      /\ \A i \in DOMAIN server : i \in DOMAIN server' /\ server'[i] = server[i]
      /\ \A i \in DOMAIN server' : i \in DOMAIN server \/ (server'[i] = op /\ op \notin Outbox!Range(server) /\ i = Len(server) + 1)
      /\ \E i \in DOMAIN server' : server'[i] = op
  <2>1. CASE Outbox!Position(op) = 0
    <3>1. server' = Append(server, op) /\ op \notin Outbox!Range(server)
      BY <1>2, <2>1, PositionFacts DEF Outbox!Commit
    <3> QED BY <1>2, <1>5, <3>1
  <2>2. CASE Outbox!Position(op) # 0
    <3>1. server' = server /\ op \in Outbox!Range(server)
      BY <1>2, <2>2, PositionFacts DEF Outbox!Commit
    <3> QED BY <1>2, <3>1, PositionFacts
  <2> QED BY <2>1, <2>2
<1>9. Outbox!Range(server) \cup {op} \subseteq Outbox!Range(server)'
  <2>1. \A o : o \in Outbox!Range(server)' <=> \E i \in DOMAIN server' : server'[i] = o
    BY DEF Outbox!Range
  <2>2. \A o : o \in Outbox!Range(server) <=> \E i \in DOMAIN server : server[i] = o
    BY DEF Outbox!Range
  <2> QED BY <1>8, <2>1, <2>2
<1>10. Outbox!TypeOK'
  BY <1>1, <1>3, <1>7, <1>8 DEF Outbox!OutboxInv, Outbox!TypeOK
<1>11. Outbox!RowsInv'
  <2>1. \A r \in rows : Outbox!Recorded(r)' /\ (r.state = "durably_acked" => Outbox!Op(r) \in Outbox!Range(server)')
    BY <1>1, <1>2, <1>9 DEF Outbox!RowsInv, Outbox!Recorded
  <2> QED BY <1>1, <1>2, <2>1 DEF Outbox!RowsInv, Outbox!Op
<1>12. Outbox!ServerInv'
  <2>1. \A i \in DOMAIN server : server[i] \in Outbox!Range(server)
    BY DEF Outbox!Range
  <2>2. \A i \in DOMAIN server' : Outbox!Recorded(server'[i])
    BY <1>2, <1>5, <1>8 DEF Outbox!ServerInv
  <2>3. \A i, j \in DOMAIN server' : server'[i] = server'[j] => i = j
    BY <1>2, <1>8, <2>1 DEF Outbox!ServerInv
  <2>4. \A o \in paged' : \E i \in DOMAIN server' : server'[i] = o /\ i <= cursor'[o.tab]
    BY <1>1, <1>2, <1>8 DEF Outbox!ServerInv
  <2>5. \A o : Outbox!Recorded(o)' <=> Outbox!Recorded(o)
    BY <1>1 DEF Outbox!Recorded
  <2> HIDE DEF Outbox!Recorded
  <2> QED BY <2>2, <2>3, <2>4, <2>5 DEF Outbox!ServerInv
<1>13. Outbox!ProofInv'
  BY <1>1, <1>6 DEF Outbox!OutboxInv, Outbox!ProofInv, Outbox!ProofOf, Outbox!Op
<1>14. Outbox!SessionInv'
  <2> SUFFICES ASSUME NEW u \in Outbox!Tabs PROVE
        /\ \A o \in session'[u].sent : Outbox!Recorded(o)'
        /\ session'[u].acks \subseteq Outbox!Range(server)'
        /\ \A o \in session'[u].covered : o.tab = u /\ o \in paged'
        /\ session'[u].clearing = "rows" =>
               \A r \in rows' : Outbox!Op(r) \in session'[u].covered => r.state = "durably_acked"
        /\ session'[u].clearing = "proofs" => \A r \in rows' : Outbox!Op(r) \notin session'[u].covered
    BY DEF Outbox!SessionInv, Outbox!Op
  <2>1. /\ session'[u].sent \subseteq session[u].sent /\ session'[u].acks \subseteq session[u].acks \cup {op}
        /\ session'[u].covered = session[u].covered /\ session'[u].clearing = session[u].clearing
    BY <1>2, <1>3, <1>7
  <2> QED BY <1>1, <1>2, <1>9, <2>1 DEF Outbox!SessionInv, Outbox!Recorded
<1>15. Outbox!KeptInv'
  BY <1>1 DEF Outbox!OutboxInv, Outbox!KeptInv, Outbox!Recorded, Outbox!Op
<1> QED BY <1>10, <1>11, <1>12, <1>13, <1>14, <1>15 DEF Outbox!OutboxInv

\* The larger of two positions.
LEMMA MaxOfTwo ==
    ASSUME NEW a \in Int, NEW b \in Int
    PROVE  Outbox!Max({a, b}) = IF a >= b THEN a ELSE b
<1>1. \A x \in {a, b} : (\A y \in {a, b} : x >= y) => x = (IF a >= b THEN a ELSE b)
  OBVIOUS
<1>2. \E x \in {a, b} : \A y \in {a, b} : x >= y
  <2>1. CASE a >= b
    BY <2>1
  <2>2. CASE ~(a >= b)
    BY <2>2
  <2> QED BY <2>1, <2>2
<1> QED BY <1>1, <1>2 DEF Outbox!Max

\* What a change of the proofs, the cursor and the pages leaves to show.
LEMMA CrdtStep ==
    ASSUME Outbox!OutboxInv,
           UNCHANGED <<version, coverage, rows, seen, server, session>>, version = 3,
           log' \in [Outbox!Tabs -> [1 .. MaxOps -> Nat]], cursor' \in [Outbox!Tabs -> Nat],
           paged \subseteq paged', paged' \subseteq Outbox!Operations,
           \A op \in paged' : \E i \in DOMAIN server : server[i] = op /\ i <= cursor'[op.tab],
           \A op \in Outbox!Operations :
               log'[op.tab][op.n] <= cursor'[op.tab] /\ (log'[op.tab][op.n] # 0 => op \in paged'),
           \A r \in rows : Outbox!Op(r) \in paged' => log'[r.tab][r.n] # 0
    PROVE  Outbox!OutboxInv'
<1>1. Outbox!TypeOK'
  BY DEF Outbox!OutboxInv, Outbox!TypeOK
<1>2. Outbox!RowsInv'
  BY DEF Outbox!OutboxInv, Outbox!RowsInv, Outbox!Recorded, Outbox!Op, Outbox!Range
<1>3. Outbox!ServerInv'
  BY DEF Outbox!OutboxInv, Outbox!ServerInv, Outbox!Recorded
<1>4. Outbox!ProofInv'
  <2>1. \A op : Outbox!ProofOf(op)' = log'[op.tab][op.n]
    BY DEF Outbox!ProofOf
  <2>2. \A r : Outbox!ProofOf(Outbox!Op(r))' = log'[r.tab][r.n]
    BY DEF Outbox!ProofOf, Outbox!Op
  <2> HIDE DEF Outbox!ProofOf
  <2> QED BY <2>1, <2>2 DEF Outbox!ProofInv, Outbox!Op
<1>5. Outbox!SessionInv'
  <2>1. Outbox!SessionInv
    BY DEF Outbox!OutboxInv
  <2> QED BY <2>1 DEF Outbox!SessionInv, Outbox!Recorded, Outbox!Op, Outbox!Range
<1>6. Outbox!KeptInv'
  BY DEF Outbox!OutboxInv, Outbox!KeptInv, Outbox!Recorded, Outbox!Op, Outbox!Operations
<1> QED BY <1>1, <1>2, <1>3, <1>4, <1>5, <1>6 DEF Outbox!OutboxInv

\* The proofs are on the log rows once the database is upgraded.
LEMMA LogProofs ==
    ASSUME Outbox!OutboxInv, version = 3
    PROVE  /\ \A u \in Outbox!Tabs : \A n \in 1 .. MaxOps :
                 /\ log[u][n] \in Nat /\ log[u][n] <= cursor[u]
                 /\ log[u][n] # 0 => [tab |-> u, n |-> n] \in paged
           /\ \A r \in rows : Outbox!Op(r) \in paged => log[r.tab][r.n] # 0
<1>1. \A op : Outbox!ProofOf(op) = log[op.tab][op.n]
  BY DEF Outbox!ProofOf
<1>2. Outbox!ProofInv /\ log \in [Outbox!Tabs -> [1 .. MaxOps -> Nat]]
  BY DEF Outbox!OutboxInv, Outbox!TypeOK
<1>3. ASSUME NEW u \in Outbox!Tabs, NEW n \in 1 .. MaxOps
      PROVE  /\ log[u][n] \in Nat /\ log[u][n] <= cursor[u]
             /\ log[u][n] # 0 => [tab |-> u, n |-> n] \in paged
  <2> DEFINE op == [tab |-> u, n |-> n]
  <2>1. op \in Outbox!Operations /\ op.tab = u /\ op.n = n
    BY DEF Outbox!Operations
  <2>2. Outbox!ProofOf(op) <= cursor[op.tab] /\ (Outbox!ProofOf(op) # 0 => op \in paged)
    BY <1>2, <2>1 DEF Outbox!ProofInv
  <2> HIDE DEF op
  <2> QED BY <1>1, <1>2, <2>1, <2>2 DEF op
<1>4. ASSUME NEW r \in rows, Outbox!Op(r) \in paged PROVE log[r.tab][r.n] # 0
  BY <1>1, <1>2, <1>4 DEF Outbox!ProofInv, Outbox!Op
<1> QED BY <1>3, <1>4

LEMMA OutboxCatchup ==
    ASSUME Outbox!OutboxInv, NEW t \in Outbox!Tabs, NEW upto \in 1 .. Len(server), Outbox!Catchup(t, upto)
    PROVE  Outbox!OutboxInv'
<1> DEFINE page0 == {server[i] : i \in cursor[t] + 1 .. upto} \cap Outbox!Own(t)
           After(n) == IF [tab |-> t, n |-> n] \in page0 THEN upto ELSE log[t][n]
<1>1. UNCHANGED <<version, coverage, rows, seen, server, session>> /\ session[t].on
  BY DEF Outbox!Catchup, Outbox!outboxDb
<1>2. version = 3
  BY <1>1, IdleFacts, OnIsUpgraded
<1>3. /\ log \in [Outbox!Tabs -> [1 .. MaxOps -> Nat]] /\ cursor \in [Outbox!Tabs -> Nat]
      /\ server \in Seq(Outbox!Operations) /\ paged \subseteq Outbox!Operations /\ rows \subseteq Outbox!RowRecords
      /\ Outbox!ServerInv /\ Outbox!ProofInv
  BY DEF Outbox!OutboxInv, Outbox!TypeOK
<1>4. cursor[t] \in Nat /\ cursor[t] < upto /\ upto \in Nat /\ upto \in DOMAIN server
  BY <1>3 DEF Outbox!Catchup
<1>5. cursor' = [cursor EXCEPT ![t] = upto] /\ paged' = paged \cup page0
  BY DEF Outbox!Catchup
<1>6. \A op \in page0 : op \in Outbox!Operations /\ op.tab = t /\ \E i \in DOMAIN server : server[i] = op /\ i <= upto
  <2> SUFFICES ASSUME NEW i \in cursor[t] + 1 .. upto, server[i] \in Outbox!Own(t)
               PROVE server[i] \in Outbox!Operations /\ server[i].tab = t
                     /\ \E j \in DOMAIN server : server[j] = server[i] /\ j <= upto
    OBVIOUS
  <2>1. i \in DOMAIN server /\ i <= upto
    BY <1>3, <1>4
  <2> QED BY <1>3, <2>1 DEF Outbox!Own
<1>7. \A n \in 1 .. MaxOps : log[t][n] \in Nat /\ log[t][n] <= cursor[t] /\ (log[t][n] # 0 => [tab |-> t, n |-> n] \in paged)
  BY <1>2, LogProofs
<1>8. log' = [log EXCEPT ![t] = [n \in 1 .. MaxOps |-> After(n)]]
  <2>1. \A n \in 1 .. MaxOps : Outbox!Max({log[t][n], upto}) = upto
    <3> TAKE n \in 1 .. MaxOps
    <3>1. log[t][n] \in Nat /\ log[t][n] <= cursor[t]
      BY <1>7
    <3>2. Outbox!Max({log[t][n], upto}) = IF log[t][n] >= upto THEN log[t][n] ELSE upto
      BY <1>4, <3>1, MaxOfTwo
    <3> QED BY <1>4, <3>1, <3>2
  <2>2. log' = [log EXCEPT ![t] = [n \in 1 .. MaxOps |->
                  IF [tab |-> t, n |-> n] \in page0 THEN Outbox!Max({log[t][n], upto}) ELSE log[t][n]]]
    BY DEF Outbox!Catchup
  <2> HIDE DEF page0
  <2> QED BY <2>1, <2>2
<1> HIDE DEF page0
<1>9. \A n \in 1 .. MaxOps : After(n) \in Nat
  BY <1>4, <1>7
<1>10. log' \in [Outbox!Tabs -> [1 .. MaxOps -> Nat]] /\ cursor' \in [Outbox!Tabs -> Nat]
       /\ \A u \in Outbox!Tabs : \A n \in 1 .. MaxOps :
             /\ cursor'[u] = IF u = t THEN upto ELSE cursor[u]
             /\ log'[u][n] = IF u = t THEN After(n) ELSE log[u][n]
  <2> HIDE DEF After
  <2> QED BY <1>3, <1>4, <1>5, <1>8, <1>9
<1>11. \A op \in paged' : \E i \in DOMAIN server : server[i] = op /\ i <= cursor'[op.tab]
  <2>1. ASSUME NEW op \in page0 PROVE \E i \in DOMAIN server : server[i] = op /\ i <= cursor'[op.tab]
    BY <1>3, <1>5, <1>6
  <2>2. ASSUME NEW op \in paged PROVE \E i \in DOMAIN server : server[i] = op /\ i <= cursor'[op.tab]
    <3>1. PICK i \in DOMAIN server : server[i] = op /\ i <= cursor[op.tab]
      BY <1>3 DEF Outbox!ServerInv
    <3>2. op.tab \in Outbox!Tabs
      BY <1>3 DEF Outbox!Operations
    <3>3. cursor[op.tab] <= cursor'[op.tab] /\ cursor[op.tab] \in Nat /\ cursor'[op.tab] \in Nat
      BY <1>3, <1>4, <1>5, <3>2
    <3> QED BY <1>3, <3>1, <3>3
  <2> QED BY <1>5, <2>1, <2>2
<1>12. \A op \in Outbox!Operations :
          log'[op.tab][op.n] <= cursor'[op.tab] /\ (log'[op.tab][op.n] # 0 => op \in paged')
  <2> SUFFICES ASSUME NEW op \in Outbox!Operations
               PROVE log'[op.tab][op.n] <= cursor'[op.tab] /\ (log'[op.tab][op.n] # 0 => op \in paged')
    OBVIOUS
  <2>1. op.tab \in Outbox!Tabs /\ op.n \in 1 .. MaxOps /\ op = [tab |-> op.tab, n |-> op.n]
    BY DEF Outbox!Operations
  <2>2. CASE op.tab = t
    <3>1. log'[op.tab][op.n] = After(op.n) /\ cursor'[op.tab] = upto
      BY <1>10, <2>1, <2>2
    <3>2. op \in page0 => After(op.n) = upto
      BY <2>1, <2>2
    <3>3. op \notin page0 => After(op.n) = log[t][op.n]
      BY <2>1, <2>2
    <3>4. log[t][op.n] \in Nat /\ log[t][op.n] <= cursor[t] /\ (log[t][op.n] # 0 => op \in paged)
      BY <1>7, <2>1, <2>2
    <3> HIDE DEF After
    <3> QED BY <1>4, <1>5, <3>1, <3>2, <3>3, <3>4
  <2>3. CASE op.tab # t
    <3>1. log'[op.tab][op.n] = log[op.tab][op.n] /\ cursor'[op.tab] = cursor[op.tab]
      BY <1>10, <2>1, <2>3
    <3>2. log[op.tab][op.n] <= cursor[op.tab] /\ (log[op.tab][op.n] # 0 => op \in paged)
      BY <1>2, <2>1, LogProofs
    <3> QED BY <1>5, <3>1, <3>2
  <2> QED BY <2>2, <2>3
<1>13. \A r \in rows : Outbox!Op(r) \in paged' => log'[r.tab][r.n] # 0
  <2> SUFFICES ASSUME NEW r \in rows, Outbox!Op(r) \in paged' PROVE log'[r.tab][r.n] # 0
    OBVIOUS
  <2>1. r.tab \in Outbox!Tabs /\ r.n \in 1 .. MaxOps /\ Outbox!Op(r) = [tab |-> r.tab, n |-> r.n]
    BY <1>3 DEF Outbox!RowRecords, Outbox!Op
  <2>2. CASE Outbox!Op(r) \in page0
    <3>1. r.tab = t
      BY <1>6, <2>1, <2>2
    <3>2. log'[r.tab][r.n] = After(r.n) /\ After(r.n) = upto
      BY <1>10, <2>1, <2>2, <3>1
    <3> QED BY <1>4, <3>2
  <2>3. CASE Outbox!Op(r) \notin page0
    <3>1. log[r.tab][r.n] # 0
      BY <1>2, <1>5, <2>3, LogProofs
    <3>2. r.tab = t => After(r.n) = log[r.tab][r.n]
      BY <2>1, <2>3
    <3> HIDE DEF After
    <3>3. log'[r.tab][r.n] = log[r.tab][r.n]
      BY <1>10, <2>1, <3>2
    <3> QED BY <3>1, <3>3
  <2> QED BY <2>2, <2>3
<1>14. paged \subseteq paged' /\ paged' \subseteq Outbox!Operations
  BY <1>3, <1>5, <1>6
<1> QED BY <1>1, <1>2, <1>10, <1>11, <1>12, <1>13, <1>14, CrdtStep

LEMMA OutboxSaveSyncCursor ==
    ASSUME Outbox!OutboxInv, NEW t \in Outbox!Tabs, Outbox!SaveSyncCursor(t)
    PROVE  Outbox!OutboxInv'
<1>1. UNCHANGED <<version, log, coverage, rows, seen, server, session, paged>> /\ session[t].on
  BY DEF Outbox!SaveSyncCursor, Outbox!outboxDb
<1>2. version = 3
  BY <1>1, IdleFacts, OnIsUpgraded
<1>3. /\ log \in [Outbox!Tabs -> [1 .. MaxOps -> Nat]] /\ cursor \in [Outbox!Tabs -> Nat]
      /\ server \in Seq(Outbox!Operations) /\ paged \subseteq Outbox!Operations /\ rows \subseteq Outbox!RowRecords
      /\ Outbox!ServerInv /\ Outbox!ProofInv
  BY DEF Outbox!OutboxInv, Outbox!TypeOK
<1>4. cursor' \in [Outbox!Tabs -> Nat] /\ \A u \in Outbox!Tabs : cursor[u] <= cursor'[u]
  <2>1. cursor' = [cursor EXCEPT ![t] = Len(server)] /\ cursor[t] < Len(server)
    BY DEF Outbox!SaveSyncCursor
  <2> QED BY <1>3, <2>1
<1>5. \A op \in paged : \E i \in DOMAIN server : server[i] = op /\ i <= cursor'[op.tab]
  <2> SUFFICES ASSUME NEW op \in paged PROVE \E i \in DOMAIN server : server[i] = op /\ i <= cursor'[op.tab]
    OBVIOUS
  <2>1. PICK i \in DOMAIN server : server[i] = op /\ i <= cursor[op.tab]
    BY <1>3 DEF Outbox!ServerInv
  <2>2. op.tab \in Outbox!Tabs
    BY <1>3 DEF Outbox!Operations
  <2> QED BY <1>3, <1>4, <2>1, <2>2
<1>6. \A op \in Outbox!Operations :
          log[op.tab][op.n] <= cursor'[op.tab] /\ (log[op.tab][op.n] # 0 => op \in paged)
  <2> SUFFICES ASSUME NEW op \in Outbox!Operations
               PROVE log[op.tab][op.n] <= cursor'[op.tab] /\ (log[op.tab][op.n] # 0 => op \in paged)
    OBVIOUS
  <2>1. op.tab \in Outbox!Tabs /\ op.n \in 1 .. MaxOps
    BY DEF Outbox!Operations
  <2>2. log[op.tab][op.n] \in Nat /\ log[op.tab][op.n] <= cursor[op.tab] /\ (log[op.tab][op.n] # 0 => op \in paged)
    <3>1. op = [tab |-> op.tab, n |-> op.n]
      BY DEF Outbox!Operations
    <3> QED BY <1>2, <2>1, <3>1, LogProofs
  <2> QED BY <1>3, <1>4, <2>1, <2>2
<1>7. \A r \in rows : Outbox!Op(r) \in paged => log[r.tab][r.n] # 0
  BY <1>2, LogProofs
<1> QED BY <1>1, <1>2, <1>3, <1>4, <1>5, <1>6, <1>7, CrdtStep
LEMMA OutboxDeleteRows ==
    ASSUME Outbox!OutboxInv, NEW t \in Outbox!Tabs, Outbox!DeleteRows(t)
    PROVE  Outbox!OutboxInv'
<1> DEFINE s == [session[t] EXCEPT !.clearing = "proofs"]
           c == session[t].covered
<1>1. UNCHANGED <<version, log, coverage, cursor, seen, server, paged>>
  BY DEF Outbox!DeleteRows, Outbox!crdtDb
<1>2. /\ session \in [Outbox!Tabs -> Outbox!Sessions] /\ rows \subseteq Outbox!RowRecords
      /\ Outbox!SessionInv /\ Outbox!RowsInv /\ Outbox!ProofInv /\ Outbox!KeptInv
  BY DEF Outbox!OutboxInv, Outbox!TypeOK
<1>3. session[t] \in Outbox!Sessions /\ session[t].clearing = "rows"
  BY <1>2 DEF Outbox!DeleteRows, Outbox!ClearingStep, Outbox!Sessions
<1>4. session' = [session EXCEPT ![t] = s]
  BY <1>2, <1>3 DEF Outbox!DeleteRows
<1>5. version = 3
  BY <1>3, IdleFacts, OnIsUpgraded
<1>6. /\ s \in Outbox!Sessions /\ s.sent = session[t].sent /\ s.acks = session[t].acks
      /\ s.covered = c /\ s.clearing = "proofs"
  BY <1>3 DEF Outbox!Sessions
<1> HIDE DEF s
<1>7. /\ rows' = {r \in rows : ~(Outbox!Op(r) \in c /\ r.state = "durably_acked")}
      /\ \A op \in c : op.tab = t /\ op \in paged
      /\ \A r \in rows : Outbox!Op(r) \in c => r.state = "durably_acked"
  BY <1>2, <1>3 DEF Outbox!DeleteRows, Outbox!SessionInv
<1>8. rows' \subseteq rows /\ \A r \in rows' : Outbox!Op(r) \notin c
  BY <1>7
<1>9. Outbox!TypeOK'
  BY <1>1, <1>2, <1>4, <1>6, <1>8 DEF Outbox!OutboxInv, Outbox!TypeOK
<1>10. Outbox!RowsInv'
  BY <1>1, <1>2, <1>8 DEF Outbox!RowsInv, Outbox!Recorded, Outbox!Op, Outbox!Range
<1>11. Outbox!ServerInv'
  BY <1>1 DEF Outbox!OutboxInv, Outbox!ServerInv, Outbox!Recorded
<1>12. Outbox!ProofInv'
  <2>1. \A op : Outbox!ProofOf(op)' = Outbox!ProofOf(op)
    BY <1>1 DEF Outbox!ProofOf
  <2>2. \A r : Outbox!ProofOf(Outbox!Op(r))' = Outbox!ProofOf(Outbox!Op(r))
    BY <1>1 DEF Outbox!ProofOf, Outbox!Op
  <2> HIDE DEF Outbox!ProofOf
  <2> QED BY <1>1, <1>2, <1>5, <1>8, <2>1, <2>2 DEF Outbox!ProofInv, Outbox!Op
<1>13. Outbox!SessionInv'
  <2> SUFFICES ASSUME NEW u \in Outbox!Tabs PROVE
        /\ \A o \in session'[u].sent : Outbox!Recorded(o)'
        /\ session'[u].acks \subseteq Outbox!Range(server)'
        /\ \A o \in session'[u].covered : o.tab = u /\ o \in paged'
        /\ session'[u].clearing = "rows" =>
               \A r \in rows' : Outbox!Op(r) \in session'[u].covered => r.state = "durably_acked"
        /\ session'[u].clearing = "proofs" => \A r \in rows' : Outbox!Op(r) \notin session'[u].covered
    BY DEF Outbox!SessionInv, Outbox!Op
  <2>1. Outbox!Range(server)' = Outbox!Range(server)
    BY <1>1 DEF Outbox!Range
  <2>2. CASE u = t
    <3>1. session'[u] = s
      BY <1>2, <1>4, <2>2
    <3> QED BY <1>1, <1>2, <1>6, <1>7, <1>8, <2>1, <2>2, <3>1 DEF Outbox!SessionInv, Outbox!Recorded
  <2>3. CASE u # t
    <3>1. session'[u] = session[u]
      BY <1>2, <1>4, <2>3
    <3> QED BY <1>1, <1>2, <1>8, <2>1, <3>1 DEF Outbox!SessionInv, Outbox!Recorded
  <2> QED BY <2>2, <2>3
<1>14. Outbox!KeptInv'
  <2>1. \A o \in Outbox!Operations : Outbox!Recorded(o) => o \in paged \/ \E r \in rows' : Outbox!Op(r) = o
    BY <1>2, <1>7 DEF Outbox!KeptInv
  <2> QED BY <1>1, <2>1 DEF Outbox!KeptInv, Outbox!Recorded, Outbox!Op, Outbox!Operations
<1> QED BY <1>9, <1>10, <1>11, <1>12, <1>13, <1>14 DEF Outbox!OutboxInv

LEMMA OutboxPrune ==
    ASSUME Outbox!OutboxInv, NEW t \in Outbox!Tabs, Outbox!Prune(t)
    PROVE  Outbox!OutboxInv'
<1> DEFINE s == [session[t] EXCEPT !.clearing = "no"]
           After(n) == IF [tab |-> t, n |-> n] \in session[t].covered THEN 0 ELSE log[t][n]
<1>1. UNCHANGED <<version, coverage, cursor, rows, seen, server, paged>>
  BY DEF Outbox!Prune, Outbox!outboxDb
<1>2. /\ session \in [Outbox!Tabs -> Outbox!Sessions] /\ rows \subseteq Outbox!RowRecords
      /\ log \in [Outbox!Tabs -> [1 .. MaxOps -> Nat]] /\ cursor \in [Outbox!Tabs -> Nat]
      /\ Outbox!SessionInv /\ Outbox!ProofInv
  BY DEF Outbox!OutboxInv, Outbox!TypeOK
<1>3. session[t] \in Outbox!Sessions /\ session[t].clearing = "proofs"
  BY <1>2 DEF Outbox!Prune, Outbox!ClearingStep, Outbox!Sessions
<1>4. session' = [session EXCEPT ![t] = s] /\ log' = [log EXCEPT ![t] = [n \in 1 .. MaxOps |-> After(n)]]
  BY <1>2, <1>3 DEF Outbox!Prune
<1>5. version = 3
  BY <1>3, IdleFacts, OnIsUpgraded
<1>6. /\ s \in Outbox!Sessions /\ s.sent = session[t].sent /\ s.acks = session[t].acks
      /\ s.covered = session[t].covered /\ s.clearing = "no"
  BY <1>3 DEF Outbox!Sessions
<1> HIDE DEF s
<1>7. \A u \in Outbox!Tabs : \A n \in 1 .. MaxOps :
         /\ log[u][n] \in Nat /\ log[u][n] <= cursor[u]
         /\ log[u][n] # 0 => [tab |-> u, n |-> n] \in paged
  BY <1>5, LogProofs
<1>8. log' \in [Outbox!Tabs -> [1 .. MaxOps -> Nat]]
      /\ \A u \in Outbox!Tabs : \A n \in 1 .. MaxOps :
            log'[u][n] = IF u = t THEN After(n) ELSE log[u][n]
  <2>1. \A n \in 1 .. MaxOps : After(n) \in Nat
    BY <1>7
  <2> HIDE DEF After
  <2> QED BY <1>2, <1>4, <2>1
<1>9. \A r \in rows : Outbox!Op(r) \notin session[t].covered
  BY <1>2, <1>3 DEF Outbox!SessionInv
<1>10. Outbox!TypeOK'
  BY <1>1, <1>2, <1>4, <1>6, <1>8 DEF Outbox!OutboxInv, Outbox!TypeOK
<1>11. Outbox!RowsInv' /\ Outbox!ServerInv' /\ Outbox!KeptInv'
  BY <1>1 DEF Outbox!OutboxInv, Outbox!RowsInv, Outbox!ServerInv, Outbox!KeptInv, Outbox!Recorded,
              Outbox!Op, Outbox!Range, Outbox!Operations
<1>12. Outbox!ProofInv'
  <2>1. ASSUME NEW op \in Outbox!Operations
        PROVE  log'[op.tab][op.n] <= cursor[op.tab] /\ (log'[op.tab][op.n] # 0 => op \in paged)
    <3>1. op.tab \in Outbox!Tabs /\ op.n \in 1 .. MaxOps /\ op = [tab |-> op.tab, n |-> op.n]
      BY DEF Outbox!Operations
    <3>2. log'[op.tab][op.n] \in {0, log[op.tab][op.n]}
      BY <1>8, <3>1
    <3>3. /\ log[op.tab][op.n] \in Nat /\ log[op.tab][op.n] <= cursor[op.tab]
          /\ log[op.tab][op.n] # 0 => op \in paged
      BY <1>7, <3>1
    <3> QED BY <1>2, <3>1, <3>2, <3>3
  <2>2. ASSUME NEW r \in rows, Outbox!Op(r) \in paged PROVE log'[r.tab][r.n] # 0
    <3>1. r.tab \in Outbox!Tabs /\ r.n \in 1 .. MaxOps /\ Outbox!Op(r) = [tab |-> r.tab, n |-> r.n]
      BY <1>2 DEF Outbox!RowRecords, Outbox!Op
    <3>2. r.tab = t => After(r.n) = log[r.tab][r.n]
      BY <1>9, <3>1
    <3>3. log[r.tab][r.n] # 0
      BY <1>5, <2>2, LogProofs
    <3> HIDE DEF After
    <3> QED BY <1>8, <3>1, <3>2, <3>3
  <2>3. \A op : Outbox!ProofOf(op)' = log'[op.tab][op.n]
    BY <1>1, <1>5 DEF Outbox!ProofOf
  <2>4. \A r : Outbox!ProofOf(Outbox!Op(r))' = log'[r.tab][r.n]
    BY <1>1, <1>5 DEF Outbox!ProofOf, Outbox!Op
  <2> HIDE DEF Outbox!ProofOf
  <2> QED BY <1>1, <1>5, <2>1, <2>2, <2>3, <2>4 DEF Outbox!ProofInv, Outbox!Op
<1>13. Outbox!SessionInv'
  <2> SUFFICES ASSUME NEW u \in Outbox!Tabs PROVE
        /\ \A o \in session'[u].sent : Outbox!Recorded(o)'
        /\ session'[u].acks \subseteq Outbox!Range(server)'
        /\ \A o \in session'[u].covered : o.tab = u /\ o \in paged'
        /\ session'[u].clearing = "rows" =>
               \A r \in rows' : Outbox!Op(r) \in session'[u].covered => r.state = "durably_acked"
        /\ session'[u].clearing = "proofs" => \A r \in rows' : Outbox!Op(r) \notin session'[u].covered
    BY DEF Outbox!SessionInv, Outbox!Op
  <2>1. Outbox!Range(server)' = Outbox!Range(server)
    BY <1>1 DEF Outbox!Range
  <2>2. CASE u = t
    <3>1. session'[u] = s
      BY <1>2, <1>4, <2>2
    <3> QED BY <1>1, <1>2, <1>6, <2>1, <2>2, <3>1 DEF Outbox!SessionInv, Outbox!Recorded
  <2>3. CASE u # t
    <3>1. session'[u] = session[u]
      BY <1>2, <1>4, <2>3
    <3> QED BY <1>1, <1>2, <2>1, <3>1 DEF Outbox!SessionInv, Outbox!Recorded
  <2> QED BY <2>2, <2>3
<1> QED BY <1>10, <1>11, <1>12, <1>13 DEF Outbox!OutboxInv

LEMMA OutboxUpgrade ==
    ASSUME Outbox!OutboxInv, Outbox!Upgrade
    PROVE  Outbox!OutboxInv'
<1>1. UNCHANGED <<cursor, rows, seen, server, session, paged>> /\ version = 2 /\ version' = 3
  BY DEF Outbox!Upgrade, Outbox!outboxDb
<1>2. /\ coverage \in [Outbox!Tabs -> [1 .. MaxOps -> Nat]] /\ log = Outbox!None
      /\ rows \subseteq Outbox!RowRecords /\ Outbox!ProofInv
  BY <1>1 DEF Outbox!OutboxInv, Outbox!TypeOK, Outbox!ProofInv
<1>3. \A u \in Outbox!Tabs : \A n \in 1 .. MaxOps : Outbox!Max({log[u][n], coverage[u][n]}) = coverage[u][n]
  <2> SUFFICES ASSUME NEW u \in Outbox!Tabs, NEW n \in 1 .. MaxOps
               PROVE  Outbox!Max({log[u][n], coverage[u][n]}) = coverage[u][n]
    OBVIOUS
  <2>1. log[u][n] = 0 /\ coverage[u][n] \in Nat
    BY <1>2 DEF Outbox!None
  <2>2. Outbox!Max({log[u][n], coverage[u][n]}) = IF log[u][n] >= coverage[u][n] THEN log[u][n] ELSE coverage[u][n]
    BY <2>1, MaxOfTwo
  <2> QED BY <2>1, <2>2
<1>4. log' = coverage
  <2>1. log' = [u \in Outbox!Tabs |-> [n \in 1 .. MaxOps |-> Outbox!Max({log[u][n], coverage[u][n]})]]
    BY DEF Outbox!Upgrade, Outbox!Upgraded
  <2>2. log' = [u \in Outbox!Tabs |-> [n \in 1 .. MaxOps |-> coverage[u][n]]]
    BY <1>3, <2>1
  <2>3. coverage = [u \in Outbox!Tabs |-> [n \in 1 .. MaxOps |-> coverage[u][n]]]
    BY <1>2
  <2> QED BY <2>2, <2>3
<1>5. coverage' \in [Outbox!Tabs -> [1 .. MaxOps -> Nat]]
  BY DEF Outbox!Upgrade, Outbox!None
<1>6. Outbox!TypeOK'
  BY <1>1, <1>2, <1>4, <1>5 DEF Outbox!OutboxInv, Outbox!TypeOK
<1>7. Outbox!RowsInv' /\ Outbox!ServerInv' /\ Outbox!KeptInv' /\ Outbox!SessionInv'
  BY <1>1 DEF Outbox!OutboxInv, Outbox!RowsInv, Outbox!ServerInv, Outbox!KeptInv, Outbox!SessionInv,
              Outbox!Recorded, Outbox!Op, Outbox!Range, Outbox!Operations
<1>8. Outbox!ProofInv'
  <2>1. \A op : Outbox!ProofOf(op)' = Outbox!ProofOf(op)
    BY <1>1, <1>4 DEF Outbox!ProofOf
  <2>2. \A r : Outbox!ProofOf(Outbox!Op(r))' = Outbox!ProofOf(Outbox!Op(r))
    BY <1>1, <1>4 DEF Outbox!ProofOf, Outbox!Op
  <2> HIDE DEF Outbox!ProofOf
  <2> QED BY <1>1, <1>2, <2>1, <2>2 DEF Outbox!ProofInv, Outbox!Op
<1> QED BY <1>6, <1>7, <1>8 DEF Outbox!OutboxInv

\* A browser of version 2, wherever its compaction is.
LEMMA OutboxInit == Outbox!Init => Outbox!OutboxInv
<1> SUFFICES ASSUME Outbox!Init PROVE Outbox!OutboxInv
  OBVIOUS
<1> DEFINE Of(n) == [tab |-> "first", n |-> n]
           At(k, held, paid, removed, acked) ==
               /\ log = Outbox!None
               /\ coverage = [Outbox!None EXCEPT !["first"] =
                                [n \in 1 .. MaxOps |-> IF n <= paid /\ n \notin removed THEN paid ELSE 0]]
               /\ cursor = [first |-> paid, second |-> 0]
               /\ seen = [first |-> k, second |-> 0]
               /\ server = [n \in 1 .. held |-> Of(n)]
               /\ paged = {Of(n) : n \in 1 .. paid}
               /\ rows = {Outbox!Row(Of(n), n, IF n \in acked THEN "durably_acked" ELSE "sent") :
                             n \in (1 .. k) \ removed}
<1>0. \E k \in 0 .. MaxOps : \E held \in 0 .. k : \E paid \in 0 .. held :
      \E removed \in SUBSET (1 .. paid) : \E acked \in SUBSET ((1 .. held) \ removed) :
          At(k, held, paid, removed, acked)
  BY DEF Outbox!Init
<1> HIDE DEF At
<1>1. PICK k, held, paid, removed, acked :
        /\ k \in 0 .. MaxOps /\ held \in 0 .. k /\ paid \in 0 .. held
        /\ removed \in SUBSET (1 .. paid) /\ acked \in SUBSET ((1 .. held) \ removed)
        /\ At(k, held, paid, removed, acked)
  BY <1>0
<1> DEFINE R(n) == Outbox!Row(Of(n), n, IF n \in acked THEN "durably_acked" ELSE "sent")
<1>15. /\ log = Outbox!None
      /\ coverage = [Outbox!None EXCEPT !["first"] =
                       [n \in 1 .. MaxOps |-> IF n <= paid /\ n \notin removed THEN paid ELSE 0]]
      /\ cursor = [first |-> paid, second |-> 0]
      /\ seen = [first |-> k, second |-> 0]
      /\ server = [n \in 1 .. held |-> Of(n)]
      /\ paged = {Of(n) : n \in 1 .. paid}
      /\ rows = {R(n) : n \in (1 .. k) \ removed}
  BY <1>1 DEF At
<1>2. version = 2 /\ session = [t \in Outbox!Tabs |-> Outbox!Off]
  BY DEF Outbox!Init
<1>3. MaxOps \in Nat /\ k \in 0 .. MaxOps /\ held \in 0 .. k /\ paid \in 0 .. held
      /\ removed \subseteq 1 .. paid /\ acked \subseteq (1 .. held) \ removed
  BY <1>1, FanoutAssumption
<1>4. \A n \in 1 .. k : Of(n) \in Outbox!Operations /\ Of(n).tab = "first" /\ Of(n).n = n
  BY <1>3 DEF Outbox!Operations, Outbox!Tabs
<1>16. \A n \in (1 .. k) \ removed :
          /\ R(n) \in Outbox!RowRecords /\ R(n).tab = "first" /\ R(n).n = n
          /\ Outbox!Op(R(n)) = Of(n) /\ R(n).seq = n
          /\ R(n).state = IF n \in acked THEN "durably_acked" ELSE "sent"
  <2> SUFFICES ASSUME NEW n \in (1 .. k) \ removed
        PROVE /\ R(n) \in Outbox!RowRecords /\ R(n).tab = "first" /\ R(n).n = n
              /\ Outbox!Op(R(n)) = Of(n) /\ R(n).seq = n
              /\ R(n).state = IF n \in acked THEN "durably_acked" ELSE "sent"
    OBVIOUS
  <2> DEFINE state == IF n \in acked THEN "durably_acked" ELSE "sent"
  <2>1. R(n) = [tab |-> "first", n |-> n, seq |-> n, state |-> state]
    BY DEF Outbox!Row
  <2>2. n \in 1 .. MaxOps /\ n \in Nat /\ state \in {"pending", "sent", "durably_acked"}
    BY <1>3
  <2> HIDE DEF state, R
  <2>3. R(n) \in Outbox!RowRecords
    BY <2>1, <2>2 DEF Outbox!RowRecords, Outbox!Tabs
  <2> QED BY <2>1, <2>2, <2>3 DEF Outbox!Op, state
<1> HIDE DEF R
<1>5. \A r \in rows : /\ r \in Outbox!RowRecords /\ r.tab = "first" /\ r.n \in (1 .. k) \ removed
                      /\ Outbox!Op(r) = Of(r.n) /\ r.seq = r.n
                      /\ r.state = IF r.n \in acked THEN "durably_acked" ELSE "sent"
  <2> HIDE DEF Of
  <2> QED BY <1>15, <1>16
<1>6. \A n \in (1 .. k) \ removed : \E r \in rows : Outbox!Op(r) = Of(n)
  <2> HIDE DEF Of
  <2> QED BY <1>15, <1>16
<1>7. /\ server \in Seq(Outbox!Operations) /\ DOMAIN server = 1 .. held
      /\ \A i \in 1 .. held : server[i] = Of(i)
      /\ \A o : o \in Outbox!Range(server) <=> \E i \in 1 .. held : o = Of(i)
  <2>1. \A i \in 1 .. held : Of(i) \in Outbox!Operations
    <3> TAKE i \in 1 .. held
    <3>1. i \in 1 .. k
      BY <1>3
    <3> QED BY <1>4, <3>1
  <2>2. DOMAIN server = 1 .. held /\ \A i \in 1 .. held : server[i] = Of(i)
    BY <1>15
  <2> HIDE DEF Of
  <2>3. server \in Seq(Outbox!Operations)
    BY <1>15, <1>3, <2>1
  <2> QED BY <2>2, <2>3 DEF Outbox!Range
<1>8. /\ log \in [Outbox!Tabs -> [1 .. MaxOps -> Nat]] /\ coverage \in [Outbox!Tabs -> [1 .. MaxOps -> Nat]]
      /\ \A op \in Outbox!Operations : coverage[op.tab][op.n] =
            IF op.tab = "first" /\ op.n <= paid /\ op.n \notin removed THEN paid ELSE 0
  BY <1>15, <1>3 DEF Outbox!None, Outbox!Operations, Outbox!Tabs
<1>9. Outbox!TypeOK
  <2>1. cursor \in [Outbox!Tabs -> Nat] /\ seen \in [Outbox!Tabs -> 0 .. MaxOps]
    BY <1>15, <1>3 DEF Outbox!Tabs
  <2>2. paged \subseteq Outbox!Operations
    BY <1>15, <1>3, <1>4
  <2>3. session \in [Outbox!Tabs -> Outbox!Sessions]
    BY <1>2, IdleFacts
  <2>4. rows \subseteq Outbox!RowRecords
    BY <1>5
  <2> HIDE DEF Of
  <2> QED BY <1>2, <1>7, <1>8, <2>1, <2>2, <2>3, <2>4 DEF Outbox!TypeOK
<1>10. Outbox!RowsInv
  <2>1. \A r \in rows : Outbox!Recorded(r)
    BY <1>15, <1>3, <1>5 DEF Outbox!Recorded
  <2>2. \A r \in rows : r.state = "durably_acked" => Outbox!Op(r) \in Outbox!Range(server)
    BY <1>3, <1>5, <1>7
  <2>3. \A r, q \in rows : Outbox!Op(r) = Outbox!Op(q) => r = q
    <3> SUFFICES ASSUME NEW r \in rows, NEW q \in rows, Outbox!Op(r) = Outbox!Op(q) PROVE r = q
      OBVIOUS
    <3>1. r.n = q.n
      BY DEF Outbox!Op
    <3>2. r.tab = q.tab /\ r.seq = q.seq /\ r.state = q.state
      BY <1>5, <3>1
    <3> QED BY <1>5, <3>1, <3>2 DEF Outbox!RowRecords
  <2> QED BY <2>1, <2>2, <2>3 DEF Outbox!RowsInv
<1>11. Outbox!ServerInv
  <2>1. \A i \in DOMAIN server : Outbox!Recorded(server[i])
    <3> SUFFICES ASSUME NEW i \in 1 .. held PROVE server[i].n <= seen[server[i].tab]
      BY <1>7 DEF Outbox!Recorded
    <3>1. server[i].n = i /\ server[i].tab = "first"
      BY <1>7
    <3> QED BY <1>15, <1>3, <3>1
  <2>2. \A i, j \in DOMAIN server : server[i] = server[j] => i = j
    BY <1>7
  <2>3. \A op \in paged : \E i \in DOMAIN server : server[i] = op /\ i <= cursor[op.tab]
    BY <1>15, <1>3, <1>7
  <2> QED BY <2>1, <2>2, <2>3 DEF Outbox!ServerInv
<1>12. Outbox!ProofInv
  <2>1. \A op : Outbox!ProofOf(op) = coverage[op.tab][op.n]
    BY <1>2 DEF Outbox!ProofOf
  <2>2. \A op \in Outbox!Operations : Outbox!ProofOf(op) <= cursor[op.tab] /\ (Outbox!ProofOf(op) # 0 => op \in paged)
    <3> SUFFICES ASSUME NEW op \in Outbox!Operations
                 PROVE coverage[op.tab][op.n] <= cursor[op.tab] /\ (coverage[op.tab][op.n] # 0 => op \in paged)
      BY <2>1
    <3>1. op.tab \in {"first", "second"} /\ op.n \in 1 .. MaxOps /\ op = [tab |-> op.tab, n |-> op.n]
      BY DEF Outbox!Operations, Outbox!Tabs
    <3>2. cursor["first"] = paid /\ cursor["second"] = 0
      BY <1>15
    <3>3. CASE op.tab = "first" /\ op.n <= paid /\ op.n \notin removed
      <4>1. op.n \in 1 .. paid /\ op = Of(op.n)
        BY <1>3, <3>1, <3>3
      <4> QED BY <1>15, <1>3, <1>8, <3>2, <3>3, <4>1
    <3>4. CASE ~(op.tab = "first" /\ op.n <= paid /\ op.n \notin removed)
      BY <1>3, <1>8, <3>1, <3>2, <3>4
    <3> QED BY <3>3, <3>4
  <2>3. \A r \in rows : Outbox!Op(r) \in paged => Outbox!ProofOf(Outbox!Op(r)) # 0
    <3> SUFFICES ASSUME NEW r \in rows, Outbox!Op(r) \in paged
                 PROVE coverage[r.tab][r.n] # 0
      BY <2>1 DEF Outbox!Op
    <3>1. PICK n \in 1 .. paid : Outbox!Op(r) = Of(n)
      BY <1>15
    <3>2. n = r.n /\ r.n \notin removed /\ r.tab = "first"
      BY <1>5, <3>1
    <3>3. Of(n) \in Outbox!Operations /\ Of(n).tab = "first" /\ Of(n).n = n
      BY <1>3, <1>4
    <3>4. coverage[r.tab][r.n] = paid
      BY <1>3, <1>8, <3>2, <3>3
    <3> QED BY <1>3, <3>4
  <2> HIDE DEF Outbox!ProofOf
  <2> QED BY <1>15, <1>2, <2>2, <2>3 DEF Outbox!ProofInv
<1>13. Outbox!SessionInv
  BY <1>2, IdleFacts DEF Outbox!SessionInv
<1>14. Outbox!KeptInv
  <2> SUFFICES ASSUME NEW op \in Outbox!Operations, Outbox!Recorded(op)
               PROVE op \in paged \/ \E r \in rows : Outbox!Op(r) = op
    BY DEF Outbox!KeptInv
  <2>1. op.tab = "first" /\ op.n \in 1 .. k /\ op = Of(op.n)
    BY <1>15, <1>3 DEF Outbox!Operations, Outbox!Tabs, Outbox!Recorded
  <2>2. CASE op.n \in removed
    <3>1. op.n \in 1 .. paid
      BY <1>3, <2>2
    <3> HIDE DEF Of
    <3> QED BY <1>15, <2>1, <3>1
  <2>3. CASE op.n \notin removed
    BY <1>6, <2>1, <2>3
  <2> QED BY <2>2, <2>3
<1> QED BY <1>9, <1>10, <1>11, <1>12, <1>13, <1>14 DEF Outbox!OutboxInv

LEMMA OutboxStep == Outbox!OutboxInv /\ Outbox!Next => Outbox!OutboxInv'
<1> SUFFICES ASSUME Outbox!OutboxInv, Outbox!Next PROVE Outbox!OutboxInv'
  OBVIOUS
<1>1. CASE Outbox!Upgrade
  BY <1>1, OutboxUpgrade
<1>2. ASSUME NEW t \in Outbox!Tabs,
             \/ Outbox!Open(t) \/ Outbox!Reload(t) \/ Outbox!AddPending(t)
             \/ Outbox!Flush(t) \/ Outbox!MarkSent(t) \/ Outbox!MarkDurablyAcked(t) \/ Outbox!Disconnect(t)
             \/ \E op \in session[t].sent : Outbox!Commit(t, op)
             \/ \E upto \in 1 .. Len(server) : Outbox!Catchup(t, upto)
             \/ Outbox!SaveSyncCursor(t) \/ Outbox!ReadCovered(t) \/ Outbox!DeleteRows(t) \/ Outbox!Prune(t)
      PROVE  Outbox!OutboxInv'
  BY <1>2, OutboxOpen, OutboxReload, OutboxAddPending, OutboxFlush, OutboxMarkSent, OutboxMarkDurablyAcked,
     OutboxDisconnect, OutboxCommit, OutboxCatchup, OutboxSaveSyncCursor, OutboxReadCovered,
     OutboxDeleteRows, OutboxPrune
<1> QED BY <1>1, <1>2 DEF Outbox!Next

LEMMA OutboxGoal == Outbox!OutboxInv => Outbox!RemovedIsCovered /\ Outbox!StaysRemovable
<1> SUFFICES ASSUME Outbox!OutboxInv PROVE Outbox!RemovedIsCovered /\ Outbox!StaysRemovable
  OBVIOUS
<1>1. /\ Outbox!TypeOK /\ Outbox!RowsInv /\ Outbox!ServerInv /\ Outbox!ProofInv /\ Outbox!KeptInv
  BY DEF Outbox!OutboxInv
<1>2. server \in Seq(Outbox!Operations) /\ seen \in [Outbox!Tabs -> 0 .. MaxOps] /\ rows \subseteq Outbox!RowRecords
      /\ cursor \in [Outbox!Tabs -> Nat]
  BY <1>1 DEF Outbox!TypeOK
<1>3. Outbox!RemovedIsCovered
  <2> SUFFICES ASSUME NEW t \in Outbox!Tabs, NEW n \in 1 .. seen[t]
        PROVE LET op == [tab |-> t, n |-> n]
              IN \/ \E r \in rows : Outbox!Op(r) = op /\ (r.state = "durably_acked" => Outbox!Position(op) > 0)
                 \/ op \in paged /\ Outbox!Position(op) <= cursor[t]
    BY DEF Outbox!RemovedIsCovered
  <2> DEFINE op == [tab |-> t, n |-> n]
  <2>1. op \in Outbox!Operations /\ Outbox!Recorded(op) /\ op.tab = t
    BY <1>2, FanoutAssumption DEF Outbox!Operations, Outbox!Recorded
  <2> HIDE DEF op
  <2>2. CASE op \in paged
    <3>1. PICK i \in DOMAIN server : server[i] = op /\ i <= cursor[op.tab]
      BY <1>1, <2>2 DEF Outbox!ServerInv
    <3>2. Outbox!Position(op) = i
      BY <1>1, <1>2, <3>1, PositionFacts DEF Outbox!ServerInv
    <3> QED BY <2>1, <2>2, <3>1, <3>2 DEF op
  <2>3. CASE op \notin paged
    <3>1. PICK r \in rows : Outbox!Op(r) = op
      BY <1>1, <2>1, <2>3 DEF Outbox!KeptInv
    <3>2. r.state = "durably_acked" => Outbox!Position(op) \in DOMAIN server
      BY <1>1, <1>2, <3>1, PositionFacts DEF Outbox!RowsInv
    <3>3. r.state = "durably_acked" => Outbox!Position(op) > 0
      BY <1>2, <3>2
    <3> QED BY <3>1, <3>3 DEF op
  <2> QED BY <2>2, <2>3
<1>4. Outbox!StaysRemovable
  <2> SUFFICES ASSUME NEW r \in rows, Outbox!Op(r) \in paged
        PROVE Outbox!ProofOf(Outbox!Op(r)) # 0 /\ Outbox!ProofOf(Outbox!Op(r)) <= cursor[r.tab]
    BY DEF Outbox!StaysRemovable
  <2>1. Outbox!Op(r) \in Outbox!Operations /\ Outbox!Op(r).tab = r.tab
    BY <1>2 DEF Outbox!Op, Outbox!Operations, Outbox!RowRecords
  <2> HIDE DEF Outbox!ProofOf, Outbox!Op
  <2> QED BY <1>1, <2>1 DEF Outbox!ProofInv
<1> QED BY <1>3, <1>4

\* What the outbox recorded leaves it only with the proof that the server
\* has it, and a row keeps its proof (pending-store.ts clearAcked, idb.ts
\* onupgradeneeded).
THEOREM OutboxIsSafeHolds == Spec => []OutboxIsSafe
<1> DEFINE I == part = "OutboxStore" => Outbox!OutboxInv
<1>1. Init => I
  BY OutboxInit DEF Init
<1>2. I /\ [Next]_vars => I'
  <2> SUFFICES ASSUME I, [Next]_vars, part' = "OutboxStore" PROVE Outbox!OutboxInv'
    OBVIOUS
  <2>1. CASE UNCHANGED vars
    <3>1. part = "OutboxStore" /\ UNCHANGED <<version, log, coverage, cursor, rows, seen, server, session, paged>>
      BY <2>1 DEF vars, outboxVars
    <3> QED BY <3>1
      DEF Outbox!OutboxInv, Outbox!TypeOK, Outbox!RowsInv, Outbox!ServerInv, Outbox!ProofInv, Outbox!SessionInv,
          Outbox!KeptInv, Outbox!Recorded, Outbox!ProofOf, Outbox!Op, Outbox!Range
  <2>2. CASE Next
    <3>1. part = "OutboxStore" /\ Outbox!Next
      BY <2>2 DEF Next
    <3> QED BY <3>1, OutboxStep
  <2> QED BY <2>1, <2>2
<1>3. I => OutboxIsSafe
  BY OutboxGoal DEF OutboxIsSafe
<1> QED BY <1>1, <1>2, <1>3, PTL DEF Spec

-----------------------------------------------------------------------------
(* LocalDrafts.                                                            *)

\* A flush stores the array, or leaves it unsaved.
IsFlush(after, s, array, waiting) ==
    /\ Drafts!ByScope(after.saved) /\ after.dirty \in BOOLEAN
    /\ ~waiting => ~after.dirty /\ after.saved = stored /\ after.status = status
    /\ after.dirty => after.saved = stored
    /\ waiting /\ s \in DraftScopes =>
          /\ after.dirty => after.status = "failed"
          /\ ~after.dirty => after.saved = [stored EXCEPT ![s] = array]

LEMMA FlushedFacts ==
    ASSUME Drafts!ByScope(stored), NEW s, NEW array, NEW waiting \in BOOLEAN, NEW works
    PROVE  IsFlush(Drafts!Flushed(s, array, waiting, works), s, array, waiting)
<1> DEFINE fits == s \in DraftScopes /\ waiting /\ works /\ Drafts!Storable(s, array)
           after == Drafts!Flushed(s, array, waiting, works)
<1>1. fits \in BOOLEAN /\ (fits => s \in DraftScopes /\ waiting)
  OBVIOUS
<1>2. /\ after.saved = IF fits THEN [stored EXCEPT ![s] = array] ELSE stored
      /\ after.dirty = (waiting /\ ~fits)
      /\ after.status = IF s \notin DraftScopes \/ ~waiting THEN status ELSE IF fits THEN "saved" ELSE "failed"
  BY DEF Drafts!Flushed, Drafts!StorageKey
<1> HIDE DEF fits, after
<1>3. fits => Drafts!ByScope(after.saved)
  BY <1>1, <1>2 DEF Drafts!ByScope
<1>4. ~fits => Drafts!ByScope(after.saved)
  BY <1>2
<1>5. IsFlush(after, s, array, waiting)
  BY <1>1, <1>2, <1>3, <1>4 DEF IsFlush
<1> QED BY <1>5 DEF after

\* An array replaces the panel's.
LEMMA DraftsReplace ==
    ASSUME Drafts!DraftsInv, scope \in DraftScopes, NEW next, NEW now \in BOOLEAN, NEW works,
           Drafts!Replace(next, now, works), excused' = excused
    PROVE  Drafts!DraftsInv'
<1> DEFINE after == Drafts!Flushed(scope, next, TRUE, works)
<1>1. /\ Drafts!ByScope(after.saved) /\ after.dirty \in BOOLEAN
      /\ after.dirty => after.status = "failed" /\ after.saved = stored
      /\ ~after.dirty => after.saved = [stored EXCEPT ![scope] = next]
  <2>1. Drafts!ByScope(stored)
    BY DEF Drafts!DraftsInv
  <2>2. IsFlush(after, scope, next, TRUE)
    BY <2>1, FlushedFacts
  <2> HIDE DEF after
  <2> QED BY <2>2 DEF IsFlush
<1>2. /\ drafts' = next /\ scope' = scope /\ meant' = [meant EXCEPT ![scope] = next]
      /\ stored' = (IF now THEN after.saved ELSE stored) /\ dirty' = (~now \/ after.dirty)
      /\ status' = (IF now THEN after.status ELSE "waiting")
  BY DEF Drafts!Replace
<1> HIDE DEF after
<1>3. CASE now /\ ~after.dirty
  <2>1. stored' = [stored EXCEPT ![scope] = next] /\ ~dirty' /\ dirty' \in BOOLEAN
    BY <1>1, <1>2, <1>3
  <2> QED BY <1>2, <2>1 DEF Drafts!DraftsInv, Drafts!ByScope
<1>4. CASE ~now \/ after.dirty
  <2>1. stored' = stored /\ dirty' /\ dirty' \in BOOLEAN /\ status' # "saved"
    BY <1>1, <1>2, <1>4
  <2> QED BY <1>2, <2>1 DEF Drafts!DraftsInv, Drafts!ByScope
<1> QED BY <1>1, <1>3, <1>4

LEMMA DraftsBlur ==
    ASSUME Drafts!DraftsInv, NEW works, Drafts!Blur(works)
    PROVE  Drafts!DraftsInv'
<1> DEFINE after == Drafts!Flushed(scope, drafts, dirty, works)
<1>1. dirty = TRUE /\ scope \in DraftScopes /\ UNCHANGED <<scope, drafts, meant, excused>>
  BY DEF Drafts!Blur, Drafts!Signed, Drafts!DraftsInv
<1>2. /\ Drafts!ByScope(after.saved) /\ after.dirty \in BOOLEAN
      /\ after.dirty => after.status = "failed" /\ after.saved = stored
      /\ ~after.dirty => after.saved = [stored EXCEPT ![scope] = drafts]
  <2>1. Drafts!ByScope(stored)
    BY DEF Drafts!DraftsInv
  <2>2. IsFlush(after, scope, drafts, dirty)
    BY <1>1, <2>1, FlushedFacts
  <2> HIDE DEF after
  <2> QED BY <1>1, <2>2 DEF IsFlush
<1>3. stored' = after.saved /\ dirty' = after.dirty /\ status' = after.status
  BY DEF Drafts!Blur
<1> HIDE DEF after
<1>4. drafts = meant[scope]
  BY <1>1 DEF Drafts!DraftsInv, Drafts!ByScope
<1>5. CASE after.dirty
  BY <1>1, <1>2, <1>3, <1>4, <1>5 DEF Drafts!DraftsInv, Drafts!ByScope
<1>6. CASE ~after.dirty
  BY <1>1, <1>2, <1>3, <1>4, <1>6 DEF Drafts!DraftsInv, Drafts!ByScope
<1> QED BY <1>2, <1>5, <1>6

LEMMA DraftsMove ==
    ASSUME Drafts!DraftsInv, NEW to, NEW works, NEW reads, Drafts!Move(to, works, reads)
    PROVE  Drafts!DraftsInv'
<1> DEFINE after == Drafts!Flushed(scope, drafts, dirty, works)
<1>1. /\ dirty \in BOOLEAN /\ Drafts!ByScope(stored)
      /\ dirty => scope \in DraftScopes /\ drafts = meant[scope]
  BY DEF Drafts!DraftsInv
<1>2. /\ Drafts!ByScope(after.saved) /\ after.dirty \in BOOLEAN
      /\ ~dirty => ~after.dirty /\ after.saved = stored
      /\ after.dirty => after.saved = stored
      /\ dirty /\ ~after.dirty => after.saved = [stored EXCEPT ![scope] = drafts]
  <2>2. IsFlush(after, scope, drafts, dirty)
    BY <1>1, FlushedFacts
  <2> HIDE DEF after
  <2> QED BY <1>1, <2>2 DEF IsFlush
<1>3. /\ stored' = after.saved /\ dirty' = FALSE /\ meant' = meant
      /\ excused \subseteq excused' /\ (after.dirty => scope \in excused')
      /\ status' # "saved"
  BY DEF Drafts!Move, Drafts!Left
<1> HIDE DEF after
<1>4. ASSUME NEW s \in DraftScopes \ excused' PROVE stored'[s] = meant'[s]
  <2>1. s \in DraftScopes \ excused /\ ((s = scope /\ dirty) \/ stored[s] = meant[s])
    BY <1>3 DEF Drafts!DraftsInv, Drafts!ByScope
  <2>2. CASE dirty /\ ~after.dirty
    <3>1. stored'[s] = IF s = scope THEN drafts ELSE stored[s]
      BY <1>1, <1>2, <1>3, <2>2 DEF Drafts!ByScope
    <3> QED BY <1>1, <1>3, <2>1, <2>2, <3>1
  <2>3. CASE ~dirty
    BY <1>1, <1>2, <1>3, <2>1, <2>3
  <2>4. CASE after.dirty
    BY <1>1, <1>2, <1>3, <2>1, <2>4
  <2> QED BY <1>1, <1>2, <2>2, <2>3, <2>4
<1> QED BY <1>2, <1>3, <1>4 DEF Drafts!DraftsInv, Drafts!ByScope

LEMMA DraftsStep == Drafts!DraftsInv /\ Drafts!Next => Drafts!DraftsInv'
<1> SUFFICES ASSUME Drafts!DraftsInv, Drafts!Next PROVE Drafts!DraftsInv'
  OBVIOUS
<1>1. ASSUME NEW n, NEW works, Drafts!CreateDraft(n, works) PROVE Drafts!DraftsInv'
  <2>1. \E next : Drafts!Replace(next, TRUE, works) /\ scope \in DraftScopes /\ excused' = excused
    BY <1>1 DEF Drafts!CreateDraft, Drafts!Signed
  <2> QED BY <2>1, DraftsReplace
<1>2. ASSUME NEW n, NEW now \in BOOLEAN, NEW works, Drafts!UpdateDraft(n, now, works) PROVE Drafts!DraftsInv'
  <2>1. \E next : Drafts!Replace(next, now, works) /\ scope \in DraftScopes /\ excused' = excused
    BY <1>2 DEF Drafts!UpdateDraft, Drafts!Signed
  <2> QED BY <2>1, DraftsReplace
<1>3. ASSUME NEW works, Drafts!DeleteDraft(works) PROVE Drafts!DraftsInv'
  <2>1. \E next : Drafts!Replace(next, TRUE, works) /\ scope \in DraftScopes /\ excused' = excused
    BY <1>3 DEF Drafts!DeleteDraft, Drafts!Signed
  <2> QED BY <2>1, DraftsReplace
<1>4. ASSUME NEW i, Drafts!Select(i) PROVE Drafts!DraftsInv'
  BY <1>4 DEF Drafts!Select, Drafts!DraftsInv
<1>5. ASSUME Drafts!Kill PROVE Drafts!DraftsInv'
  BY <1>5 DEF Drafts!Kill, Drafts!DraftsInv
<1> QED BY <1>1, <1>2, <1>3, <1>4, <1>5, DraftsBlur, DraftsMove DEF Drafts!Next

\* The drafts the user left are found again (drafts-panel.tsx, drafts.ts).
THEOREM DraftsAreKeptHolds == Spec => []DraftsAreKept
<1> DEFINE I == part = "LocalDrafts" => Drafts!DraftsInv
<1>1. Init => I
  <2>1. Init /\ part = "LocalDrafts" => Drafts!Init
    BY DEF Init
  <2>2. Drafts!Init => Drafts!DraftsInv
    BY DEF Drafts!Init, Drafts!DraftsInv, Drafts!ByScope
  <2> QED BY <2>1, <2>2
<1>2. I /\ [Next]_vars => I'
  <2> SUFFICES ASSUME I, [Next]_vars, part' = "LocalDrafts" PROVE Drafts!DraftsInv'
    OBVIOUS
  <2>1. CASE UNCHANGED vars
    BY <2>1 DEF vars, localVars, Drafts!DraftsInv
  <2>2. CASE Next
    <3>1. part = "LocalDrafts" /\ Drafts!Next
      BY <2>2 DEF Next
    <3> QED BY <3>1, DraftsStep
  <2> QED BY <2>1, <2>2
<1>3. I => DraftsAreKept
  BY DEF DraftsAreKept, Drafts!DraftsInv, Drafts!DraftsSurvive
<1> QED BY <1>1, <1>2, <1>3, PTL DEF Spec

-----------------------------------------------------------------------------
(* SaveIndicator.                                                          *)

\* The cardinality that SaveIndicator speaks of is the library's.
LEMMA SaveCardinality == \A S : Save!Cardinality(S) = Cardinality(S)
BY Zenon DEF Save!Cardinality, Cardinality

\* The rows that are unacknowledged are finitely many.
LEMMA CountFacts ==
    ASSUME NEW S, S \subseteq Save!Ops
    PROVE  Save!Cardinality(S) \in Nat /\ (Save!Cardinality(S) = 0 => S = {})
<1>1. IsFiniteSet(Save!Ops)
  BY SaveAssumption, FS_Interval DEF Save!Ops
<1>2. IsFiniteSet(S)
  BY <1>1, FS_Subset
<1> QED BY <1>2, FS_CardinalityType, FS_EmptySet, SaveCardinality

\* A report that is read counts the unacknowledged rows.
LEMMA ReportFacts ==
    ASSUME reports \in Seq(Save!Reports), NEW states, NEW confirm \in BOOLEAN
    PROVE  LET after == Save!Report(states, confirm) IN
           /\ after \in Seq(Save!Reports) /\ after # << >>
           /\ after[Len(after)].pending = Save!Cardinality(Save!Unacked(states))
<1> DEFINE pendingRows == {o \in Save!Ops : states[o] \in {"pending", "sent"}}
           ackedRows == {o \in Save!Ops : states[o] \in {"acked"}}
           last == [pending |-> Save!Cardinality(pendingRows), acked |-> Save!Cardinality(ackedRows),
                    confirmed |-> confirm /\ Save!Cardinality(pendingRows) = 0 /\ Save!Cardinality(ackedRows) = 0]
           after == Save!Report(states, confirm)
<1>2. Save!Cardinality(pendingRows) \in Nat /\ Save!Cardinality(ackedRows) \in Nat
  <2>1. pendingRows \subseteq Save!Ops /\ ackedRows \subseteq Save!Ops
    OBVIOUS
  <2> HIDE DEF pendingRows, ackedRows
  <2> QED BY <2>1, CountFacts
<1>3. after = Append(reports, last)
  BY DEF Save!Report
<1>4. pendingRows = Save!Unacked(states)
  BY DEF Save!Unacked
<1> HIDE DEF pendingRows, ackedRows
<1>5. last \in Save!Reports /\ last.pending = Save!Cardinality(pendingRows)
  BY <1>2 DEF Save!Reports
<1> HIDE DEF last
<1>6. Append(reports, last) \in Seq(Save!Reports) /\ Append(reports, last) # << >>
      /\ Append(reports, last)[Len(Append(reports, last))] = last
  BY <1>5
<1> QED BY <1>3, <1>4, <1>5, <1>6

\* A step of the network, or none.
LEMMA SaveNetwork ==
    ASSUME Save!SaveInv, Save!Network
    PROVE  Save!SaveInv'
<1>1. page' \in Save!Pages /\ page'.mode = page.mode /\ page'.mirror = page.mirror
  BY DEF Save!SaveInv, Save!TypeOK, Save!Pages, Save!Network
<1>2. UNCHANGED <<log, row, server, unsaved, session, reports, ui>>
  BY DEF Save!Network
<1> QED BY <1>1, <1>2 DEF Save!SaveInv, Save!TypeOK, Save!MirrorInv, Save!RowInv, Save!CopyInv,
                          Save!ReportInv

\* The empty session and store.
LEMMA ClearedFacts ==
    /\ Save!NoSession \in Save!SessionStates /\ Save!NoSession.conn = Save!None
    /\ Save!NoSession.tail = << >>
    /\ Save!Cleared \in Save!Stores /\ Save!Cleared.outbox = {} /\ Save!Cleared.status = Save!None
    /\ Save!None # "ready"
<1>1. << >> \in Seq(SUBSET Save!Ops)
  OBVIOUS
<1> QED BY <1>1 DEF Save!NoSession, Save!Cleared, Save!SessionStates, Save!Stores, Save!None

\* The session ends, and its status with it.
LEMMA SaveCleared ==
    ASSUME Save!SaveInv, page' \in Save!Pages, unsaved' \in BOOLEAN, Save!MirrorInv',
           session' = Save!NoSession, reports' = << >>, ui' = Save!Cleared,
           UNCHANGED <<log, row, server>>
    PROVE  Save!SaveInv'
<1>1. Save!TypeOK'
  BY ClearedFacts DEF Save!SaveInv, Save!TypeOK
<1>2. Save!RowInv' /\ Save!CopyInv' /\ Save!ReportInv' /\ ui'.status # "ready"
  BY ClearedFacts DEF Save!SaveInv, Save!RowInv, Save!CopyInv, Save!ReportInv
<1> QED BY <1>1, <1>2, ClearedFacts DEF Save!SaveInv

LEMMA SaveFallsBack ==
    ASSUME Save!SaveInv, Save!FallsBack
    PROVE  Save!SaveInv'
<1>1. /\ page' = [page EXCEPT !.mode = "fallback", !.mirror = "saving"] /\ page \in Save!Pages
      /\ unsaved' = TRUE /\ session' = Save!NoSession /\ reports' = << >> /\ ui' = Save!Cleared
      /\ UNCHANGED <<log, row, server>>
  BY DEF Save!FallsBack, Save!SaveInv, Save!TypeOK
<1>2. page' \in Save!Pages /\ page'.mode = "fallback" /\ page'.mirror = "saving"
  BY <1>1 DEF Save!Pages
<1> QED BY <1>1, <1>2, SaveCleared DEF Save!MirrorInv

LEMMA SaveReload ==
    ASSUME Save!SaveInv, Save!Reload
    PROVE  Save!SaveInv'
<1>1. /\ page' = [page EXCEPT !.mode = "idle", !.mirror = "idle"] /\ page \in Save!Pages
      /\ unsaved' = FALSE /\ session' = Save!NoSession /\ reports' = << >> /\ ui' = Save!Cleared
      /\ UNCHANGED <<log, row, server>>
  BY DEF Save!Reload, Save!SaveInv, Save!TypeOK
<1>2. page' \in Save!Pages /\ page'.mode = "idle" /\ page'.mirror = "idle"
  BY <1>1 DEF Save!Pages
<1> QED BY <1>1, <1>2, SaveCleared DEF Save!MirrorInv

LEMMA SaveMirrorReplied ==
    ASSUME Save!SaveInv, NEW reply \in {"saved", "error", "conflict"}, Save!MirrorReplied(reply)
    PROVE  Save!SaveInv'
<1>1. /\ page' = [page EXCEPT !.mirror = reply] /\ page \in Save!Pages /\ page.mode = "fallback"
      /\ unsaved' = (reply # "saved") /\ UNCHANGED <<log, row, server, session, reports, ui>>
  BY DEF Save!MirrorReplied, Save!SaveInv, Save!TypeOK
<1>2. page' \in Save!Pages /\ page'.mode = "fallback" /\ page'.mirror = reply /\ unsaved' \in BOOLEAN
  BY <1>1 DEF Save!Pages
<1> QED BY <1>1, <1>2 DEF Save!SaveInv, Save!TypeOK, Save!MirrorInv, Save!RowInv, Save!CopyInv, Save!ReportInv

\* A step that changes neither the page, nor the log, nor a row.
LEMMA SaveSession ==
    ASSUME Save!SaveInv, UNCHANGED <<page, log, row, server, unsaved>>,
           session' \in Save!SessionStates, reports' \in Seq(Save!Reports), ui' \in Save!Stores,
           Save!CopyInv', Save!ReportInv', ui'.status = "ready" => session'.conn = "ready",
           page.mode # "crdt" => session'.conn = Save!None,
           session'.conn = Save!None => session'.tail = << >>
    PROVE  Save!SaveInv'
<1>1. Save!TypeOK' /\ Save!MirrorInv' /\ Save!RowInv'
  BY DEF Save!SaveInv, Save!TypeOK, Save!MirrorInv, Save!RowInv
<1> QED BY <1>1 DEF Save!SaveInv

\* The last element stays the last when the first is taken.
LEMMA TailFacts ==
    ASSUME NEW S, NEW q \in Seq(S), q # << >>
    PROVE  /\ Head(q) = q[1] /\ Head(q) \in S /\ Tail(q) \in Seq(S)
           /\ Len(q) = 1 => Tail(q) = << >>
           /\ Len(q) # 1 => Tail(q) # << >> /\ Tail(q)[Len(Tail(q))] = q[Len(q)]
<1> DEFINE n == Len(q)
           t == Tail(q)
<1>1. n \in Nat /\ n >= 1 /\ Head(q) = q[1] /\ q[1] \in S
  OBVIOUS
<1>2. t \in Seq(S) /\ Len(t) = n - 1 /\ \A i \in 1 .. n - 1 : t[i] = q[i + 1]
  BY <1>1
<1> HIDE DEF n, t
<1>3. n = 1 => t = << >>
  BY <1>1, <1>2
<1>4. n # 1 => t # << >> /\ t[Len(t)] = q[n]
  <2> SUFFICES ASSUME n # 1 PROVE t # << >> /\ t[Len(t)] = q[n]
    OBVIOUS
  <2>1. n - 1 \in 1 .. n - 1 /\ (n - 1) + 1 = n
    BY <1>1
  <2>2. t[n - 1] = q[n]
    BY <1>2, <2>1
  <2> QED BY <1>1, <1>2, <2>2
<1> QED BY <1>1, <1>2, <1>3, <1>4 DEF n, t

LEMMA SaveDeliver ==
    ASSUME Save!SaveInv, Save!Deliver
    PROVE  Save!SaveInv'
<1> DEFINE report == Head(reports)
           e == ui.error /\ ~(report.confirmed /\ report.pending = 0 /\ report.acked = 0)
<1>1. /\ reports # << >> /\ reports \in Seq(Save!Reports) /\ ui' = Save!WithOutbox(ui, report)
      /\ reports' = Tail(reports) /\ UNCHANGED <<page, log, row, server, unsaved, session>>
      /\ ui \in Save!Stores /\ session \in Save!SessionStates
  BY DEF Save!Deliver, Save!SaveInv, Save!TypeOK
<1>2. report \in Save!Reports /\ reports' \in Seq(Save!Reports) /\ report = reports[1]
  BY <1>1, TailFacts
<1>3. ui' = [ui EXCEPT !.outbox = {report}, !.localOnly = FALSE,
                       !.error = e]
  BY <1>1 DEF Save!WithOutbox
<1>7. e \in BOOLEAN
  BY <1>1 DEF Save!Stores
<1> HIDE DEF report, e
<1>4. ui' \in Save!Stores /\ ui'.outbox = {report} /\ ui'.status = ui.status
  <2>1. ui' = [status |-> ui.status, error |-> e, localOnly |-> FALSE, outbox |-> {report}]
    BY <1>1, <1>3 DEF Save!Stores
  <2>2. ui.status \in {Save!None, "syncing", "ready", "reconnecting"}
    BY <1>1 DEF Save!Stores
  <2> QED BY <1>2, <1>7, <2>1, <2>2 DEF Save!Stores
<1>5. Save!CopyInv' /\ (ui'.status = "ready" => session'.conn = "ready")
      /\ (page.mode # "crdt" => session'.conn = Save!None)
      /\ (session'.conn = Save!None => session'.tail = << >>)
  BY <1>1, <1>4 DEF Save!SaveInv, Save!CopyInv
<1>6. Save!ReportInv'
  <2>1. reports[Len(reports)].pending = Save!Cardinality(Save!Unacked(row)) /\ session.conn # Save!None
    BY <1>1 DEF Save!SaveInv, Save!ReportInv
  <2>4. Save!Unacked(row)' = Save!Unacked(row)
    BY <1>1 DEF Save!Unacked, Save!Ops
  <2>2. CASE Len(reports) = 1
    <3>1. reports' = << >> /\ report.pending = Save!Cardinality(Save!Unacked(row))
      BY <1>1, <1>2, <2>1, <2>2
    <3> QED BY <1>1, <1>4, <2>1, <2>4, <3>1 DEF Save!ReportInv
  <2>3. CASE Len(reports) # 1
    <3>1. reports' # << >> /\ reports'[Len(reports')] = reports[Len(reports)]
      BY <1>1, <2>3, TailFacts
    <3> QED BY <1>1, <2>1, <2>4, <3>1 DEF Save!ReportInv
  <2> QED BY <2>2, <2>3
<1> QED BY <1>1, <1>2, <1>4, <1>5, <1>6, SaveSession

\* The store with a new status, or an error.
LEMMA StoreFacts ==
    ASSUME NEW u \in Save!Stores, NEW s \in {Save!None, "syncing", "ready", "reconnecting"}
    PROVE  /\ Save!WithError(u) \in Save!Stores /\ Save!WithError(u).outbox = u.outbox
           /\ Save!WithError(u).status = u.status
           /\ [u EXCEPT !.status = s] \in Save!Stores /\ [u EXCEPT !.status = s].outbox = u.outbox
           /\ [u EXCEPT !.status = s].status = s
BY DEF Save!Stores, Save!WithError

LEMMA SaveStartsCrdt ==
    ASSUME Save!SaveInv, Save!StartsCrdt
    PROVE  Save!SaveInv'
<1>1. /\ page.mode = "idle" /\ page' = [page EXCEPT !.mode = "crdt"] /\ page \in Save!Pages
      /\ ui' = [Save!Cleared EXCEPT !.localOnly = ~Configured] /\ log \subseteq Save!Ops
      /\ session' = IF Configured THEN [Save!NoSession EXCEPT !.conn = "starting", !.tail = <<log>>]
                    ELSE Save!NoSession
      /\ UNCHANGED <<log, row, server, unsaved, reports>>
  BY DEF Save!StartsCrdt, Save!SaveInv, Save!TypeOK
<1>2. page' \in Save!Pages /\ page'.mode = "crdt" /\ page'.mirror = page.mirror
  BY <1>1 DEF Save!Pages
<1>3. ui' \in Save!Stores /\ ui'.outbox = {} /\ ui'.status # "ready"
  <2> DEFINE b == ~Configured
  <2>1. b \in BOOLEAN /\ ui' = [Save!Cleared EXCEPT !.localOnly = b]
    BY <1>1
  <2> HIDE DEF b
  <2> QED BY <2>1 DEF Save!Cleared, Save!Stores, Save!None
<1>4. session' \in Save!SessionStates /\ (session'.conn = Save!None \/ session'.tail = <<log>>)
      /\ (session'.conn = Save!None => session'.tail = << >>)
  <2>1. <<log>> \in Seq(SUBSET Save!Ops)
    BY <1>1
  <2>2. CASE Configured
    <3>1. session' = [conn |-> "starting", tail |-> <<log>>, broken |-> FALSE, ready |-> FALSE]
      BY <1>1, <2>2 DEF Save!NoSession
    <3> QED BY <2>1, <3>1 DEF Save!SessionStates, Save!None
  <2>3. CASE ~Configured
    BY <1>1, <2>3, ClearedFacts
  <2> QED BY <2>2, <2>3
<1>5. reports = << >>
  BY <1>1 DEF Save!SaveInv, Save!ReportInv
<1>6. Save!TypeOK' /\ Save!MirrorInv' /\ Save!RowInv' /\ Save!ReportInv'
  BY <1>1, <1>2, <1>3, <1>4, <1>5 DEF Save!SaveInv, Save!TypeOK, Save!MirrorInv, Save!RowInv, Save!ReportInv
<1>7. Save!CopyInv'
  <2> SUFFICES ASSUME session'.conn # Save!None, NEW o \in log'
               PROVE \E i \in DOMAIN session'.tail : o \in session'.tail[i]
    BY DEF Save!CopyInv
  <2>1. session'.tail = <<log>> /\ log' = log
    BY <1>1, <1>4
  <2> QED BY <2>1
<1> QED BY <1>2, <1>3, <1>4, <1>6, <1>7 DEF Save!SaveInv

\* A job that is appended to a tail.
LEMMA TailAppend ==
    ASSUME NEW q \in Seq(SUBSET Save!Ops), NEW job \in SUBSET Save!Ops
    PROVE  /\ Append(q, job) \in Seq(SUBSET Save!Ops)
           /\ \A i \in DOMAIN q : i \in DOMAIN Append(q, job) /\ Append(q, job)[i] = q[i]
           /\ \E i \in DOMAIN Append(q, job) : Append(q, job)[i] = job
<1>1. Append(q, job) \in Seq(SUBSET Save!Ops) /\ Len(Append(q, job)) = Len(q) + 1 /\ Len(q) \in Nat
  OBVIOUS
<1>2. Append(q, job)[Len(q) + 1] = job
  OBVIOUS
<1>3. \A i \in 1 .. Len(q) : Append(q, job)[i] = q[i]
  OBVIOUS
<1> QED BY <1>1, <1>2, <1>3

\* The jobs that are left when the first is taken.
LEMMA TailTaken ==
    ASSUME NEW q \in Seq(SUBSET Save!Ops), q # << >>
    PROVE  /\ Tail(q) \in Seq(SUBSET Save!Ops) /\ Head(q) \subseteq Save!Ops
           /\ \A o : (\E i \in DOMAIN q : o \in q[i]) =>
                      o \in Head(q) \/ \E i \in DOMAIN Tail(q) : o \in Tail(q)[i]
<1> DEFINE t == Tail(q)
<1>1. t \in Seq(SUBSET Save!Ops) /\ Len(t) = Len(q) - 1 /\ Len(q) \in Nat \ {0}
  OBVIOUS
<1>2. Head(q) = q[1] /\ \A i \in 1 .. Len(q) - 1 : t[i] = q[i + 1]
  BY <1>1
<1>3. ASSUME NEW o, NEW i \in DOMAIN q, o \in q[i]
      PROVE  o \in Head(q) \/ \E j \in DOMAIN t : o \in t[j]
  <2>1. i = 1 \/ (i - 1 \in 1 .. Len(q) - 1 /\ (i - 1) + 1 = i)
    BY <1>1
  <2>2. CASE i = 1
    BY <1>2, <1>3, <2>2
  <2>3. CASE i - 1 \in 1 .. Len(q) - 1 /\ (i - 1) + 1 = i
    <3>1. t[i - 1] = q[i] /\ i - 1 \in DOMAIN t
      BY <1>1, <1>2, <2>3
    <3> QED BY <1>3, <3>1
  <2> QED BY <2>1, <2>2, <2>3
<1>4. Head(q) \subseteq Save!Ops
  BY <1>1, <1>2
<1> QED BY <1>1, <1>3, <1>4

LEMMA SaveType ==
    ASSUME Save!SaveInv, Save!Type
    PROVE  Save!SaveInv'
<1>1. /\ page \in Save!Pages /\ log \subseteq Save!Ops /\ session \in Save!SessionStates
      /\ Save!CopyInv /\ Save!ReportInv
  BY DEF Save!SaveInv, Save!TypeOK
<1>2. UNCHANGED <<row, server, reports, ui>>
  BY DEF Save!Type
<1>3. CASE page.mode = "fallback" /\ UNCHANGED <<log, session>> /\ page.mirror # "conflict"
           /\ page' = [page EXCEPT !.mirror = "saving"] /\ unsaved' = TRUE
  <2>1. page' \in Save!Pages /\ page'.mode = "fallback" /\ page'.mirror = "saving"
    BY <1>1, <1>3 DEF Save!Pages
  <2> QED BY <1>2, <1>3, <2>1 DEF Save!SaveInv, Save!TypeOK, Save!MirrorInv, Save!RowInv, Save!CopyInv, Save!ReportInv
<1>4. ASSUME NEW o \in Save!Ops \ log, page.mode = "crdt", log' = log \cup {o}, UNCHANGED <<page, unsaved>>,
             session' = IF session.conn = Save!None THEN session
                        ELSE [session EXCEPT !.tail = Append(session.tail, {o})]
      PROVE  Save!SaveInv'
  <2> DEFINE q == session.tail
             more == Append(q, {o})
  <2>1. q \in Seq(SUBSET Save!Ops)
    BY <1>1 DEF Save!SessionStates
  <2>2. /\ more \in Seq(SUBSET Save!Ops)
        /\ \A i \in DOMAIN q : i \in DOMAIN more /\ more[i] = q[i]
        /\ \E i \in DOMAIN more : more[i] = {o}
    <3> HIDE DEF q
    <3>1. {o} \in SUBSET Save!Ops
      BY <1>4
    <3> QED BY <2>1, <3>1, TailAppend
  <2> HIDE DEF more
  <2>3. /\ session' \in Save!SessionStates /\ session'.conn = session.conn /\ session'.broken = session.broken
        /\ session.conn # Save!None => session'.tail = more
    BY <1>1, <1>4, <2>2 DEF Save!SessionStates, more
  <2>4. Save!CopyInv'
    <3> SUFFICES ASSUME session'.conn # Save!None, ~session'.broken, NEW p \in log'
                 PROVE  row'[p] # Save!None \/ \E i \in DOMAIN session'.tail : p \in session'.tail[i]
      BY DEF Save!CopyInv
    <3>1. session'.tail = more
      BY <2>3
    <3>2. CASE p = o
      BY <2>2, <3>1, <3>2
    <3>3. CASE p \in log
      BY <1>1, <1>2, <2>2, <2>3, <3>1, <3>3 DEF Save!CopyInv
    <3> QED BY <1>4, <3>2, <3>3
  <2>5. Save!TypeOK' /\ Save!MirrorInv' /\ Save!RowInv' /\ Save!ReportInv'
    BY <1>1, <1>2, <1>4, <2>3 DEF Save!SaveInv, Save!TypeOK, Save!MirrorInv, Save!RowInv, Save!ReportInv
  <2> QED BY <1>1, <1>2, <1>4, <2>3, <2>4, <2>5 DEF Save!SaveInv
<1> QED BY <1>3, <1>4 DEF Save!Type
\* What the session is after the head of its tail has run.
LEMMA JobTaken ==
    ASSUME session \in Save!SessionStates, session.tail # << >>, NEW b \in BOOLEAN,
           session' = [session EXCEPT !.tail = Tail(session.tail), !.broken = b,
                                      !.conn = IF session.conn = "starting" THEN "down" ELSE session.conn]
    PROVE  /\ session' \in Save!SessionStates /\ session'.tail = Tail(session.tail) /\ session'.broken = b
           /\ (session'.conn = Save!None) <=> (session.conn = Save!None)
           /\ session.conn = "ready" => session'.conn = "ready"
<1> DEFINE q == Tail(session.tail)
           c == IF session.conn = "starting" THEN "down" ELSE session.conn
<1>1. session.tail \in Seq(SUBSET Save!Ops) /\ session.conn \in {Save!None, "starting", "down", "joining", "ready"}
  BY DEF Save!SessionStates
<1>2. q \in Seq(SUBSET Save!Ops)
  BY <1>1, TailTaken
<1>3. c \in {Save!None, "starting", "down", "joining", "ready"} /\ (session.conn = "ready" => c = "ready")
      /\ (c = Save!None <=> session.conn = Save!None)
  BY <1>1 DEF Save!None
<1>4. session' = [session EXCEPT !.tail = q, !.broken = b, !.conn = c]
  OBVIOUS
<1> HIDE DEF q, c
<1>5. session' \in Save!SessionStates /\ session'.tail = q /\ session'.broken = b /\ session'.conn = c
  BY <1>2, <1>3, <1>4 DEF Save!SessionStates
<1> QED BY <1>3, <1>5 DEF q

\* The rows that a job has written.
LEMMA RecordedFacts ==
    ASSUME row \in [Save!Ops -> Save!States], NEW written
    PROVE  LET after == Save!Recorded(written) IN
           /\ after \in [Save!Ops -> Save!States]
           /\ \A o \in Save!Ops : /\ after[o] = row[o] \/ after[o] = "pending"
                                  /\ row[o] # Save!None => after[o] = row[o]
                                  /\ o \in written => after[o] # Save!None
BY DEF Save!Recorded, Save!States, Save!None

LEMMA SaveEnqueue ==
    ASSUME Save!SaveInv, Save!Enqueue
    PROVE  Save!SaveInv'
<1> DEFINE jobOps == Save!JobOps
<1>1. /\ session.tail # << >> /\ row' = Save!Recorded(jobOps)
      /\ reports' = Save!Report(row', FALSE) /\ UNCHANGED <<page, log, server, unsaved, ui>>
      /\ session' = [session EXCEPT !.tail = Tail(session.tail), !.broken = FALSE,
                                    !.conn = IF session.conn = "starting" THEN "down" ELSE session.conn]
      /\ session \in Save!SessionStates /\ row \in [Save!Ops -> Save!States] /\ reports \in Seq(Save!Reports)
      /\ log \subseteq Save!Ops
  BY DEF Save!Enqueue, Save!SaveInv, Save!TypeOK
<1>2. jobOps = Head(session.tail) \cup (IF session.broken THEN log ELSE {})
  BY DEF Save!JobOps
<1> HIDE DEF jobOps
<1>3. /\ row' \in [Save!Ops -> Save!States]
      /\ \A o \in Save!Ops : /\ row'[o] = row[o] \/ row'[o] = "pending"
                             /\ row[o] # Save!None => row'[o] = row[o]
                             /\ o \in jobOps => row'[o] # Save!None
  BY <1>1, RecordedFacts
<1>4. /\ session' \in Save!SessionStates /\ session'.tail = Tail(session.tail) /\ session'.broken = FALSE
      /\ (session'.conn = Save!None) <=> (session.conn = Save!None)
      /\ session.conn = "ready" => session'.conn = "ready"
  BY <1>1, JobTaken
<1>5. reports' \in Seq(Save!Reports) /\ reports' # << >>
      /\ reports'[Len(reports')].pending = Save!Cardinality(Save!Unacked(row'))
  <2> DEFINE rows2 == row'
  <2>1. reports' = Save!Report(rows2, FALSE)
    BY <1>1
  <2> HIDE DEF rows2
  <2>2. /\ reports' \in Seq(Save!Reports) /\ reports' # << >>
        /\ reports'[Len(reports')].pending = Save!Cardinality(Save!Unacked(rows2))
    BY <1>1, <2>1, ReportFacts
  <2> QED BY <2>2 DEF rows2
<1>6. session.conn # Save!None
  BY <1>1 DEF Save!SaveInv
<1>7. Save!ReportInv'
  BY <1>4, <1>5, <1>6 DEF Save!ReportInv, Save!Unacked, Save!Ops
<1>8. Save!CopyInv'
  <2> SUFFICES ASSUME NEW o \in log, row'[o] = Save!None
               PROVE  \E i \in DOMAIN session'.tail : o \in session'.tail[i]
    BY <1>1 DEF Save!CopyInv
  <2>1. o \in Save!Ops /\ row[o] = Save!None /\ o \notin jobOps
    BY <1>1, <1>3
  <2>2. ~session.broken /\ o \notin Head(session.tail)
    BY <1>2, <2>1
  <2>3. \E i \in DOMAIN session.tail : o \in session.tail[i]
    BY <1>6, <2>1, <2>2 DEF Save!SaveInv, Save!CopyInv
  <2>4. session.tail \in Seq(SUBSET Save!Ops)
    BY <1>1 DEF Save!SessionStates
  <2> QED BY <1>1, <1>4, <2>2, <2>3, <2>4, TailTaken
<1>9. Save!TypeOK' /\ Save!MirrorInv' /\ Save!RowInv'
  <2>1. Save!RowInv'
    <3> SUFFICES ASSUME NEW o \in Save!Ops, row'[o] \in {"acked", "cleared"} PROVE o \in server
      BY <1>1 DEF Save!RowInv, Save!Ops
    <3> QED BY <1>3 DEF Save!SaveInv, Save!RowInv
  <2> QED BY <1>1, <1>3, <1>4, <1>5, <2>1 DEF Save!SaveInv, Save!TypeOK, Save!MirrorInv
<1> QED BY <1>1, <1>4, <1>7, <1>8, <1>9 DEF Save!SaveInv

LEMMA SaveEnqueueFails ==
    ASSUME Save!SaveInv, Save!EnqueueFails
    PROVE  Save!SaveInv'
<1>1. /\ session.tail # << >> /\ ui' = Save!WithError(ui) /\ UNCHANGED <<page, log, row, server, unsaved, reports>>
      /\ session' = [session EXCEPT !.tail = Tail(session.tail), !.broken = TRUE,
                                    !.conn = IF session.conn = "starting" THEN "down" ELSE session.conn]
      /\ session \in Save!SessionStates /\ ui \in Save!Stores /\ reports \in Seq(Save!Reports)
  BY DEF Save!EnqueueFails, Save!SaveInv, Save!TypeOK
<1>2. /\ session' \in Save!SessionStates /\ session'.broken = TRUE
      /\ (session'.conn = Save!None) <=> (session.conn = Save!None)
      /\ session.conn = "ready" => session'.conn = "ready"
  BY <1>1, JobTaken
<1>3. ui' \in Save!Stores /\ ui'.outbox = ui.outbox /\ ui'.status = ui.status
  BY <1>1, StoreFacts
<1>4. Save!CopyInv' /\ Save!ReportInv'
  BY <1>1, <1>2, <1>3 DEF Save!SaveInv, Save!CopyInv, Save!ReportInv, Save!Unacked, Save!Ops
<1> QED BY <1>1, <1>2, <1>3, <1>4, SaveSession DEF Save!SaveInv

LEMMA SaveConnect ==
    ASSUME Save!SaveInv, Save!Connect
    PROVE  Save!SaveInv'
<1> DEFINE q == session.tail
           more == Append(q, log)
<1>1. /\ session.conn = "down" /\ UNCHANGED <<page, log, row, server, unsaved, reports>>
      /\ session' = [session EXCEPT !.conn = "joining", !.tail = more]
      /\ ui' = [ui EXCEPT !.status = "syncing"]
      /\ session \in Save!SessionStates /\ ui \in Save!Stores /\ reports \in Seq(Save!Reports)
      /\ log \subseteq Save!Ops
  BY DEF Save!Connect, Save!SaveInv, Save!TypeOK
<1>2. q \in Seq(SUBSET Save!Ops) /\ log \in SUBSET Save!Ops
  BY <1>1 DEF Save!SessionStates
<1>3. /\ more \in Seq(SUBSET Save!Ops) /\ \A i \in DOMAIN q : i \in DOMAIN more /\ more[i] = q[i]
  <2> HIDE DEF q
  <2> QED BY <1>2, TailAppend
<1> HIDE DEF more
<1>4. session' \in Save!SessionStates /\ session'.conn = "joining" /\ session'.tail = more
      /\ session'.broken = session.broken
  BY <1>1, <1>3 DEF Save!SessionStates
<1>5. ui' \in Save!Stores /\ ui'.outbox = ui.outbox /\ ui'.status = "syncing"
  BY <1>1, StoreFacts
<1>6. session.conn # Save!None /\ session'.conn # Save!None
  BY <1>1, <1>4 DEF Save!None
<1>7. Save!CopyInv' /\ Save!ReportInv'
  BY <1>1, <1>3, <1>4, <1>5, <1>6 DEF Save!SaveInv, Save!CopyInv, Save!ReportInv, Save!Unacked, Save!Ops
<1> QED BY <1>1, <1>4, <1>5, <1>6, <1>7, SaveSession DEF Save!SaveInv

\* Rows that move on within "unacknowledged" or past it.
LEMMA RowsFacts ==
    ASSUME row \in [Save!Ops -> Save!States],
           NEW from \in Save!States, NEW to \in Save!States \ {Save!None},
           row' = [o \in Save!Ops |-> IF row[o] = from THEN to ELSE row[o]], from # Save!None,
           <<from, to>> \in {<<"pending", "sent">>, <<"acked", "cleared">>}
    PROVE  /\ row' \in [Save!Ops -> Save!States] /\ Save!Unacked(row)' = Save!Unacked(row)
           /\ \A o \in Save!Ops : row[o] # Save!None => row'[o] # Save!None
           /\ \A o \in Save!Ops : row'[o] \in {"acked", "cleared"} => row[o] \in {"acked", "cleared"}
<1>1. row' \in [Save!Ops -> Save!States]
  OBVIOUS
<1>2. CASE from = "pending" /\ to = "sent"
  BY <1>1, <1>2 DEF Save!Unacked, Save!Ops, Save!None
<1>3. CASE from = "acked" /\ to = "cleared"
  BY <1>1, <1>3 DEF Save!Unacked, Save!Ops, Save!None
<1> QED BY <1>2, <1>3

\* A step of a session that runs, on rows that do not go back.
LEMMA SaveRows ==
    ASSUME Save!SaveInv, UNCHANGED <<page, log, unsaved>>, session.conn # Save!None,
           session' \in Save!SessionStates, session'.tail = session.tail, session'.broken = session.broken,
           session'.conn # Save!None, ui' \in Save!Stores, ui'.status = "ready" => session'.conn = "ready",
           row' \in [Save!Ops -> Save!States], server' \subseteq Save!Ops, reports' \in Seq(Save!Reports),
           \A o \in Save!Ops : row[o] # Save!None => row'[o] # Save!None,
           Save!RowInv', Save!ReportInv'
    PROVE  Save!SaveInv'
<1>1. page.mode = "crdt" /\ log \subseteq Save!Ops
  BY DEF Save!SaveInv, Save!TypeOK
<1>2. Save!TypeOK' /\ Save!MirrorInv'
  BY DEF Save!SaveInv, Save!TypeOK, Save!MirrorInv
<1>3. Save!CopyInv'
  <2> SUFFICES ASSUME ~session'.broken, NEW o \in log'
               PROVE row'[o] # Save!None \/ \E i \in DOMAIN session'.tail : o \in session'.tail[i]
    BY DEF Save!CopyInv
  <2>1. row[o] # Save!None \/ \E i \in DOMAIN session.tail : o \in session.tail[i]
    BY DEF Save!SaveInv, Save!CopyInv
  <2> QED BY <1>1, <2>1
<1> QED BY <1>1, <1>2, <1>3 DEF Save!SaveInv

\* The report of rows whose unacknowledged ones stay the same.
LEMMA SameReport ==
    ASSUME Save!SaveInv, session'.conn # Save!None, reports' = reports, ui'.outbox = ui.outbox,
           Save!Unacked(row)' = Save!Unacked(row)
    PROVE  Save!ReportInv'
BY DEF Save!SaveInv, Save!ReportInv

\* The rows of a step that acknowledges nothing.
LEMMA SameRows ==
    ASSUME Save!SaveInv, server \subseteq server',
           \A o \in Save!Ops : row'[o] \in {"acked", "cleared"} => row[o] \in {"acked", "cleared"}
    PROVE  Save!RowInv'
BY DEF Save!SaveInv, Save!RowInv, Save!Ops

LEMMA SaveCaughtUp ==
    ASSUME Save!SaveInv, Save!CaughtUp
    PROVE  Save!SaveInv'
<1>1. /\ session.conn \in {"joining", "ready"} /\ UNCHANGED <<page, log, server, unsaved, reports>>
      /\ session' = [session EXCEPT !.conn = "ready", !.ready = TRUE]
      /\ ui' = [ui EXCEPT !.status = "ready"]
      /\ row' = [o \in Save!Ops |-> IF row[o] = "acked" THEN "cleared" ELSE row[o]]
      /\ session \in Save!SessionStates /\ ui \in Save!Stores /\ reports \in Seq(Save!Reports)
      /\ row \in [Save!Ops -> Save!States] /\ server \subseteq Save!Ops
  BY DEF Save!CaughtUp, Save!SaveInv, Save!TypeOK
<1>2. /\ row' \in [Save!Ops -> Save!States] /\ Save!Unacked(row)' = Save!Unacked(row)
      /\ \A o \in Save!Ops : row[o] # Save!None => row'[o] # Save!None
      /\ \A o \in Save!Ops : row'[o] \in {"acked", "cleared"} => row[o] \in {"acked", "cleared"}
  <2>1. "acked" \in Save!States /\ "cleared" \in Save!States \ {Save!None} /\ "acked" # Save!None
    BY DEF Save!States, Save!None
  <2> QED BY <1>1, <2>1, RowsFacts
<1>3. session' \in Save!SessionStates /\ session'.conn = "ready" /\ session'.tail = session.tail
      /\ session'.broken = session.broken
  BY <1>1 DEF Save!SessionStates
<1>4. ui' \in Save!Stores /\ ui'.outbox = ui.outbox
  BY <1>1, StoreFacts
<1>5. session.conn # Save!None /\ session'.conn # Save!None
  BY <1>1, <1>3 DEF Save!None
<1>6. Save!RowInv' /\ Save!ReportInv'
  BY <1>1, <1>2, <1>4, <1>5, SameReport, SameRows
<1> QED BY <1>1, <1>2, <1>3, <1>4, <1>5, <1>6, SaveRows

\* A step that only changes the connection and what is said of it.
LEMMA SaveLost ==
    ASSUME Save!SaveInv, UNCHANGED <<page, log, row, server, unsaved, reports>>,
           session.conn \in {"joining", "ready"}, session' = [session EXCEPT !.conn = "down", !.ready = FALSE],
           ui' \in Save!Stores, ui'.outbox = ui.outbox, ui'.status = "reconnecting"
    PROVE  Save!SaveInv'
<1>1. session' \in Save!SessionStates /\ session'.conn = "down" /\ session'.tail = session.tail
      /\ session'.broken = session.broken
  BY DEF Save!SaveInv, Save!TypeOK, Save!SessionStates
<1>2. session.conn # Save!None /\ session'.conn # Save!None
  BY <1>1 DEF Save!None
<1>3. Save!RowInv' /\ Save!ReportInv'
  BY <1>2, SameReport, SameRows DEF Save!Unacked, Save!Ops
<1>4. /\ row' \in [Save!Ops -> Save!States] /\ server' \subseteq Save!Ops /\ reports' \in Seq(Save!Reports)
  BY DEF Save!SaveInv, Save!TypeOK
<1> QED BY <1>1, <1>2, <1>3, <1>4, SaveRows

LEMMA SaveDisconnect ==
    ASSUME Save!SaveInv, Save!Disconnect
    PROVE  Save!SaveInv'
<1>1. ui \in Save!Stores /\ ui' = [ui EXCEPT !.status = "reconnecting"]
  BY DEF Save!Disconnect, Save!SaveInv, Save!TypeOK
<1>2. ui' \in Save!Stores /\ ui'.outbox = ui.outbox /\ ui'.status = "reconnecting"
  BY <1>1, StoreFacts
<1> QED BY <1>2, SaveLost DEF Save!Disconnect

LEMMA SaveConfirmFails ==
    ASSUME Save!SaveInv, Save!ConfirmFails
    PROVE  Save!SaveInv'
<1> DEFINE u == Save!WithError(ui)
<1>1. ui \in Save!Stores /\ ui' = [u EXCEPT !.status = "reconnecting"]
  BY DEF Save!ConfirmFails, Save!SaveInv, Save!TypeOK
<1>2. u \in Save!Stores /\ u.outbox = ui.outbox
  BY <1>1, StoreFacts
<1> HIDE DEF u
<1>3. ui' \in Save!Stores /\ ui'.outbox = ui.outbox /\ ui'.status = "reconnecting"
  BY <1>1, <1>2, StoreFacts
<1> QED BY <1>3, SaveLost DEF Save!ConfirmFails

LEMMA SaveConfirm ==
    ASSUME Save!SaveInv, Save!Confirm
    PROVE  Save!SaveInv'
<1>1. /\ session.conn = "ready" /\ UNCHANGED <<page, log, server, unsaved, ui>>
      /\ reports' = Save!Report(row, TRUE)
      /\ row' = [o \in Save!Ops |-> IF row[o] = "pending" THEN "sent" ELSE row[o]]
      /\ session' = [session EXCEPT !.ready = FALSE]
      /\ session \in Save!SessionStates /\ ui \in Save!Stores /\ reports \in Seq(Save!Reports)
      /\ row \in [Save!Ops -> Save!States] /\ server \subseteq Save!Ops
  BY DEF Save!Confirm, Save!SaveInv, Save!TypeOK
<1>2. /\ row' \in [Save!Ops -> Save!States] /\ Save!Unacked(row)' = Save!Unacked(row)
      /\ \A o \in Save!Ops : row[o] # Save!None => row'[o] # Save!None
      /\ \A o \in Save!Ops : row'[o] \in {"acked", "cleared"} => row[o] \in {"acked", "cleared"}
  <2>1. "pending" \in Save!States /\ "sent" \in Save!States \ {Save!None} /\ "pending" # Save!None
    BY DEF Save!States, Save!None
  <2> QED BY <1>1, <2>1, RowsFacts
<1>3. session' \in Save!SessionStates /\ session'.conn = "ready" /\ session'.tail = session.tail
      /\ session'.broken = session.broken
  BY <1>1 DEF Save!SessionStates
<1>4. reports' \in Seq(Save!Reports) /\ reports' # << >>
      /\ reports'[Len(reports')].pending = Save!Cardinality(Save!Unacked(row))
  BY <1>1, ReportFacts
<1>5. session.conn # Save!None /\ session'.conn # Save!None
  BY <1>1, <1>3 DEF Save!None
<1>6. Save!RowInv' /\ Save!ReportInv'
  BY <1>1, <1>2, <1>4, <1>5, SameRows DEF Save!ReportInv
<1> QED BY <1>1, <1>2, <1>3, <1>4, <1>5, <1>6, SaveRows

LEMMA SaveFlush ==
    ASSUME Save!SaveInv, Save!Flush
    PROVE  Save!SaveInv'
<1>1. /\ session.conn = "ready" /\ UNCHANGED <<page, log, server, unsaved, session, reports, ui>>
      /\ row' = [o \in Save!Ops |-> IF row[o] = "pending" THEN "sent" ELSE row[o]]
      /\ session \in Save!SessionStates /\ ui \in Save!Stores /\ reports \in Seq(Save!Reports)
      /\ row \in [Save!Ops -> Save!States] /\ server \subseteq Save!Ops
  BY DEF Save!Flush, Save!SaveInv, Save!TypeOK
<1>2. /\ row' \in [Save!Ops -> Save!States] /\ Save!Unacked(row)' = Save!Unacked(row)
      /\ \A o \in Save!Ops : row[o] # Save!None => row'[o] # Save!None
      /\ \A o \in Save!Ops : row'[o] \in {"acked", "cleared"} => row[o] \in {"acked", "cleared"}
  <2>1. "pending" \in Save!States /\ "sent" \in Save!States \ {Save!None} /\ "pending" # Save!None
    BY DEF Save!States, Save!None
  <2> QED BY <1>1, <2>1, RowsFacts
<1>5. session.conn # Save!None
  BY <1>1 DEF Save!None
<1>6. Save!RowInv' /\ Save!ReportInv'
  BY <1>1, <1>2, <1>5, SameReport, SameRows
<1> QED BY <1>1, <1>2, <1>5, <1>6, SaveRows DEF Save!SaveInv

LEMMA SaveCommits ==
    ASSUME Save!SaveInv, NEW o \in Save!Ops, Save!Commits(o)
    PROVE  Save!SaveInv'
<1>1. /\ session.conn = "ready" /\ UNCHANGED <<page, log, row, unsaved, session, reports, ui>>
      /\ server' = server \cup {o}
      /\ session \in Save!SessionStates /\ ui \in Save!Stores /\ reports \in Seq(Save!Reports)
      /\ row \in [Save!Ops -> Save!States] /\ server \subseteq Save!Ops
  BY DEF Save!Commits, Save!SaveInv, Save!TypeOK
<1>5. session.conn # Save!None
  BY <1>1 DEF Save!None
<1>6. Save!RowInv' /\ Save!ReportInv'
  BY <1>1, <1>5, SameReport, SameRows DEF Save!Unacked, Save!Ops
<1> QED BY <1>1, <1>5, <1>6, SaveRows DEF Save!SaveInv

LEMMA SaveAcked ==
    ASSUME Save!SaveInv, NEW o \in Save!Ops, Save!Acked(o)
    PROVE  Save!SaveInv'
<1>1. /\ session.conn = "ready" /\ UNCHANGED <<page, log, server, unsaved, session, ui>>
      /\ row' = [row EXCEPT ![o] = "acked"] /\ reports' = Save!Report(row', FALSE) /\ o \in server
      /\ session \in Save!SessionStates /\ ui \in Save!Stores /\ reports \in Seq(Save!Reports)
      /\ row \in [Save!Ops -> Save!States] /\ server \subseteq Save!Ops
  BY DEF Save!Acked, Save!SaveInv, Save!TypeOK
<1>2. /\ row' \in [Save!Ops -> Save!States]
      /\ \A p \in Save!Ops : row[p] # Save!None => row'[p] # Save!None
      /\ \A p \in Save!Ops : row'[p] \in {"acked", "cleared"} => row[p] \in {"acked", "cleared"} \/ p = o
  BY <1>1 DEF Save!States, Save!None
<1>4. reports' \in Seq(Save!Reports) /\ reports' # << >>
      /\ reports'[Len(reports')].pending = Save!Cardinality(Save!Unacked(row'))
  <2> DEFINE rows2 == row'
  <2>1. reports' = Save!Report(rows2, FALSE)
    BY <1>1
  <2> HIDE DEF rows2
  <2>2. /\ reports' \in Seq(Save!Reports) /\ reports' # << >>
        /\ reports'[Len(reports')].pending = Save!Cardinality(Save!Unacked(rows2))
    BY <1>1, <2>1, ReportFacts
  <2> QED BY <2>2 DEF rows2
<1>5. session.conn # Save!None
  BY <1>1 DEF Save!None
<1>6. Save!ReportInv'
  BY <1>1, <1>4, <1>5 DEF Save!ReportInv, Save!Unacked, Save!Ops
<1>7. Save!RowInv'
  BY <1>1, <1>2 DEF Save!SaveInv, Save!RowInv, Save!Ops
<1> QED BY <1>1, <1>2, <1>4, <1>5, <1>6, <1>7, SaveRows DEF Save!SaveInv

LEMMA SaveInit == Save!Init => Save!SaveInv
<1> SUFFICES ASSUME Save!Init PROVE Save!SaveInv
  OBVIOUS
<1>1. /\ page = [mode |-> "idle", mirror |-> "idle", online |-> TRUE]
      /\ log = {} /\ row = [o \in Save!Ops |-> Save!None] /\ server = {} /\ unsaved = FALSE
      /\ session = Save!NoSession /\ reports = << >> /\ ui = Save!Cleared
  BY DEF Save!Init
<1>2. page \in Save!Pages /\ row \in [Save!Ops -> Save!States] /\ reports \in Seq(Save!Reports)
  BY <1>1 DEF Save!Pages, Save!States
<1>3. \A o \in Save!Ops : row[o] \notin {"acked", "cleared"}
  BY <1>1 DEF Save!None
<1> QED BY <1>1, <1>2, <1>3, ClearedFacts
        DEF Save!SaveInv, Save!TypeOK, Save!MirrorInv, Save!RowInv, Save!CopyInv, Save!ReportInv

LEMMA SaveStep == Save!SaveInv /\ Save!Next => Save!SaveInv'
BY SaveNetwork, SaveStartsCrdt, SaveFallsBack, SaveType, SaveReload, SaveDeliver, SaveMirrorReplied,
   SaveEnqueue, SaveEnqueueFails, SaveConnect, SaveCaughtUp, SaveDisconnect, SaveConfirm,
   SaveConfirmFails, SaveFlush, SaveCommits, SaveAcked DEF Save!Next

\* A replica whose session has nothing under way, and whose indicator speaks
\* of the server, has an outbox without an unacknowledged row.
LEMMA SaveReplica ==
    ASSUME Save!SaveInv, page.mode = "crdt", Save!Settled, ~session.broken, Save!SaysOnServer(Save!View)
    PROVE  log \subseteq server
<1>1. page.mirror = "idle" /\ log \subseteq Save!Ops /\ row \in [Save!Ops -> Save!States] /\ ui \in Save!Stores
  BY DEF Save!SaveInv, Save!TypeOK, Save!MirrorInv
<1>2. Save!ReplicaView \in {"server-acknowledged", "saved-mirror"}
  BY <1>1 DEF Save!View, Save!SaysOnServer
<1> DEFINE p == \E r \in ui.outbox : r.pending > 0
           c == \E r \in ui.outbox : r.acked > 0 \/ r.confirmed
<1>3. ~p /\ c
  <2>1. Save!ReplicaView =
          CASE ui.error -> "error"
            [] ~ui.error /\ p -> IF page.online THEN "pending-sync" ELSE "offline"
            [] ~ui.error /\ ~p /\ c -> "server-acknowledged"
            [] ~ui.error /\ ~p /\ ~c /\ ui.localOnly -> "local-only"
            [] OTHER -> IF page.online THEN "saved-locally" ELSE "offline"
    BY DEF Save!ReplicaView
  <2> HIDE DEF p, c
  <2>2. ui.error \in BOOLEAN /\ ui.localOnly \in BOOLEAN
    BY <1>1 DEF Save!Stores
  <2>3. CASE ui.error
    BY <1>2, <2>1, <2>2, <2>3
  <2>4. CASE ~ui.error /\ p
    BY <1>2, <2>1, <2>2, <2>4
  <2>5. CASE ~ui.error /\ ~p /\ ~c
    BY <1>2, <2>1, <2>2, <2>5
  <2> QED BY <2>3, <2>4, <2>5
<1>4. PICK r \in ui.outbox : TRUE
  BY <1>3
<1>5. r.pending \in Nat /\ r.pending = 0
  BY <1>1, <1>3 DEF Save!Stores, Save!Reports
<1>6. Save!Cardinality(Save!Unacked(row)) = 0 /\ session.conn # Save!None
  BY <1>4, <1>5 DEF Save!SaveInv, Save!ReportInv, Save!Settled
<1>7. Save!Unacked(row) = {}
  BY <1>6, CountFacts DEF Save!Unacked
<1>8. ASSUME NEW o \in log PROVE o \in server
  <2>1. row[o] # Save!None
    BY <1>6 DEF Save!SaveInv, Save!CopyInv, Save!Settled
  <2>2. o \in Save!Ops /\ row[o] \in Save!States /\ row[o] \notin {"pending", "sent"}
    BY <1>1, <1>7 DEF Save!Unacked
  <2>3. row[o] \in {"acked", "cleared"}
    BY <2>1, <2>2 DEF Save!States
  <2> QED BY <2>2, <2>3 DEF Save!SaveInv, Save!RowInv
<1> QED BY <1>8

LEMMA SaveGoal == Save!SaveInv => Save!ClaimsHold
<1> SUFFICES ASSUME Save!SaveInv PROVE Save!ClaimsHold
  OBVIOUS
<1>1. ASSUME page.mode = "fallback", Save!SaysOnServer(Save!View) PROVE ~unsaved
  <2>1. page.mirror \in {"saving", "saved", "error", "conflict"} /\ page.online \in BOOLEAN
    BY <1>1 DEF Save!SaveInv, Save!TypeOK, Save!Pages, Save!MirrorInv
  <2>2. Save!MirrorView \in {"server-acknowledged", "saved-mirror"}
    BY <1>1 DEF Save!View, Save!SaysOnServer
  <2>3. page.mirror = "saved"
    BY <2>1, <2>2 DEF Save!MirrorView
  <2> QED BY <2>3 DEF Save!SaveInv, Save!MirrorInv
<1>2. Save!SaysConnected => session.conn = "ready"
  BY DEF Save!SaveInv, Save!SaysConnected, Save!Connected
<1> QED BY <1>1, <1>2, SaveReplica DEF Save!ClaimsHold

\* What the page says of the edits is so, once nothing is under way
\* (save-status.ts toSaveStatusView, use-sync-status-store.ts setOutbox).
THEOREM IndicatorIsRightHolds == Spec => []IndicatorIsRight
<1> DEFINE I == part = "SaveIndicator" => Save!SaveInv
<1>1. Init => I
  <2>1. Init /\ part = "SaveIndicator" => Save!Init
    BY DEF Init
  <2> QED BY <2>1, SaveInit
<1>2. I /\ [Next]_vars => I'
  <2> SUFFICES ASSUME I, [Next]_vars, part' = "SaveIndicator" PROVE Save!SaveInv'
    OBVIOUS
  <2>1. CASE UNCHANGED vars
    BY <2>1 DEF vars, indicatorVars, Save!SaveInv, Save!TypeOK, Save!MirrorInv, Save!RowInv,
                Save!CopyInv, Save!ReportInv, Save!Unacked, Save!Ops
  <2>2. CASE Next
    <3>1. part = "SaveIndicator" /\ Save!Next
      BY <2>2 DEF Next
    <3> QED BY <3>1, SaveStep
  <2> QED BY <2>1, <2>2
<1>3. I => IndicatorIsRight
  BY SaveGoal DEF IndicatorIsRight
<1> QED BY <1>1, <1>2, <1>3, PTL DEF Spec

-----------------------------------------------------------------------------
(* LocalReplica.                                                           *)

\* A sequence of which one element is replaced.
LEMMA ReplacedPage ==
    ASSUME NEW S, NEW s \in Seq(S), NEW m \in DOMAIN s, NEW p \in S, NEW r,
           r = [s EXCEPT ![m] = p]
    PROVE  /\ r \in Seq(S) /\ DOMAIN r = DOMAIN s
           /\ r[m] = p /\ \A k \in DOMAIN s : k # m => r[k] = s[k]
OBVIOUS

\* A set of naturals up to a bound has a largest element.
LEMMA LargestCounter ==
    ASSUME NEW n \in Nat, NEW S, S \subseteq 0 .. n, 0 \in S
    PROVE  Replica!Max(S) \in S /\ \A x \in S : x <= Replica!Max(S)
<1> DEFINE T == {k \in Nat : n - k \in S}
<1>1. n \in T /\ T \subseteq Nat
  OBVIOUS
<1>2. IsWellFoundedOn(OpToRel(<, Nat), Nat)
  BY NatLessThanWellFounded
<1>3. \E k \in T : \A l \in T : ~(<<l, k>> \in OpToRel(<, Nat))
  BY <1>1, <1>2, WFMin
<1>4. PICK k \in T : \A l \in T : ~(<<l, k>> \in OpToRel(<, Nat))
  BY <1>3
<1>5. PICK top : top = n - k
  OBVIOUS
<1>6. k \in Nat /\ top \in S /\ top = n - k
  BY <1>4, <1>5
<1>7. \A x \in S : top >= x
  <2> TAKE x \in S
  <2>1. PICK l : l = n - x
    OBVIOUS
  <2>2. x \in Nat /\ x <= n /\ l \in Nat /\ n - l = x
    BY <2>1
  <2>3. l \in T
    BY <2>2
  <2>4. ~(l < k)
    BY <1>4, <1>6, <2>2, <2>3 DEF OpToRel
  <2> HIDE DEF T
  <2> QED BY <1>6, <2>1, <2>2, <2>4
<1>8. Replica!Max(S) \in S /\ \A x \in S : Replica!Max(S) >= x
  BY <1>7, <1>6 DEF Replica!Max
<1> QED BY <1>8

\* A restored worker's counter is past every own operation in the log.
LEMMA RestoredFacts ==
    ASSUME Replica!ReplicaInv, NEW i \in Replica!Ids
    PROVE  /\ Replica!Restored(i) \in Nat /\ Replica!Restored(i) > 0
           /\ Replica!Restored(i) <= edits + 1
           /\ \A o \in Replica!Own(i) : o.c < Replica!Restored(i)
<1>1. edits \in Nat /\ log[i] \subseteq Replica!Ops /\ \A o \in Replica!Own(i) : o.c <= edits
  BY DEF Replica!ReplicaInv, Replica!TypeOK, Replica!CounterInv
<1>2. PICK S : S = {0} \cup {o.c : o \in Replica!Own(i)}
  OBVIOUS
<1>3. S \subseteq 0 .. edits /\ 0 \in S
  BY <1>1, <1>2 DEF Replica!Own, Replica!Ops
<1>4. Replica!Max(S) \in S /\ \A x \in S : x <= Replica!Max(S)
  BY <1>1, <1>3, LargestCounter
<1>5. Replica!Restored(i) = 1 + Replica!Max(S)
  BY <1>2 DEF Replica!Restored, Replica!LoadLocalState, Replica!Own
<1>6. PICK top : top = Replica!Max(S)
  OBVIOUS
<1>7. top \in Nat /\ top <= edits /\ \A x \in S : x <= top
  <2>1. top \in 0 .. edits
    BY <1>3, <1>4, <1>6
  <2> QED BY <1>1, <1>4, <1>6, <2>1
<1>8. \A o \in Replica!Own(i) : o.c \in Nat /\ o.c <= top
  BY <1>1, <1>2, <1>7 DEF Replica!Own, Replica!Ops
<1> QED BY <1>1, <1>5, <1>6, <1>7, <1>8

\* The fields of a page.
LEMMA PageFields ==
    ASSUME NEW p \in Replica!PageStates
    PROVE  /\ p.tab \in ReplicaTabs /\ p.bridge \in Replica!Bridges /\ p.id \in 0 .. MaxIds
           /\ p.runs \in BOOLEAN /\ p.next \in Nat /\ p.todo \in Seq(Nat)
           /\ p.job \subseteq Replica!Ops
           /\ \A o \in p.job : o.c \in Nat
<1>1. p.job \subseteq Replica!Ops
  BY DEF Replica!PageStates
<1>2. \A o \in Replica!Ops : o.c \in Nat
  BY DEF Replica!Ops
<1> QED BY <1>1, <1>2 DEF Replica!PageStates

\* What WriterInv says of one page.
Writes(p) ==
    /\ p.todo # << >> \/ p.job # {} => p.runs /\ p.bridge = "live"
    /\ p.runs /\ p.bridge = "live" => p.next > 0 /\ \A o \in Replica!Own(p.id) : o.c < p.next
    /\ \A o \in p.job :
           o.id = p.id /\ o.c = p.next - 1 /\ \A q \in Replica!Own(p.id) : q.c < o.c
    /\ \A o, q \in p.job : o = q

Writing == {"held", "live", "fallback"}

\* What CounterInv says of one page, after n edits.
Counts(p, n) ==
    /\ p.next + Len(p.todo) <= n + 1
    /\ \A o \in p.job : o.c <= n
    /\ p.bridge \notin {"live", "left"} => p.todo = << >> /\ p.job = {}

\* More operations leave room.
LEMMA CountsGrow ==
    ASSUME NEW p, NEW n \in Nat, NEW m \in Nat, n <= m, Counts(p, n),
           p.next \in Nat, Len(p.todo) \in Nat, \A o \in p.job : o.c \in Nat
    PROVE  Counts(p, m)
<1>1. p.next + Len(p.todo) <= n + 1 /\ \A o \in p.job : o.c <= n
  BY DEF Counts
<1>2. p.next + Len(p.todo) <= m + 1
  BY <1>1
<1>3. \A o \in p.job : o.c <= m
  BY <1>1
<1> QED BY <1>2, <1>3 DEF Counts

\* A step that leaves the log alone and replaces one page.
LEMMA ReplicaPageStep ==
    ASSUME Replica!ReplicaInv, NEW m \in Replica!Pages, NEW p \in Replica!PageStates,
           mounts' = [mounts EXCEPT ![m] = p], UNCHANGED <<log, cursor, remote>>,
           edits' \in Nat, edits' >= edits, late' \in BOOLEAN, late => late',
           UNCHANGED <<primary, opened>>, primary \in 0 .. drawn', drawn' \in 0 .. MaxIds,
           session' \in [ReplicaTabs -> 0 .. MaxIds],
           locks' \subseteq Replica!Ids \X Replica!Pages, Replica!LockInv',
           p.runs => p.id \in Replica!Ids,
           ~late' => Writes(p),
           Counts(p, edits')
    PROVE  Replica!ReplicaInv'
<1>1. /\ mounts \in Seq(Replica!PageStates) /\ edits \in Nat /\ late \in BOOLEAN
      /\ log \in [Replica!Ids -> SUBSET Replica!Ops]
  BY DEF Replica!ReplicaInv, Replica!TypeOK
<1>2. /\ mounts' \in Seq(Replica!PageStates) /\ Replica!Pages' = Replica!Pages
      /\ mounts'[m] = p /\ \A k \in Replica!Pages : k # m => mounts'[k] = mounts[k]
  BY <1>1, ReplacedPage DEF Replica!Pages
<1>3. \A i : Replica!Own(i)' = Replica!Own(i)
  BY DEF Replica!Own
<1>4. Replica!TypeOK'
  BY <1>1, <1>2 DEF Replica!ReplicaInv, Replica!TypeOK
<1>5. Replica!IdInv'
  <2>1. primary # 0
    BY DEF Replica!ReplicaInv, Replica!IdInv, Replica!Pages
  <2> QED BY <1>2, <2>1 DEF Replica!ReplicaInv, Replica!IdInv
<1>6. Replica!WriterInv'
  <2>1. ~late' => \A k \in Replica!Pages : k # m => Writes(mounts[k])
    BY DEF Replica!ReplicaInv, Replica!WriterInv, Writes
  <2>2. ~late' => \A k \in Replica!Pages : Writes(mounts'[k])
    BY <1>2, <2>1
  <2> QED BY <1>2, <1>3, <2>2 DEF Replica!WriterInv, Writes
<1>7. Replica!CounterInv'
  <2>1. \A i \in Replica!Ids : \A o \in Replica!Own(i) : o.c <= edits'
    BY <1>1 DEF Replica!ReplicaInv, Replica!CounterInv, Replica!Own, Replica!Ops
  <2>2. \A k \in Replica!Pages : k # m => Counts(mounts[k], edits')
    <3> TAKE k \in Replica!Pages
    <3>1. mounts[k] \in Replica!PageStates
      BY <1>1 DEF Replica!Pages
    <3>2. /\ mounts[k].next \in Nat /\ Len(mounts[k].todo) \in Nat
          /\ \A o \in mounts[k].job : o.c \in Nat
      BY <3>1 DEF Replica!PageStates, Replica!Ops
    <3>3. Counts(mounts[k], edits)
      BY DEF Replica!ReplicaInv, Replica!CounterInv, Counts
    <3>4. edits \in Nat /\ edits' \in Nat /\ edits <= edits'
      BY <1>1
    <3> QED BY <3>2, <3>3, <3>4, CountsGrow
  <2> QED BY <1>2, <1>3, <2>1, <2>2 DEF Replica!CounterInv, Counts
<1>8. Replica!CursorInv'
  BY DEF Replica!ReplicaInv, Replica!CursorInv, Replica!CursorCovered
<1>9. Replica!IdentityOnceUnlessLate'
  BY <1>3 DEF Replica!ReplicaInv, Replica!IdentityOnceUnlessLate, Replica!IdentityOnce
<1> QED BY <1>4, <1>5, <1>6, <1>7, <1>8, <1>9 DEF Replica!ReplicaInv

\* The locks are right as long as the page keeps its id and goes on writing or
\* not as before.
LEMMA LocksKept ==
    ASSUME Replica!ReplicaInv, NEW m \in Replica!Pages, NEW p \in Replica!PageStates,
           mounts' = [mounts EXCEPT ![m] = p], UNCHANGED locks,
           p.runs = mounts[m].runs,
           p.bridge \in Writing <=> mounts[m].bridge \in Writing,
           mounts[m].runs /\ mounts[m].bridge \in Writing => p.id = mounts[m].id
    PROVE  Replica!LockInv' /\ locks' \subseteq Replica!Ids \X Replica!Pages
<1>1. mounts \in Seq(Replica!PageStates) /\ locks \subseteq Replica!Ids \X Replica!Pages
  BY DEF Replica!ReplicaInv, Replica!TypeOK
<1>2. /\ Replica!Pages' = Replica!Pages
      /\ mounts'[m] = p /\ \A k \in Replica!Pages : k # m => mounts'[k] = mounts[k]
  BY <1>1, ReplacedPage DEF Replica!Pages
<1>3. /\ \A l \in locks : mounts'[l[2]].runs /\ mounts'[l[2]].id = l[1]
                       /\ mounts'[l[2]].bridge \in Writing
  BY <1>1, <1>2 DEF Replica!ReplicaInv, Replica!LockInv, Writing
<1>4. \A k \in Replica!Pages : mounts'[k].runs /\ mounts'[k].bridge \in Writing
          => <<mounts'[k].id, k>> \in locks
  BY <1>2 DEF Replica!ReplicaInv, Replica!LockInv, Writing
<1> QED BY <1>1, <1>2, <1>3, <1>4 DEF Replica!ReplicaInv, Replica!LockInv, Writing

\* What the invariant says of one page.
LEMMA PageFacts ==
    ASSUME Replica!ReplicaInv, NEW m \in Replica!Pages
    PROVE  /\ mounts[m] \in Replica!PageStates
           /\ mounts[m].runs => mounts[m].id \in Replica!Ids
           /\ ~late => Writes(mounts[m])
           /\ Counts(mounts[m], edits)
           /\ mounts[m].runs /\ mounts[m].bridge \in Writing => <<mounts[m].id, m>> \in locks
<1>1. mounts[m] \in Replica!PageStates
  BY DEF Replica!ReplicaInv, Replica!TypeOK, Replica!Pages
<1>2. ~late => Writes(mounts[m])
  BY DEF Replica!ReplicaInv, Replica!WriterInv, Writes
<1>3. Counts(mounts[m], edits)
  BY DEF Replica!ReplicaInv, Replica!CounterInv, Counts
<1> QED BY <1>1, <1>2, <1>3 DEF Replica!ReplicaInv, Replica!IdInv, Replica!LockInv, Writing

LEMMA GrantedStep ==
    ASSUME Replica!ReplicaInv, NEW m \in Replica!Pages, Replica!Granted(m)
    PROVE  Replica!ReplicaInv'
<1> DEFINE p == [mounts[m] EXCEPT !.bridge = "held"]
           l == <<mounts[m].id, m>>
<1>1. /\ mounts[m].runs /\ mounts[m].bridge = "asking" /\ ~Replica!Held(mounts[m].id)
      /\ locks' = locks \cup {l}
      /\ session' = [session EXCEPT ![mounts[m].tab] = mounts[m].id]
      /\ mounts' = [mounts EXCEPT ![m] = p]
      /\ UNCHANGED <<primary, opened, drawn, log, cursor, remote, edits, late>>
  BY DEF Replica!Granted, Replica!server
<1>2. /\ Replica!TypeOK /\ MaxIds \in Nat /\ mounts[m] \in Replica!PageStates
      /\ mounts[m].id \in Replica!Ids /\ mounts[m].tab \in ReplicaTabs
  BY <1>1, PageFacts, ReplicaAssumption DEF Replica!ReplicaInv, Replica!PageStates
<1>3. p \in Replica!PageStates /\ p.bridge = "held" /\ p.id = mounts[m].id /\ p.runs
      /\ p.todo = mounts[m].todo /\ p.job = mounts[m].job /\ p.next = mounts[m].next
  BY <1>1, <1>2 DEF Replica!PageStates, Replica!Bridges
<1> HIDE DEF p
<1>4. /\ Replica!Pages' = Replica!Pages
      /\ mounts'[m] = p /\ \A k \in Replica!Pages : k # m => mounts'[k] = mounts[k]
  BY <1>1, <1>2, <1>3, ReplacedPage DEF Replica!Pages, Replica!TypeOK
<1>5. \A k \in locks : k \in Replica!Ids \X Replica!Pages /\ k[2] # m /\ k[1] # mounts[m].id
  <2> TAKE k \in locks
  <2>1. k \in Replica!Ids \X Replica!Pages /\ mounts[k[2]].bridge \in Writing
    BY <1>2 DEF Replica!ReplicaInv, Replica!TypeOK, Replica!LockInv, Writing
  <2>2. k = <<k[1], k[2]>> /\ k[2] \in Replica!Pages
    BY <2>1
  <2> QED BY <1>1, <2>1, <2>2 DEF Writing, Replica!Held
<1>6. locks' \subseteq Replica!Ids \X Replica!Pages
  BY <1>1, <1>2, <1>5
<1>7. Replica!LockInv'
  <2>1. \A k \in locks' : mounts'[k[2]].runs /\ mounts'[k[2]].id = k[1]
                       /\ mounts'[k[2]].bridge \in Writing
    BY <1>1, <1>3, <1>4, <1>5 DEF Replica!ReplicaInv, Replica!LockInv, Writing
  <2>2. \A j, k \in locks' : j[1] = k[1] => j = k
    BY <1>1, <1>5 DEF Replica!ReplicaInv, Replica!LockInv
  <2>3. \A k \in Replica!Pages : mounts'[k].runs /\ mounts'[k].bridge \in Writing
            => <<mounts'[k].id, k>> \in locks'
    BY <1>1, <1>3, <1>4 DEF Replica!ReplicaInv, Replica!LockInv, Writing
  <2> QED BY <1>4, <2>1, <2>2, <2>3 DEF Replica!LockInv, Writing
<1>8. ~late' => Writes(p)
  BY <1>1, <1>3, PageFacts DEF Writes
<1>9. Counts(p, edits)
  BY <1>1, <1>3, PageFacts DEF Counts
<1>10. /\ session' \in [ReplicaTabs -> 0 .. MaxIds] /\ edits \in Nat /\ edits >= edits
       /\ primary \in 0 .. drawn' /\ drawn' \in 0 .. MaxIds /\ late' \in BOOLEAN
  BY <1>1, <1>2 DEF Replica!TypeOK, Replica!Ids
<1> QED BY <1>1, <1>2, <1>3, <1>6, <1>7, <1>8, <1>9, <1>10, ReplicaPageStep

LEMMA RefusedStep ==
    ASSUME Replica!ReplicaInv, NEW m \in Replica!Pages, Replica!Refused(m)
    PROVE  Replica!ReplicaInv'
<1> DEFINE p == [mounts[m] EXCEPT !.id = drawn + 1]
<1>1. /\ mounts[m].runs /\ mounts[m].bridge = "asking" /\ Replica!Held(mounts[m].id)
      /\ drawn < MaxIds /\ drawn' = drawn + 1
      /\ mounts' = [mounts EXCEPT ![m] = p]
      /\ UNCHANGED <<primary, session, opened, locks, log, cursor, remote, edits, late>>
  BY DEF Replica!Refused, Replica!server
<1>2. Replica!TypeOK /\ MaxIds \in Nat /\ mounts[m] \in Replica!PageStates
  BY <1>1, PageFacts, ReplicaAssumption DEF Replica!ReplicaInv, Replica!PageStates
<1>3. /\ drawn + 1 \in Replica!Ids /\ drawn + 1 \in 0 .. MaxIds /\ primary \in 0 .. drawn + 1
  <2>1. drawn \in 0 .. MaxIds /\ primary \in 0 .. drawn
    BY <1>2 DEF Replica!TypeOK
  <2> QED BY <1>1, <1>2, <2>1 DEF Replica!Ids
<1>4. p \in Replica!PageStates /\ p.bridge = "asking" /\ p.id \in Replica!Ids /\ p.runs
      /\ p.todo = mounts[m].todo /\ p.job = mounts[m].job /\ p.next = mounts[m].next
  BY <1>1, <1>2, <1>3 DEF Replica!PageStates, Replica!Bridges
<1> HIDE DEF p
<1>5. Replica!LockInv' /\ locks' \subseteq Replica!Ids \X Replica!Pages
  BY <1>1, <1>4, LocksKept DEF Writing
<1>6. ~late' => Writes(p)
  BY <1>1, <1>4, PageFacts DEF Writes
<1>7. Counts(p, edits)
  BY <1>1, <1>4, PageFacts DEF Counts
<1>8. /\ session' \in [ReplicaTabs -> 0 .. MaxIds] /\ edits \in Nat /\ edits >= edits
      /\ primary \in 0 .. drawn' /\ drawn' \in 0 .. MaxIds /\ late' \in BOOLEAN
  BY <1>1, <1>2, <1>3 DEF Replica!TypeOK
<1> QED BY <1>1, <1>3, <1>4, <1>5, <1>6, <1>7, <1>8, ReplicaPageStep

\* A step of one page that touches neither the locks nor the log, after which
\* it holds its lock as before.
LEMMA QuietPageStep ==
    ASSUME Replica!ReplicaInv, NEW m \in Replica!Pages, NEW p \in Replica!PageStates,
           mounts' = [mounts EXCEPT ![m] = p],
           UNCHANGED <<primary, opened, drawn, locks, log, cursor, remote, late>>,
           session' \in [ReplicaTabs -> 0 .. MaxIds], edits' \in {edits, edits + 1},
           p.runs = mounts[m].runs, p.id = mounts[m].id,
           p.bridge \in Writing <=> mounts[m].bridge \in Writing,
           ~late => Writes(p),
           Counts(p, edits')
    PROVE  Replica!ReplicaInv'
<1>1. Replica!TypeOK /\ edits \in Nat /\ late \in BOOLEAN
  BY DEF Replica!ReplicaInv, Replica!TypeOK
<1>2. Replica!LockInv' /\ locks' \subseteq Replica!Ids \X Replica!Pages
  BY LocksKept
<1>3. p.runs => p.id \in Replica!Ids
  BY PageFacts
<1>4. edits' \in Nat /\ edits' >= edits
  BY <1>1
<1>5. primary \in 0 .. drawn' /\ drawn' \in 0 .. MaxIds
  BY <1>1 DEF Replica!TypeOK
<1>6. /\ UNCHANGED <<log, cursor, remote>> /\ UNCHANGED <<primary, opened>> /\ late' \in BOOLEAN
      /\ (late => late') /\ (~late' => Writes(p))
  BY <1>1
<1> QED BY <1>1, <1>2, <1>3, <1>4, <1>5, <1>6, ReplicaPageStep

LEMMA GrantedTooLateStep ==
    ASSUME Replica!ReplicaInv, NEW m \in Replica!Pages, Replica!GrantedTooLate(m)
    PROVE  Replica!ReplicaInv'
<1> DEFINE p == [mounts[m] EXCEPT !.bridge = "left"]
<1>1. /\ mounts[m].runs /\ mounts[m].bridge = "left asking"
      /\ session' = IF Replica!Held(mounts[m].id) THEN session
                    ELSE [session EXCEPT ![mounts[m].tab] = mounts[m].id]
      /\ mounts' = [mounts EXCEPT ![m] = p]
      /\ UNCHANGED <<primary, opened, drawn, locks, log, cursor, remote, edits, late>>
  BY DEF Replica!GrantedTooLate, Replica!server
<1>2. mounts[m] \in Replica!PageStates /\ session' \in [ReplicaTabs -> 0 .. MaxIds]
  <2>1. mounts[m] \in Replica!PageStates /\ session \in [ReplicaTabs -> 0 .. MaxIds]
    BY PageFacts DEF Replica!ReplicaInv, Replica!TypeOK
  <2> QED BY <1>1, <2>1 DEF Replica!PageStates
<1>3. p \in Replica!PageStates /\ p.bridge = "left" /\ p.id = mounts[m].id
      /\ p.runs = mounts[m].runs
      /\ p.todo = mounts[m].todo /\ p.job = mounts[m].job /\ p.next = mounts[m].next
  BY <1>1, <1>2 DEF Replica!PageStates, Replica!Bridges
<1> HIDE DEF p
<1>4. /\ ~late => Writes(p)
      /\ Counts(p, edits)
  BY <1>1, <1>3, PageFacts DEF Writes, Counts
<1>5. p.bridge \in Writing <=> mounts[m].bridge \in Writing
  BY <1>1, <1>3 DEF Writing
<1> QED BY <1>1, <1>2, <1>3, <1>4, <1>5, QuietPageStep

LEMMA LoadStep ==
    ASSUME Replica!ReplicaInv, NEW m \in Replica!Pages, Replica!Load(m)
    PROVE  Replica!ReplicaInv'
<1> DEFINE p == [mounts[m] EXCEPT !.bridge = "live", !.next = Replica!Restored(mounts[m].id)]
<1>1. /\ mounts[m].runs /\ mounts[m].bridge = "held"
      /\ mounts' = [mounts EXCEPT ![m] = p]
      /\ UNCHANGED <<primary, session, opened, drawn, locks, log, cursor, remote, edits, late>>
  BY DEF Replica!Load, Replica!server, Replica!browser
<1>2. /\ mounts[m] \in Replica!PageStates /\ session \in [ReplicaTabs -> 0 .. MaxIds]
      /\ mounts[m].id \in Replica!Ids /\ edits \in Nat
  BY <1>1, PageFacts DEF Replica!ReplicaInv, Replica!TypeOK
<1>3. PICK n : n = Replica!Restored(mounts[m].id)
  OBVIOUS
<1>4. n \in Nat /\ n > 0 /\ n <= edits + 1 /\ \A o \in Replica!Own(mounts[m].id) : o.c < n
  BY <1>2, <1>3, RestoredFacts
<1>5. p \in Replica!PageStates /\ p.bridge = "live" /\ p.id = mounts[m].id
      /\ p.runs = mounts[m].runs
      /\ p.todo = mounts[m].todo /\ p.job = mounts[m].job /\ p.next = n
  BY <1>1, <1>2, <1>3, <1>4 DEF Replica!PageStates, Replica!Bridges
<1> HIDE DEF p
<1>6. ~late => Writes(p)
  BY <1>1, <1>4, <1>5, PageFacts DEF Writes
<1>7. Counts(p, edits)
  <2>1. p.todo = << >> /\ \A o \in p.job : o.c <= edits
    BY <1>1, <1>5, PageFacts DEF Counts
  <2> QED BY <1>2, <1>4, <1>5, <2>1 DEF Counts
<1>8. p.bridge \in Writing <=> mounts[m].bridge \in Writing
  BY <1>1, <1>5 DEF Writing
<1> QED BY <1>1, <1>2, <1>5, <1>6, <1>7, <1>8, QuietPageStep

LEMMA TypeStep ==
    ASSUME Replica!ReplicaInv, NEW m \in Replica!Pages, Replica!Type(m)
    PROVE  Replica!ReplicaInv'
<1> DEFINE p == [mounts[m] EXCEPT !.todo = Append(mounts[m].todo, edits + 1)]
<1>1. /\ mounts[m].runs /\ mounts[m].bridge = "live" /\ edits' = edits + 1
      /\ mounts' = [mounts EXCEPT ![m] = p]
      /\ UNCHANGED <<primary, session, opened, drawn, locks, log, cursor, remote, late>>
  BY DEF Replica!Type, Replica!server, Replica!browser
<1>2. /\ mounts[m] \in Replica!PageStates /\ session \in [ReplicaTabs -> 0 .. MaxIds]
      /\ mounts[m].todo \in Seq(Nat) /\ mounts[m].next \in Nat
      /\ \A o \in mounts[m].job : o.c \in Nat
      /\ edits \in Nat /\ edits + 1 \in Nat
  <2>1. mounts[m] \in Replica!PageStates
    BY PageFacts
  <2>2. session \in [ReplicaTabs -> 0 .. MaxIds] /\ edits \in Nat
    BY DEF Replica!ReplicaInv, Replica!TypeOK
  <2> QED BY <2>1, <2>2, PageFields
<1>3. PICK q : q = Append(mounts[m].todo, edits + 1)
  OBVIOUS
<1>4. q \in Seq(Nat) /\ Len(q) = Len(mounts[m].todo) + 1 /\ Len(mounts[m].todo) \in Nat
  BY <1>2, <1>3
<1>5. p \in Replica!PageStates /\ p.bridge = "live" /\ p.id = mounts[m].id
      /\ p.runs = mounts[m].runs
      /\ p.todo = q /\ p.job = mounts[m].job /\ p.next = mounts[m].next
  BY <1>1, <1>2, <1>3, <1>4 DEF Replica!PageStates
<1> HIDE DEF p
<1>6. ~late => Writes(p)
  <2>1. ~late => Writes(mounts[m])
    BY PageFacts
  <2> QED BY <1>1, <1>5, <2>1 DEF Writes
<1>7. Counts(p, edits')
  <2>1. Counts(mounts[m], edits)
    BY PageFacts
  <2>2. mounts[m].next + Len(mounts[m].todo) <= edits + 1 /\ \A o \in mounts[m].job : o.c <= edits
    BY <2>1 DEF Counts
  <2>3. p.next + Len(p.todo) <= edits' + 1
    BY <1>1, <1>2, <1>4, <1>5, <2>2
  <2>4. \A o \in p.job : o.c <= edits'
    BY <1>1, <1>2, <1>5, <2>2
  <2> QED BY <1>5, <2>3, <2>4 DEF Counts
<1>8. p.bridge \in Writing <=> mounts[m].bridge \in Writing
  BY <1>1, <1>5 DEF Writing
<1> QED BY <1>1, <1>2, <1>5, <1>6, <1>7, <1>8, QuietPageStep

LEMMA GenerateStep ==
    ASSUME Replica!ReplicaInv, NEW m \in Replica!Pages, Replica!Generate(m)
    PROVE  Replica!ReplicaInv'
<1> DEFINE old == mounts[m]
           o == Replica!Op(old.id, old.next, Head(old.todo))
           p == [old EXCEPT !.job = {o}, !.next = old.next + 1, !.todo = Tail(old.todo)]
<1>1. /\ old.runs /\ old.bridge \in {"live", "left"} /\ old.todo # << >> /\ old.job = {}
      /\ mounts' = [mounts EXCEPT ![m] = p]
      /\ UNCHANGED <<primary, session, opened, drawn, locks, log, cursor, remote, edits, late>>
  BY DEF Replica!Generate, Replica!server, Replica!browser
<1>2. /\ old \in Replica!PageStates /\ session \in [ReplicaTabs -> 0 .. MaxIds]
      /\ old.todo \in Seq(Nat) /\ old.next \in Nat /\ old.id \in 0 .. MaxIds
      /\ edits \in Nat
  <2>1. old \in Replica!PageStates
    BY PageFacts
  <2>2. session \in [ReplicaTabs -> 0 .. MaxIds] /\ edits \in Nat
    BY DEF Replica!ReplicaInv, Replica!TypeOK
  <2> QED BY <2>1, <2>2, PageFields
<1>3. PICK q : q = Tail(old.todo)
  OBVIOUS
<1>4. /\ q \in Seq(Nat) /\ Len(q) = Len(old.todo) - 1 /\ Len(old.todo) \in Nat \ {0}
      /\ Head(old.todo) \in Nat
  BY <1>1, <1>2, <1>3
<1>5. o \in Replica!Ops /\ o.id = old.id /\ o.c = old.next
  BY <1>2, <1>4 DEF Replica!Ops, Replica!Op
<1> HIDE DEF o
<1>6. p \in Replica!PageStates /\ p.bridge = old.bridge /\ p.id = old.id
      /\ p.runs = old.runs
      /\ p.todo = q /\ p.job = {o} /\ p.next = old.next + 1
  <2>1. PICK n, j : n = old.next + 1 /\ j = {o}
    OBVIOUS
  <2>2. n \in Nat /\ j \in SUBSET Replica!Ops /\ q \in Seq(Nat)
    BY <1>2, <1>4, <1>5, <2>1
  <2>3. p = [old EXCEPT !.job = j, !.next = n, !.todo = q]
    BY <1>3, <2>1
  <2> HIDE DEF p
  <2> QED BY <1>2, <2>1, <2>2, <2>3 DEF Replica!PageStates
<1> HIDE DEF p
<1>7. ~late => Writes(p)
  <2> SUFFICES ASSUME ~late PROVE Writes(p)
    OBVIOUS
  <2>1. Writes(old)
    BY PageFacts
  <2>2. old.bridge = "live" /\ \A r \in Replica!Own(old.id) : r.c < old.next /\ r.c \in Nat
    <3>1. old.bridge = "live" /\ \A r \in Replica!Own(old.id) : r.c < old.next
      BY <1>1, <2>1 DEF Writes
    <3>2. old.id \in Replica!Ids /\ log \in [Replica!Ids -> SUBSET Replica!Ops]
      BY <1>1, PageFacts DEF Replica!ReplicaInv, Replica!TypeOK
    <3> QED BY <3>1, <3>2 DEF Replica!Own, Replica!Ops
  <2>3. o.c = p.next - 1 /\ p.next > 0
    <3>1. PICK n : n = old.next
      OBVIOUS
    <3>2. n \in Nat /\ o.c = n /\ p.next = n + 1
      BY <1>2, <1>5, <1>6, <3>1
    <3> QED BY <3>2
  <2>4. \A r \in Replica!Own(p.id) : r.c < p.next /\ r.c < o.c
    BY <1>2, <1>5, <1>6, <2>2
  <2> QED BY <1>1, <1>5, <1>6, <2>2, <2>3, <2>4 DEF Writes
<1>8. Counts(p, edits)
  <2>1. Counts(old, edits)
    BY PageFacts
  <2>2. old.next + Len(old.todo) <= edits + 1
    BY <2>1 DEF Counts
  <2>3. p.next + Len(p.todo) <= edits + 1 /\ old.next <= edits
    BY <1>2, <1>4, <1>6, <2>2
  <2> QED BY <1>1, <1>5, <1>6, <2>3 DEF Counts
<1>9. p.bridge \in Writing <=> mounts[m].bridge \in Writing
  BY <1>6
<1> QED BY <1>1, <1>2, <1>6, <1>7, <1>8, <1>9, QuietPageStep

LEMMA FailStep ==
    ASSUME Replica!ReplicaInv, NEW m \in Replica!Pages, Replica!Fail(m)
    PROVE  Replica!ReplicaInv'
<1> DEFINE old == mounts[m]
           p == [old EXCEPT !.job = {}, !.todo = << >>, !.next = 0,
                            !.bridge = IF old.bridge = "left" THEN "left" ELSE "fallback"]
<1>1. /\ old.runs /\ old.job # {}
      /\ mounts' = [mounts EXCEPT ![m] = p]
      /\ UNCHANGED <<primary, session, opened, drawn, locks, log, cursor, remote, edits, late>>
  BY DEF Replica!Fail, Replica!server, Replica!browser
<1>2. /\ old \in Replica!PageStates /\ session \in [ReplicaTabs -> 0 .. MaxIds]
      /\ edits \in Nat
  BY PageFacts DEF Replica!ReplicaInv, Replica!TypeOK
<1>3. old.bridge \in {"live", "left"}
  <2>1. Counts(old, edits)
    BY PageFacts
  <2> QED BY <1>1, <2>1 DEF Counts
<1>4. p \in Replica!PageStates /\ p.bridge \in {"left", "fallback"}
      /\ p.bridge = (IF old.bridge = "left" THEN "left" ELSE "fallback")
      /\ p.id = old.id /\ p.runs = old.runs
      /\ p.todo = << >> /\ p.job = {} /\ p.next = 0
  <2>1. PICK b : b = IF old.bridge = "left" THEN "left" ELSE "fallback"
    OBVIOUS
  <2>2. b \in {"left", "fallback"} /\ b \in Replica!Bridges /\ {} \in SUBSET Replica!Ops
    BY <2>1 DEF Replica!Bridges
  <2>3. PICK q : q = << >>
    OBVIOUS
  <2>4. q \in Seq(Nat)
    BY <2>3
  <2>5. p = [old EXCEPT !.job = {}, !.todo = q, !.next = 0, !.bridge = b]
    BY <2>1, <2>3
  <2> HIDE DEF p
  <2> QED BY <1>2, <2>1, <2>2, <2>3, <2>4, <2>5 DEF Replica!PageStates
<1> HIDE DEF p
<1>5. ~late => Writes(p)
  BY <1>1, <1>4 DEF Writes
<1>6. Counts(p, edits)
  BY <1>2, <1>4 DEF Counts
<1>7. p.bridge \in Writing <=> mounts[m].bridge \in Writing
  BY <1>3, <1>4 DEF Writing
<1> QED BY <1>1, <1>2, <1>4, <1>5, <1>6, <1>7, QuietPageStep

LEMMA LeaveStep ==
    ASSUME Replica!ReplicaInv, NEW m \in Replica!Pages, Replica!Leave(m)
    PROVE  Replica!ReplicaInv'
<1> DEFINE old == mounts[m]
           b == IF old.bridge = "asking" THEN "left asking" ELSE "left"
           p == [old EXCEPT !.bridge = b]
<1>1. /\ old.runs /\ old.bridge \notin {"left", "left asking"}
      /\ mounts' = [mounts EXCEPT ![m] = p]
      /\ locks' = {l \in locks : l[2] # m}
      /\ late' = (late \/ Replica!Busy(m))
      /\ UNCHANGED <<primary, session, opened, drawn, log, cursor, remote, edits>>
  BY DEF Replica!Leave, Replica!server, Replica!browser
<1>2. /\ Replica!TypeOK /\ old \in Replica!PageStates /\ old.id \in Replica!Ids
      /\ Counts(old, edits)
  BY <1>1, PageFacts DEF Replica!ReplicaInv
<1>3. b \in {"left", "left asking"} /\ b \in Replica!Bridges
  BY DEF Replica!Bridges
<1>4. p \in Replica!PageStates /\ p.bridge = b /\ p.id = old.id /\ p.runs
      /\ p.todo = old.todo /\ p.job = old.job /\ p.next = old.next
  BY <1>1, <1>2, <1>3 DEF Replica!PageStates
<1>5. Counts(p, edits)
  BY <1>2, <1>4 DEF Counts
<1> HIDE DEF p, b
<1>6. ~late' => ~late /\ Writes(p)
  BY <1>1, <1>3, <1>4 DEF Writes, Replica!Busy
<1>7. /\ Replica!Pages' = Replica!Pages
      /\ mounts'[m] = p /\ \A k \in Replica!Pages : k # m => mounts'[k] = mounts[k]
  BY <1>1, <1>2, <1>4, ReplacedPage DEF Replica!Pages, Replica!TypeOK
<1>8. \A l \in locks' : l \in locks /\ l \in Replica!Ids \X Replica!Pages /\ l[2] # m
  BY <1>1, <1>2 DEF Replica!TypeOK
<1>9. Replica!LockInv'
  <2>1. \A l \in locks' : mounts'[l[2]].runs /\ mounts'[l[2]].id = l[1]
                       /\ mounts'[l[2]].bridge \in Writing
    BY <1>7, <1>8 DEF Replica!ReplicaInv, Replica!LockInv, Writing
  <2>2. \A j, k \in locks' : j[1] = k[1] => j = k
    BY <1>8 DEF Replica!ReplicaInv, Replica!LockInv
  <2>3. \A k \in Replica!Pages : mounts'[k].runs /\ mounts'[k].bridge \in Writing
            => <<mounts'[k].id, k>> \in locks'
    <3> SUFFICES ASSUME NEW k \in Replica!Pages, mounts'[k].runs, mounts'[k].bridge \in Writing
                 PROVE  <<mounts'[k].id, k>> \in locks'
      OBVIOUS
    <3>1. k # m /\ mounts'[k] = mounts[k]
      BY <1>3, <1>4, <1>7 DEF Writing
    <3>2. PICK l : l = <<mounts[k].id, k>>
      OBVIOUS
    <3>3. l \in locks
      BY <3>1, <3>2 DEF Replica!ReplicaInv, Replica!LockInv, Writing
    <3>4. l[2] # m
      BY <3>1, <3>2
    <3>5. l \in locks'
      BY <1>1, <3>3, <3>4
    <3> QED BY <3>1, <3>2, <3>5
  <2> QED BY <1>7, <2>1, <2>2, <2>3 DEF Replica!LockInv, Writing
<1>10. /\ edits' \in Nat /\ edits' >= edits /\ late' \in BOOLEAN /\ (late => late')
       /\ primary \in 0 .. drawn' /\ drawn' \in 0 .. MaxIds
       /\ session' \in [ReplicaTabs -> 0 .. MaxIds]
       /\ locks' \subseteq Replica!Ids \X Replica!Pages
  <2>1. late' \in BOOLEAN /\ (late => late')
    BY <1>1
  <2>2. /\ edits \in Nat /\ primary \in 0 .. drawn /\ drawn \in 0 .. MaxIds
        /\ session \in [ReplicaTabs -> 0 .. MaxIds]
    BY <1>2 DEF Replica!TypeOK
  <2>3. edits' \in Nat /\ edits' >= edits
    <3>1. edits' = edits
      BY <1>1
    <3> QED BY <2>2, <3>1
  <2>4. locks' \subseteq Replica!Ids \X Replica!Pages
    BY <1>8
  <2> QED BY <1>1, <2>1, <2>2, <2>3, <2>4
<1>11. UNCHANGED <<log, cursor, remote>> /\ UNCHANGED <<primary, opened>> /\ Counts(p, edits')
  BY <1>1, <1>5
<1> QED BY <1>1, <1>2, <1>4, <1>6, <1>9, <1>10, <1>11, ReplicaPageStep

\* Two pages that may write under one id are one page.
LEMMA OneWriter ==
    ASSUME Replica!ReplicaInv, NEW k \in Replica!Pages, NEW m \in Replica!Pages,
           mounts[k].runs, mounts[k].bridge = "live", mounts[m].runs, mounts[m].bridge = "live",
           mounts[k].id = mounts[m].id
    PROVE  k = m
<1>1. <<mounts[k].id, k>> \in locks /\ <<mounts[m].id, m>> \in locks
  BY DEF Replica!ReplicaInv, Replica!LockInv
<1>2. <<mounts[k].id, k>> = <<mounts[m].id, m>>
  BY <1>1 DEF Replica!ReplicaInv, Replica!LockInv
<1> QED BY <1>2

LEMMA CommitStep ==
    ASSUME Replica!ReplicaInv, NEW m \in Replica!Pages, Replica!Commit(m)
    PROVE  Replica!ReplicaInv'
<1> DEFINE old == mounts[m]
           p == [old EXCEPT !.job = {}]
<1>0. PICK i : i = old.id
  OBVIOUS
<1>1. /\ old.runs /\ old.job # {}
      /\ mounts' = [mounts EXCEPT ![m] = p]
      /\ log' = [log EXCEPT ![i] = log[i] \cup old.job]
      /\ UNCHANGED <<primary, session, opened, drawn, locks, cursor, remote, edits, late>>
  BY <1>0 DEF Replica!Commit, Replica!Appended, Replica!server, Replica!browser
<1>2. /\ Replica!TypeOK /\ old \in Replica!PageStates /\ i \in Replica!Ids
      /\ Counts(old, edits) /\ old.job \subseteq Replica!Ops
  BY <1>0, <1>1, PageFacts, PageFields DEF Replica!ReplicaInv
<1>3. p \in Replica!PageStates /\ p.bridge = old.bridge /\ p.id = i /\ p.runs
      /\ p.todo = old.todo /\ p.job = {} /\ p.next = old.next
  BY <1>0, <1>1, <1>2 DEF Replica!PageStates
<1>4. Counts(p, edits)
  BY <1>2, <1>3 DEF Counts
<1> HIDE DEF p
<1>5. /\ mounts' \in Seq(Replica!PageStates) /\ Replica!Pages' = Replica!Pages
      /\ mounts'[m] = p /\ \A k \in Replica!Pages : k # m => mounts'[k] = mounts[k]
  BY <1>1, <1>2, <1>3, ReplacedPage DEF Replica!Pages, Replica!TypeOK
<1>6. /\ log' \in [Replica!Ids -> SUBSET Replica!Ops] /\ log'[i] = log[i] \cup old.job
      /\ \A j \in Replica!Ids : j # i => log'[j] = log[j]
  BY <1>1, <1>2 DEF Replica!TypeOK
<1>7. ASSUME NEW j \in Replica!Ids, NEW o \in Replica!Own(j)'
      PROVE  o \in Replica!Own(j) \/ (j = i /\ o \in old.job)
  <2>1. o \in log'[j] /\ o.id = j
    BY <1>7 DEF Replica!Own
  <2>2. o \in log[j] \/ (j = i /\ o \in old.job)
    BY <1>6, <2>1
  <2> QED BY <2>1, <2>2 DEF Replica!Own
<1>8. Replica!LockInv' /\ locks' \subseteq Replica!Ids \X Replica!Pages
  BY <1>0, <1>1, <1>3, LocksKept
<1>9. Replica!TypeOK'
  BY <1>1, <1>2, <1>5, <1>6, <1>8 DEF Replica!TypeOK
<1>10. Replica!IdInv'
  <2>1. primary # 0
    BY DEF Replica!ReplicaInv, Replica!IdInv, Replica!Pages
  <2> QED BY <1>1, <1>2, <1>3, <1>5, <2>1 DEF Replica!ReplicaInv, Replica!IdInv
<1>11. ASSUME ~late
       PROVE  /\ old.bridge = "live" /\ old.next \in Nat /\ old.next > 0
              /\ \A o \in old.job : o.id = i /\ o.c = old.next - 1 /\ \A q \in Replica!Own(i) : q.c < o.c
              /\ \A o, q \in old.job : o = q
              /\ \A q \in Replica!Own(i) : q.c < old.next
  BY <1>0, <1>1, <1>2, <1>11, PageFacts, PageFields DEF Writes
<1>12. Replica!WriterInv'
  <2> SUFFICES ASSUME ~late, NEW k \in Replica!Pages PROVE Writes(mounts[k])'
    BY <1>1, <1>5 DEF Replica!WriterInv, Writes
  <2>1. CASE k = m
    <3>1. ASSUME NEW o \in Replica!Own(i)' PROVE o.c < old.next
      <4>1. o \in Replica!Own(i) \/ o \in old.job
        BY <1>2, <1>7, <3>1
      <4>2. \A q \in old.job : q.c < old.next
        BY <1>11
      <4> QED BY <1>11, <4>1, <4>2
    <3> QED BY <1>3, <1>5, <1>11, <2>1, <3>1 DEF Writes
  <2>2. CASE k # m
    <3>1. Writes(mounts[k]) /\ mounts'[k] = mounts[k]
      BY <1>5, <2>2, PageFacts
    <3>2. CASE mounts[k].runs /\ mounts[k].bridge = "live"
      <4>1. mounts[k].id \in Replica!Ids /\ mounts[k].id # i
        BY <1>0, <1>1, <1>11, <2>2, <3>2, OneWriter, PageFacts
      <4> QED BY <1>7, <3>1, <4>1 DEF Writes
    <3>3. CASE ~(mounts[k].runs /\ mounts[k].bridge = "live")
      BY <3>1, <3>3 DEF Writes
    <3> QED BY <3>2, <3>3
  <2> QED BY <2>1, <2>2
<1>13. Replica!CounterInv'
  <2>1. \A k \in Replica!Pages : Counts(mounts'[k], edits)
    BY <1>4, <1>5, PageFacts
  <2>2. \A j \in Replica!Ids : \A o \in Replica!Own(j)' : o.c <= edits
    <3>1. \A j \in Replica!Ids : \A o \in Replica!Own(j) : o.c <= edits
      BY DEF Replica!ReplicaInv, Replica!CounterInv
    <3>2. \A o \in old.job : o.c <= edits
      BY <1>2 DEF Counts
    <3>3. ASSUME NEW j \in Replica!Ids, NEW o \in Replica!Own(j)' PROVE o.c <= edits
      BY <1>7, <3>1, <3>2, <3>3
    <3> QED BY <3>3
  <2> QED BY <1>1, <1>5, <2>1, <2>2 DEF Replica!CounterInv, Counts
<1>14. Replica!CursorInv'
  BY <1>1, <1>2, <1>6 DEF Replica!ReplicaInv, Replica!CursorInv, Replica!CursorCovered
<1>15. Replica!IdentityOnceUnlessLate'
  <2> SUFFICES ASSUME ~late, NEW j \in Replica!Ids, NEW o \in Replica!Own(j)',
                      NEW q \in Replica!Own(j)', o.c = q.c
               PROVE  o = q
    BY <1>1 DEF Replica!IdentityOnceUnlessLate, Replica!IdentityOnce
  <2>1. \A r, s \in Replica!Own(j) : r.c = s.c => r = s
    BY DEF Replica!ReplicaInv, Replica!IdentityOnceUnlessLate, Replica!IdentityOnce
  <2>2. /\ o \in Replica!Own(j) \/ (j = i /\ o \in old.job)
        /\ q \in Replica!Own(j) \/ (j = i /\ q \in old.job)
    BY <1>7
  <2>3. CASE j # i
    BY <2>1, <2>2, <2>3
  <2>4. CASE j = i
    <3>1. ASSUME NEW r \in Replica!Own(i), NEW s \in old.job PROVE r.c # s.c
      <4>1. r.c < s.c
        BY <1>11
      <4>2. r \in Replica!Ops /\ s \in Replica!Ops
        BY <1>2 DEF Replica!TypeOK, Replica!Own
      <4> QED BY <4>1, <4>2 DEF Replica!Ops
    <3>2. \A r, s \in old.job : r = s
      BY <1>11
    <3>3. o \in Replica!Own(i) \/ o \in old.job
      BY <2>2, <2>4
    <3>4. q \in Replica!Own(i) \/ q \in old.job
      BY <2>2, <2>4
    <3> QED BY <2>1, <2>4, <3>1, <3>2, <3>3, <3>4
  <2> QED BY <2>3, <2>4
<1> QED BY <1>8, <1>9, <1>10, <1>12, <1>13, <1>14, <1>15 DEF Replica!ReplicaInv

\* A step that changes neither the pages nor the locks nor the log.
LEMMA QuietStep ==
    ASSUME Replica!ReplicaInv, UNCHANGED <<locks, mounts, log, cursor, edits, late>>,
           primary' = primary, drawn' = drawn, opened' \subseteq ReplicaTabs,
           session' \in [ReplicaTabs -> 0 .. MaxIds], remote' \in Nat, remote' >= remote
    PROVE  Replica!ReplicaInv'
<1>1. Replica!Pages' = Replica!Pages /\ \A i : Replica!Own(i)' = Replica!Own(i)
  BY DEF Replica!Pages, Replica!Own
<1>2. Replica!TypeOK'
  BY <1>1 DEF Replica!ReplicaInv, Replica!TypeOK
<1>3. Replica!IdInv' /\ Replica!LockInv'
  BY <1>1 DEF Replica!ReplicaInv, Replica!IdInv, Replica!LockInv
<1>4. Replica!WriterInv' /\ Replica!CounterInv'
  BY <1>1 DEF Replica!ReplicaInv, Replica!WriterInv, Replica!CounterInv
<1>5. Replica!CursorInv'
  <2>1. \A i \in Replica!Ids : cursor[i] \in Nat /\ cursor[i] <= remote /\ remote \in Nat
    BY DEF Replica!ReplicaInv, Replica!TypeOK, Replica!CursorInv
  <2>2. \A i \in Replica!Ids : cursor[i] <= remote'
    BY <2>1
  <2> QED BY <2>2 DEF Replica!ReplicaInv, Replica!CursorInv, Replica!CursorCovered
<1>6. Replica!IdentityOnceUnlessLate'
  BY <1>1 DEF Replica!ReplicaInv, Replica!IdentityOnceUnlessLate, Replica!IdentityOnce
<1> QED BY <1>2, <1>3, <1>4, <1>5, <1>6 DEF Replica!ReplicaInv

LEMMA OpenStep ==
    ASSUME Replica!ReplicaInv, NEW t \in ReplicaTabs, Replica!Open(t)
    PROVE  Replica!ReplicaInv'
<1>1. /\ opened' = opened \cup {t}
      /\ UNCHANGED <<primary, session, drawn, locks, mounts, log, cursor, remote, edits, late>>
  BY DEF Replica!Open, Replica!server
<1>2. opened' \subseteq ReplicaTabs /\ session \in [ReplicaTabs -> 0 .. MaxIds] /\ remote \in Nat
  BY <1>1 DEF Replica!ReplicaInv, Replica!TypeOK
<1>3. session' = session /\ remote' = remote
  BY <1>1
<1>4. session' \in [ReplicaTabs -> 0 .. MaxIds] /\ remote' \in Nat /\ remote' >= remote
  BY <1>2, <1>3
<1> QED BY <1>1, <1>2, <1>4, QuietStep

LEMMA DuplicateStep ==
    ASSUME Replica!ReplicaInv, NEW t \in ReplicaTabs, NEW u \in ReplicaTabs, Replica!Duplicate(t, u)
    PROVE  Replica!ReplicaInv'
<1>1. /\ opened' = opened \cup {u} /\ session' = [session EXCEPT ![u] = session[t]]
      /\ UNCHANGED <<primary, drawn, locks, mounts, log, cursor, remote, edits, late>>
  BY DEF Replica!Duplicate, Replica!server
<1>2. /\ opened' \subseteq ReplicaTabs /\ session' \in [ReplicaTabs -> 0 .. MaxIds] /\ remote \in Nat
      /\ remote' = remote
  BY <1>1 DEF Replica!ReplicaInv, Replica!TypeOK
<1>3. remote' \in Nat /\ remote' >= remote
  BY <1>2
<1> QED BY <1>1, <1>2, <1>3, QuietStep

LEMMA RemoteOpStep == Replica!ReplicaInv /\ Replica!RemoteOp => Replica!ReplicaInv'
<1> SUFFICES ASSUME Replica!ReplicaInv, Replica!RemoteOp PROVE Replica!ReplicaInv'
  OBVIOUS
<1>1. /\ remote' = remote + 1
      /\ UNCHANGED <<primary, session, opened, drawn, locks, mounts, log, cursor, edits, late>>
  BY DEF Replica!RemoteOp, Replica!browser
<1>2. /\ opened' \subseteq ReplicaTabs /\ session' \in [ReplicaTabs -> 0 .. MaxIds] /\ remote \in Nat
  BY <1>1 DEF Replica!ReplicaInv, Replica!TypeOK
<1>3. remote' \in Nat /\ remote' >= remote
  BY <1>1, <1>2
<1> QED BY <1>1, <1>2, <1>3, QuietStep

LEMMA CatchUpStep ==
    ASSUME Replica!ReplicaInv, NEW m \in Replica!Pages, Replica!CatchUp(m)
    PROVE  Replica!ReplicaInv'
<1>1. PICK i : i = mounts[m].id
  OBVIOUS
<1>2. PICK fetched : fetched = {Replica!Op(0, n, 0) : n \in cursor[i] + 1 .. remote}
  OBVIOUS
<1>3. /\ mounts[m].runs
      /\ log' = [log EXCEPT ![i] = log[i] \cup fetched]
      /\ cursor' = [cursor EXCEPT ![i] = remote]
      /\ UNCHANGED <<primary, session, opened, drawn, locks, mounts, remote, edits, late>>
  BY <1>1, <1>2 DEF Replica!CatchUp, Replica!Appended, Replica!StartCursor, Replica!browser
<1>4. Replica!TypeOK /\ i \in Replica!Ids
  BY <1>1, <1>3, PageFacts DEF Replica!ReplicaInv
<1>5. cursor[i] \in Nat /\ cursor[i] <= remote /\ remote \in Nat
  BY <1>4 DEF Replica!ReplicaInv, Replica!TypeOK, Replica!CursorInv
<1>6. \A o \in fetched : o \in Replica!Ops /\ o.id = 0
  BY <1>2, <1>5, ReplicaAssumption DEF Replica!Ops, Replica!Op
<1>7. /\ log' \in [Replica!Ids -> SUBSET Replica!Ops] /\ log'[i] = log[i] \cup fetched
      /\ \A j \in Replica!Ids : j # i => log'[j] = log[j]
  BY <1>3, <1>4, <1>6 DEF Replica!TypeOK
<1>8. /\ cursor' \in [Replica!Ids -> Nat] /\ cursor'[i] = remote
      /\ \A j \in Replica!Ids : j # i => cursor'[j] = cursor[j]
  BY <1>3, <1>4, <1>5 DEF Replica!TypeOK
<1>9. \A j \in Replica!Ids : Replica!Own(j)' = Replica!Own(j)
  <2> TAKE j \in Replica!Ids
  <2>1. j # 0
    BY DEF Replica!Ids
  <2>2. \A o : o \in Replica!Own(j)' <=> o \in Replica!Own(j)
    BY <1>6, <1>7, <2>1 DEF Replica!Own
  <2> QED BY <2>2 DEF Replica!Own
<1>10. Replica!Pages' = Replica!Pages
  BY <1>3 DEF Replica!Pages
<1>11. Replica!TypeOK'
  BY <1>3, <1>4, <1>7, <1>8, <1>10 DEF Replica!TypeOK
<1>12. Replica!IdInv' /\ Replica!LockInv'
  BY <1>3, <1>10 DEF Replica!ReplicaInv, Replica!IdInv, Replica!LockInv
<1>13. Replica!WriterInv'
  <2> SUFFICES ASSUME ~late, NEW k \in Replica!Pages PROVE Writes(mounts[k])'
    BY <1>3, <1>10 DEF Replica!WriterInv, Writes
  <2>1. Writes(mounts[k]) /\ mounts'[k] = mounts[k] /\ (mounts[k].runs => mounts[k].id \in Replica!Ids)
    BY <1>3, PageFacts
  <2>2. CASE mounts[k].runs
    BY <1>9, <2>1, <2>2 DEF Writes
  <2>3. CASE ~mounts[k].runs
    BY <2>1, <2>3 DEF Writes
  <2> QED BY <2>2, <2>3
<1>14. Replica!CounterInv'
  BY <1>3, <1>9, <1>10 DEF Replica!ReplicaInv, Replica!CounterInv
<1>15. Replica!CursorInv'
  <2>1. ASSUME NEW j \in Replica!Ids PROVE cursor'[j] <= remote
    BY <1>5, <1>8 DEF Replica!ReplicaInv, Replica!CursorInv
  <2>2. ASSUME NEW j \in Replica!Ids, NEW n \in 1 .. cursor'[j] PROVE Replica!Op(0, n, 0) \in log'[j]
    <3>1. \A k \in Replica!Ids : \A l \in 1 .. cursor[k] : Replica!Op(0, l, 0) \in log[k]
      BY DEF Replica!ReplicaInv, Replica!CursorInv, Replica!CursorCovered
    <3>2. CASE j # i
      BY <1>7, <1>8, <2>2, <3>1, <3>2
    <3>3. CASE j = i
      <4>1. n \in 1 .. remote
        BY <1>8, <2>2, <3>3
      <4>2. n \in 1 .. cursor[i] \/ n \in cursor[i] + 1 .. remote
        BY <1>5, <4>1
      <4>3. Replica!Op(0, n, 0) \in log[i] \cup fetched
        BY <1>2, <1>4, <3>1, <4>2
      <4> QED BY <1>7, <3>3, <4>3
    <3> QED BY <3>2, <3>3
  <2>3. \A n : Replica!Op(0, n, 0)' = Replica!Op(0, n, 0)
    BY DEF Replica!Op
  <2> QED BY <1>3, <2>1, <2>2, <2>3 DEF Replica!CursorInv, Replica!CursorCovered
<1>16. Replica!IdentityOnceUnlessLate'
  BY <1>3, <1>9 DEF Replica!ReplicaInv, Replica!IdentityOnceUnlessLate, Replica!IdentityOnce
<1> QED BY <1>11, <1>12, <1>13, <1>14, <1>15, <1>16 DEF Replica!ReplicaInv

LEMMA MountStep ==
    ASSUME Replica!ReplicaInv, NEW t \in ReplicaTabs, Replica!Mount(t)
    PROVE  Replica!ReplicaInv'
<1>1. PICK i : i = IF session[t] = 0 THEN primary' ELSE session[t]
  OBVIOUS
<1>2. PICK p : p = Replica!Page(t, i)
  OBVIOUS
<1>3. /\ primary' = IF primary = 0 THEN drawn + 1 ELSE primary
      /\ drawn' = IF primary = 0 THEN drawn + 1 ELSE drawn
      /\ mounts' = Append(mounts, p)
      /\ UNCHANGED <<session, opened, locks, log, cursor, remote, edits, late>>
  BY <1>1, <1>2 DEF Replica!Mount, Replica!server
<1>4. Replica!TypeOK /\ (primary = 0 => drawn = 0)
  BY DEF Replica!ReplicaInv, Replica!IdInv
<1>5. /\ drawn' \in 0 .. MaxIds /\ primary' \in 0 .. drawn' /\ primary' # 0
      /\ primary' \in Replica!Ids
  <2>1. drawn \in 0 .. MaxIds /\ primary \in 0 .. drawn
    BY <1>4 DEF Replica!TypeOK
  <2>2. CASE primary = 0
    <3>1. drawn = 0 /\ primary' = 1 /\ drawn' = 1
      BY <1>3, <1>4, <2>2
    <3> QED BY <3>1, ReplicaAssumption DEF Replica!Ids
  <2>3. CASE primary # 0
    <3>1. primary' = primary /\ drawn' = drawn
      BY <1>3, <2>3
    <3> QED BY <2>1, <2>3, <3>1, ReplicaAssumption DEF Replica!Ids
  <2> QED BY <2>2, <2>3
<1>6. i \in Replica!Ids
  BY <1>1, <1>5, <1>4, ReplicaAssumption DEF Replica!TypeOK, Replica!Ids
<1>7. p \in Replica!PageStates /\ p.bridge = "asking" /\ p.id = i /\ p.todo = << >> /\ p.job = {}
      /\ p.next = 0
  <2>1. << >> \in Seq(Nat) /\ i \in 0 .. MaxIds
    BY <1>6, ReplicaAssumption DEF Replica!Ids
  <2> QED BY <1>2, <2>1 DEF Replica!Page, Replica!PageStates, Replica!Bridges
<1>8. PICK n : n = Len(mounts) + 1
  OBVIOUS
<1>9. /\ mounts' \in Seq(Replica!PageStates) /\ Replica!Pages' = Replica!Pages \cup {n}
       /\ mounts'[n] = p /\ \A k \in Replica!Pages : mounts'[k] = mounts[k]
  BY <1>3, <1>4, <1>7, <1>8 DEF Replica!TypeOK, Replica!Pages
<1>10. \A j : Replica!Own(j)' = Replica!Own(j)
  BY <1>3 DEF Replica!Own
<1>11. \A l \in locks : l \in Replica!Ids \X Replica!Pages
  BY <1>4 DEF Replica!TypeOK
<1>12. Replica!TypeOK'
  BY <1>3, <1>5, <1>4, <1>9, <1>11 DEF Replica!TypeOK
<1>13. Replica!IdInv'
  BY <1>5, <1>6, <1>7, <1>9 DEF Replica!ReplicaInv, Replica!IdInv
<1>14. Replica!LockInv'
  <2>1. \A l \in locks : mounts'[l[2]] = mounts[l[2]]
    BY <1>9, <1>11
  <2>2. \A k \in Replica!Pages' : mounts'[k].runs /\ mounts'[k].bridge \in Writing
            => <<mounts'[k].id, k>> \in locks
    BY <1>7, <1>9 DEF Replica!ReplicaInv, Replica!LockInv, Writing
  <2> QED BY <1>3, <2>1, <2>2 DEF Replica!ReplicaInv, Replica!LockInv, Writing
<1>15. Replica!WriterInv'
  <2>1. Writes(p)
    BY <1>7 DEF Writes
  <2>2. ~late => \A k \in Replica!Pages' : Writes(mounts'[k])
    BY <1>9, <2>1, PageFacts
  <2> QED BY <1>3, <1>10, <2>2 DEF Replica!WriterInv, Writes
<1>16. Replica!CounterInv'
  <2>1. edits \in Nat
    BY <1>4 DEF Replica!TypeOK
  <2>2. Counts(p, edits)
    BY <1>7, <2>1 DEF Counts
  <2>3. \A k \in Replica!Pages' : Counts(mounts'[k], edits)
    BY <1>9, <2>2, PageFacts
  <2> QED BY <1>3, <1>10, <2>3 DEF Replica!ReplicaInv, Replica!CounterInv, Counts
<1>17. Replica!CursorInv'
  BY <1>3 DEF Replica!ReplicaInv, Replica!CursorInv, Replica!CursorCovered
<1>18. Replica!IdentityOnceUnlessLate'
  BY <1>3, <1>10 DEF Replica!ReplicaInv, Replica!IdentityOnceUnlessLate, Replica!IdentityOnce
<1> QED BY <1>12, <1>13, <1>14, <1>15, <1>16, <1>17, <1>18 DEF Replica!ReplicaInv

\* A tab's pages stop: each gives up its lock, and what it was appending is in
\* the log or it is not.
LEMMA StopStep ==
    ASSUME Replica!ReplicaInv, NEW t \in ReplicaTabs, NEW kept \in BOOLEAN, Replica!Stop(t, kept)
    PROVE  Replica!ReplicaInv'
<1>1. PICK dead : dead = {m \in Replica!Pages : mounts[m].tab = t /\ mounts[m].runs}
  OBVIOUS
<1>2. PICK finished \in SUBSET {m \in dead : mounts[m].job # {}} :
          log' = [i \in Replica!Ids |->
              log[i] \cup UNION {mounts[m].job : m \in {n \in finished : mounts[n].id = i}}]
  BY <1>1 DEF Replica!Stop
<1>3. PICK p : p = [Replica!Page(t, 0) EXCEPT !.runs = FALSE]
  OBVIOUS
<1>4. /\ mounts' = [m \in Replica!Pages |-> IF m \in dead THEN p ELSE mounts[m]]
      /\ locks' = {l \in locks : l[2] \notin dead}
      /\ opened' = IF kept THEN opened ELSE opened \ {t}
      /\ session' = IF kept THEN session ELSE [session EXCEPT ![t] = 0]
      /\ UNCHANGED <<primary, drawn, cursor, remote, edits, late>>
  BY <1>1, <1>3 DEF Replica!Stop, Replica!server
<1>5. Replica!TypeOK
  BY DEF Replica!ReplicaInv
<1>6. p \in Replica!PageStates /\ p.bridge = "asking" /\ ~p.runs /\ p.todo = << >> /\ p.job = {}
      /\ p.next = 0
  <2>1. << >> \in Seq(Nat) /\ 0 \in 0 .. MaxIds
    BY ReplicaAssumption
  <2> QED BY <1>3, <2>1 DEF Replica!Page, Replica!PageStates, Replica!Bridges
<1>7. /\ mounts' \in Seq(Replica!PageStates) /\ Replica!Pages' = Replica!Pages
      /\ \A k \in Replica!Pages : mounts'[k] = IF k \in dead THEN p ELSE mounts[k]
  <2>1. mounts \in Seq(Replica!PageStates)
    BY <1>5 DEF Replica!TypeOK
  <2>2. Replica!Pages = 1 .. Len(mounts) /\ Len(mounts) \in Nat
        /\ \A k \in Replica!Pages : mounts[k] \in Replica!PageStates
    BY <2>1 DEF Replica!Pages
  <2>3. mounts' \in [1 .. Len(mounts) -> Replica!PageStates]
    BY <1>4, <1>6, <2>2
  <2>4. DOMAIN mounts' = Replica!Pages
    BY <1>4
  <2> QED BY <1>4, <2>2, <2>3, <2>4 DEF Replica!Pages
<1>8. \A k \in dead : k \in Replica!Pages /\ mounts[k].runs
  BY <1>1
<1>9. \A k \in finished : k \in dead /\ mounts[k].job # {} /\ mounts[k].job \subseteq Replica!Ops
  BY <1>2, <1>8, PageFacts, PageFields
\* A new row is the operation that a page which held the id was appending.
<1>10. ASSUME NEW i \in Replica!Ids, NEW o \in log'[i]
       PROVE  o \in log[i] \/ \E m \in finished : mounts[m].id = i /\ o \in mounts[m].job
  BY <1>2, <1>10
<1>11. ASSUME NEW i \in Replica!Ids PROVE log[i] \subseteq log'[i]
  BY <1>2
<1>12. log' \in [Replica!Ids -> SUBSET Replica!Ops]
  <2>1. ASSUME NEW i \in Replica!Ids, NEW o \in log'[i] PROVE o \in Replica!Ops
    BY <1>5, <1>9, <1>10, <2>1 DEF Replica!TypeOK
  <2>2. \A i \in Replica!Ids : log'[i] \subseteq Replica!Ops
    BY <2>1
  <2>3. log' = [i \in Replica!Ids |-> log'[i]]
    BY <1>2
  <2> QED BY <2>2, <2>3
<1>13. ASSUME NEW i \in Replica!Ids, NEW o \in Replica!Own(i)'
       PROVE  o \in Replica!Own(i) \/ \E m \in finished : mounts[m].id = i /\ o \in mounts[m].job
  <2>1. o \in log'[i] /\ o.id = i
    BY <1>13 DEF Replica!Own
  <2> QED BY <1>10, <2>1 DEF Replica!Own
<1>14. ASSUME ~late, NEW m \in finished
       PROVE  mounts[m].runs /\ mounts[m].bridge = "live" /\ Writes(mounts[m])
  BY <1>8, <1>9, <1>14, PageFacts DEF Writes
<1>15. Replica!TypeOK'
  <2>1. session' \in [ReplicaTabs -> 0 .. MaxIds] /\ opened' \subseteq ReplicaTabs
    BY <1>4, <1>5, ReplicaAssumption DEF Replica!TypeOK
  <2> QED BY <1>4, <1>5, <1>7, <1>12, <2>1 DEF Replica!TypeOK
<1>16. Replica!IdInv'
  <2>1. primary = 0 => drawn = 0 /\ mounts' = << >>
    <3> SUFFICES ASSUME primary = 0 PROVE drawn = 0 /\ mounts' = << >>
      OBVIOUS
    <3>1. drawn = 0 /\ mounts = << >>
      BY DEF Replica!ReplicaInv, Replica!IdInv
    <3>2. Replica!Pages = {}
      BY <3>1 DEF Replica!Pages
    <3>3. DOMAIN mounts' = {}
      BY <1>7, <3>2 DEF Replica!Pages
    <3> QED BY <1>7, <3>1, <3>3
  <2>2. \A k \in Replica!Pages : mounts'[k].runs => mounts'[k].id \in Replica!Ids
    BY <1>6, <1>7, PageFacts
  <2> QED BY <1>4, <1>7, <2>1, <2>2 DEF Replica!IdInv
<1>17. Replica!LockInv'
  <2>1. \A l \in locks' : l \in locks /\ l[2] \in Replica!Pages /\ mounts'[l[2]] = mounts[l[2]]
    BY <1>4, <1>5, <1>7 DEF Replica!TypeOK
  <2>2. ASSUME NEW k \in Replica!Pages, mounts'[k].runs, mounts'[k].bridge \in Writing
        PROVE  <<mounts'[k].id, k>> \in locks'
    <3>1. k \notin dead /\ mounts'[k] = mounts[k]
      BY <1>6, <1>7, <2>2
    <3>2. PICK l : l = <<mounts[k].id, k>>
      OBVIOUS
    <3>3. l \in locks
      BY <2>2, <3>1, <3>2, PageFacts
    <3>4. l[2] \notin dead
      BY <3>1, <3>2
    <3>5. l \in locks'
      BY <1>4, <3>3, <3>4
    <3> QED BY <3>1, <3>2, <3>5
  <2>3. \A l \in locks' : mounts'[l[2]].runs /\ mounts'[l[2]].id = l[1]
                       /\ mounts'[l[2]].bridge \in Writing
    BY <2>1 DEF Replica!ReplicaInv, Replica!LockInv, Writing
  <2>4. \A j, k \in locks' : j[1] = k[1] => j = k
    BY <2>1 DEF Replica!ReplicaInv, Replica!LockInv
  <2> QED BY <1>7, <2>2, <2>3, <2>4 DEF Replica!LockInv, Writing
<1>18. Replica!WriterInv'
  <2> SUFFICES ASSUME ~late, NEW k \in Replica!Pages PROVE Writes(mounts[k])'
    BY <1>4, <1>7 DEF Replica!WriterInv, Writes
  <2>1. CASE k \in dead
    BY <1>6, <1>7, <2>1 DEF Writes
  <2>2. CASE k \notin dead
    <3>1. Writes(mounts[k]) /\ mounts'[k] = mounts[k]
      BY <1>7, <2>2, PageFacts
    <3>2. CASE mounts[k].runs /\ mounts[k].bridge = "live"
      <4>1. PICK i \in Replica!Ids : i = mounts[k].id
        BY <3>2, PageFacts
      <4>2. ASSUME NEW m \in finished, mounts[m].id = i PROVE FALSE
        <5>1. k = m
          BY <1>8, <1>9, <1>14, <3>2, <4>1, <4>2, OneWriter
        <5> QED BY <1>9, <2>2, <5>1
      <4>3. \A o \in Replica!Own(i)' : o \in Replica!Own(i)
        BY <1>13, <4>2
      <4> QED BY <3>1, <4>1, <4>3 DEF Writes
    <3>3. CASE ~(mounts[k].runs /\ mounts[k].bridge = "live")
      BY <3>1, <3>3 DEF Writes
    <3> QED BY <3>2, <3>3
  <2> QED BY <2>1, <2>2
<1>19. Replica!CounterInv'
  <2>1. edits \in Nat
    BY <1>5 DEF Replica!TypeOK
  <2>2. Counts(p, edits)
    BY <1>6, <2>1 DEF Counts
  <2>3. \A k \in Replica!Pages : Counts(mounts'[k], edits)
    BY <1>7, <2>2, PageFacts
  <2>4. \A m \in finished : \A o \in mounts[m].job : o.c <= edits
    BY <1>8, <1>9, PageFacts DEF Counts
  <2>5. ASSUME NEW i \in Replica!Ids, NEW o \in Replica!Own(i)' PROVE o.c <= edits
    BY <1>13, <2>4, <2>5 DEF Replica!ReplicaInv, Replica!CounterInv
  <2> QED BY <1>4, <1>7, <2>3, <2>5 DEF Replica!CounterInv, Counts
<1>20. Replica!CursorInv'
  <2>1. \A n : Replica!Op(0, n, 0)' = Replica!Op(0, n, 0)
    BY DEF Replica!Op
  <2> QED BY <1>4, <1>11, <2>1 DEF Replica!ReplicaInv, Replica!CursorInv, Replica!CursorCovered
<1>21. Replica!IdentityOnceUnlessLate'
  <2> SUFFICES ASSUME ~late, NEW i \in Replica!Ids, NEW o \in Replica!Own(i)',
                      NEW q \in Replica!Own(i)', o.c = q.c
               PROVE  o = q
    BY <1>4 DEF Replica!IdentityOnceUnlessLate, Replica!IdentityOnce
  <2>1. \A r, s \in Replica!Own(i) : r.c = s.c => r = s
    BY DEF Replica!ReplicaInv, Replica!IdentityOnceUnlessLate, Replica!IdentityOnce
  <2>2. ASSUME NEW m \in finished, mounts[m].id = i, NEW r \in mounts[m].job, NEW s \in Replica!Own(i)
        PROVE  r.c # s.c
    <3>1. s.c < r.c
      BY <1>14, <2>2 DEF Writes
    <3>2. r \in Replica!Ops /\ s \in Replica!Ops
      BY <1>5, <1>9 DEF Replica!TypeOK, Replica!Own
    <3> QED BY <3>1, <3>2 DEF Replica!Ops
  <2>3. ASSUME NEW m \in finished, mounts[m].id = i, NEW r \in mounts[m].job,
               NEW n \in finished, mounts[n].id = i, NEW s \in mounts[n].job
        PROVE  r = s
    <3>1. m = n
      BY <1>8, <1>9, <1>14, <2>3, OneWriter
    <3> QED BY <1>14, <2>3, <3>1 DEF Writes
  <2>4. o \in Replica!Own(i) \/ \E m \in finished : mounts[m].id = i /\ o \in mounts[m].job
    BY <1>13
  <2>5. q \in Replica!Own(i) \/ \E m \in finished : mounts[m].id = i /\ q \in mounts[m].job
    BY <1>13
  <2> QED BY <2>1, <2>2, <2>3, <2>4, <2>5
<1> QED BY <1>15, <1>16, <1>17, <1>18, <1>19, <1>20, <1>21 DEF Replica!ReplicaInv

LEMMA ReplicaInit == Replica!Init => Replica!ReplicaInv
<1> SUFFICES ASSUME Replica!Init PROVE Replica!ReplicaInv
  OBVIOUS
<1>1. /\ primary = 0 /\ session = [t \in ReplicaTabs |-> 0] /\ opened = {} /\ drawn = 0
      /\ locks = {} /\ mounts = << >> /\ log = [i \in Replica!Ids |-> {}]
      /\ cursor = [i \in Replica!Ids |-> 0] /\ remote = 0 /\ edits = 0 /\ late = FALSE
  BY DEF Replica!Init
<1>2. Replica!Pages = {} /\ \A i \in Replica!Ids : Replica!Own(i) = {}
  BY <1>1 DEF Replica!Pages, Replica!Own
<1>3. mounts \in Seq(Replica!PageStates)
  BY <1>1
<1>4. Replica!TypeOK
  <2>1. 0 \in 0 .. 0 /\ 0 \in 0 .. MaxIds
    BY ReplicaAssumption
  <2>2. /\ primary \in 0 .. drawn /\ drawn \in 0 .. MaxIds
        /\ session \in [ReplicaTabs -> 0 .. MaxIds]
    BY <1>1, <2>1
  <2>3. /\ opened \subseteq ReplicaTabs /\ locks \subseteq Replica!Ids \X Replica!Pages
        /\ log \in [Replica!Ids -> SUBSET Replica!Ops] /\ cursor \in [Replica!Ids -> Nat]
    BY <1>1
  <2> QED BY <1>1, <1>3, <2>2, <2>3 DEF Replica!TypeOK
<1>5. Replica!IdInv /\ Replica!LockInv /\ Replica!WriterInv /\ Replica!CounterInv
  BY <1>1, <1>2 DEF Replica!IdInv, Replica!LockInv, Replica!WriterInv, Replica!CounterInv
<1>6. Replica!CursorInv
  <2>1. ASSUME NEW i \in Replica!Ids PROVE cursor[i] = 0 /\ 1 .. cursor[i] = {} /\ cursor[i] <= remote
    BY <1>1
  <2> QED BY <2>1 DEF Replica!CursorInv, Replica!CursorCovered
<1>7. Replica!IdentityOnceUnlessLate
  BY <1>2 DEF Replica!IdentityOnceUnlessLate, Replica!IdentityOnce
<1> QED BY <1>4, <1>5, <1>6, <1>7 DEF Replica!ReplicaInv

LEMMA ReplicaStep == Replica!ReplicaInv /\ Replica!Next => Replica!ReplicaInv'
<1> SUFFICES ASSUME Replica!ReplicaInv, Replica!Next PROVE Replica!ReplicaInv'
  OBVIOUS
<1>1. CASE Replica!RemoteOp
  BY <1>1, RemoteOpStep
<1>2. ASSUME NEW t \in ReplicaTabs,
             Replica!Open(t) \/ Replica!Close(t) \/ Replica!Reload(t) \/ Replica!Mount(t)
             \/ \E u \in ReplicaTabs : Replica!Duplicate(t, u)
      PROVE  Replica!ReplicaInv'
  BY <1>2, OpenStep, StopStep, MountStep, DuplicateStep DEF Replica!Close, Replica!Reload
<1>3. ASSUME NEW m \in Replica!Pages,
             \/ Replica!Granted(m) \/ Replica!Refused(m) \/ Replica!GrantedTooLate(m)
             \/ Replica!Load(m) \/ Replica!Type(m) \/ Replica!Generate(m) \/ Replica!Commit(m)
             \/ Replica!Fail(m) \/ Replica!CatchUp(m) \/ Replica!Leave(m)
      PROVE  Replica!ReplicaInv'
  BY <1>3, GrantedStep, RefusedStep, GrantedTooLateStep, LoadStep, TypeStep, GenerateStep,
     CommitStep, FailStep, CatchUpStep, LeaveStep
<1> QED BY <1>1, <1>2, <1>3 DEF Replica!Next

\* Two durable operations of a replica never carry one identity unless a page
\* was left with edits in its lane, and every replica holds what its sync
\* cursor covers (editor-bridge.ts acquireReplica, worker/core.ts
\* replayAndRestoreAllocation).
THEOREM ReplicasAreSoundHolds == Spec => []ReplicasAreSound
<1> DEFINE I == part = "LocalReplica" => Replica!ReplicaInv
<1>1. Init => I
  <2>1. Init /\ part = "LocalReplica" => Replica!Init
    BY DEF Init
  <2> QED BY <2>1, ReplicaInit
<1>2. I /\ [Next]_vars => I'
  <2> SUFFICES ASSUME I, [Next]_vars, part' = "LocalReplica" PROVE Replica!ReplicaInv'
    OBVIOUS
  <2>1. CASE UNCHANGED vars
    <3>1. part = "LocalReplica" /\ Replica!ReplicaInv
      BY <2>1 DEF vars
    <3>2. /\ UNCHANGED <<locks, mounts, log, cursor, edits, late>>
          /\ UNCHANGED <<primary, drawn, opened, session, remote>>
      BY <2>1 DEF vars, replicaVars
    <3>3. opened' \subseteq ReplicaTabs /\ session' \in [ReplicaTabs -> 0 .. MaxIds]
          /\ remote' \in Nat /\ remote' = remote
      BY <3>1, <3>2 DEF Replica!ReplicaInv, Replica!TypeOK
    <3>4. remote' >= remote
      BY <3>3
    <3> QED BY <3>1, <3>2, <3>3, <3>4, QuietStep
  <2>2. CASE Next
    <3>1. part = "LocalReplica" /\ Replica!Next
      BY <2>2 DEF Next
    <3> QED BY <3>1, ReplicaStep
  <2> QED BY <2>1, <2>2
<1>3. I => ReplicasAreSound
  BY DEF ReplicasAreSound, Replica!ReplicaInv, Replica!CursorInv
<1> QED BY <1>1, <1>2, <1>3, PTL DEF Spec
=============================================================================
