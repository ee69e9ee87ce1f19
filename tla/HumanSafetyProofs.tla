--------------------------- MODULE HumanSafetyProofs ---------------------------
(***************************************************************************)
(* Proofs about the human-safety service: who saw a person's records and   *)
(* by which decision, what the operators' console submitted and on what    *)
(* view of the case, and what became of the signals it took in.  Each      *)
(* section has the inductive invariant of one module, a lemma for every    *)
(* step or kind of step that preserves it, and the theorems that follow.   *)
(***************************************************************************)
EXTENDS PrivacyOversight, CommandCenter, SignalIngestion, FiniteSetTheorems, TLAPS

----------------------------------------------------------------------------
(* PrivacyOversight                                                        *)

(* Well-formed tables and calls.                                           *)
PrivacyType ==
    /\ privacyClock \in Nat
    /\ leases \in [LeaseIds -> LeaseRow \cup {Missing}]
    /\ useWindows \in [Officers -> WindowRow \cup {Missing}]
    /\ usage \in [Demands -> UseRow \cup {Missing}]
    /\ useAudit \in [Demands -> Nat \cup {Missing}]
    /\ grants \in [Demands -> Nat \cup {Missing}]
    /\ accesses \in [Accesses -> RepliedCall \cup OpenCall \cup {Missing}]

Allows(u, d) == u[d] # Missing /\ u[d].decision = "ALLOW"
Deciding(x)  == x # Missing /\ x.pc \in {"alert", "audit", "final"}
Begins(w, at) == w = Missing \/ at >= w.started + UseWindow

(* The uses that a window counts.                                          *)
Allowed(o, w, u) == {d \in Demands : /\ d.officer = o /\ u[d] # Missing
                                     /\ u[d].decision = "ALLOW"
                                     /\ u[d].at >= w.started}

(* Of an actor: the window counts its uses, and none is later than it.     *)
WindowOk(o, w, u) ==
    /\ \A d \in Demands : d.officer = o /\ Allows(u, d) =>
          w # Missing /\ u[d].at < w.started + UseWindow
    /\ w # Missing => /\ IsFiniteSet(Allowed(o, w, u))
                      /\ Cardinality(Allowed(o, w, u)) = w.uses
                      /\ w.uses <= MaxUses

(* Of a demand: what its grant rests on, all of it from before.            *)
GrantOk(d, u, al, au, g, ls) == g[d] # Missing =>
    /\ u[d] # Missing /\ u[d].decision = "ALLOW" /\ u[d].at <= g[d]
    /\ d \in al /\ au[d] # Missing /\ au[d] <= g[d]
    /\ ls[d.lease] # Missing
    /\ ls[d.lease].issued <= g[d]
    /\ g[d] < ls[d.lease].issued + LeaseTime
    /\ ls[d.lease].ended # Missing => g[d] <= ls[d.lease].ended

PastOnly(d, u, au, g, clock) ==
    /\ u[d] # Missing => u[d].at <= clock
    /\ au[d] # Missing => au[d] <= clock
    /\ g[d] # Missing => g[d] <= clock

(* Of a call: a full answer has its grant, and a decision to allow is      *)
(* stored, or fresh and still to be written over the window it was made    *)
(* on.                                                                     *)
CallOk(x, u, ws, g, clock) ==
    /\ x # Missing /\ x.answer = "FULL" => g[x.demand] # Missing
    /\ x \in OpenCall => x.now <= clock /\ (x.pc \in {"begin", "found"} => ~x.fresh)
    /\ Deciding(x) /\ ~x.fresh => Allows(u, x.demand)
    /\ Deciding(x) /\ x.fresh =>
          /\ u[x.demand] = Missing
          /\ LET w == ws[x.demand.officer]
             IN  IF Begins(w, x.now)
                 THEN x.window = [started |-> x.now, uses |-> 1]
                 ELSE /\ w.started <= x.now /\ w.uses < MaxUses
                      /\ x.window = [started |-> w.started, uses |-> w.uses + 1]

(* Two fresh decisions never wait for one window.                          *)
Alone(x, y) == Deciding(x) /\ Deciding(y) /\ x.fresh /\ y.fresh
                  => x.demand.officer # y.demand.officer

AccessInv ==
    /\ PrivacyType
    /\ \A o \in Officers : WindowOk(o, useWindows[o], usage)
    /\ \A d \in Demands : GrantOk(d, usage, alerts, useAudit, grants, leases)
    /\ \A d \in Demands : PastOnly(d, usage, useAudit, grants, privacyClock)
    /\ \A a \in Accesses : CallOk(accesses[a], usage, useWindows, grants, privacyClock)
    /\ \A a, b \in Accesses : a # b => Alone(accesses[a], accesses[b])

(* Counting one use, and one more.                                         *)
LEMMA CountOne ==
    ASSUME NEW S, NEW e, S = {e} PROVE IsFiniteSet(S) /\ Cardinality(S) = 1
<1>1. IsFiniteSet({e}) /\ Cardinality({e}) = 1
  BY FS_Singleton
<1> QED BY <1>1

(* A call moves without writing; a fresh decision needs the window's lock. *)
LEMMA CallMoves ==
    ASSUME AccessInv, NEW a \in Accesses, NEW x \in RepliedCall \cup OpenCall,
           accesses' = [accesses EXCEPT ![a] = x],
           UNCHANGED <<privacyClock, leases, tables>>,
           CallOk(x, usage, useWindows, grants, privacyClock),
           Deciding(x) /\ x.fresh => \/ ~WindowLocked(x.demand.officer)
                                     \/ /\ Deciding(accesses[a]) /\ accesses[a].fresh
                                        /\ accesses[a].demand = x.demand
    PROVE  AccessInv'
<1> USE OversightAssumption
<1>1. PrivacyType'
  BY DEF AccessInv, PrivacyType, tables
<1>2. /\ \A o \in Officers : WindowOk(o, useWindows[o], usage)'
      /\ \A d \in Demands : GrantOk(d, usage, alerts, useAudit, grants, leases)'
      /\ \A d \in Demands : PastOnly(d, usage, useAudit, grants, privacyClock)'
  BY DEF AccessInv, tables
<1>3. \A b \in Accesses : CallOk(accesses[b], usage, useWindows, grants, privacyClock)'
  BY DEF AccessInv, PrivacyType, tables
<1>4. ASSUME NEW b \in Accesses, b # a PROVE Alone(x, accesses[b]) /\ Alone(accesses[b], x)
  BY <1>4 DEF AccessInv, Alone, WindowLocked, Deciding
<1>5. \A b, c \in Accesses : b # c => Alone(accesses[b], accesses[c])'
  BY <1>4 DEF AccessInv, PrivacyType
<1> QED BY <1>1, <1>2, <1>3, <1>5 DEF AccessInv

(* A call commits: it had decided to allow, its grant comes after its      *)
(* audit, under a lease that holds now.                                    *)
LEMMA CallCommits ==
    ASSUME AccessInv, NEW a \in Accesses, Deciding(accesses[a]),
           NEW answer \in {"DENY", "FULL"}, Answer(a, answer),
           NEW alert \in BOOLEAN, NEW audit \in BOOLEAN, NEW grant \in BOOLEAN,
           Commit(a, alert, audit, grant),
           answer = "FULL" <=> grant,
           grant => alert /\ audit,
           LET d == accesses[a].demand
           IN  grant => validBreakGlass(d, privacyClock) /\ KeyFree(d),
           UNCHANGED <<privacyClock, leases>>
    PROVE  AccessInv'
<1> USE OversightAssumption
<1> DEFINE x == accesses[a]
           d == x.demand
           o == d.officer
           w == useWindows[o]
           y == Reply(d, answer)
<1>1. x \in OpenCall /\ d \in Demands /\ o \in Officers /\ d.lease \in LeaseIds
  BY DEF AccessInv, PrivacyType, Deciding, RepliedCall, OpenCall
<1>2. /\ y \in RepliedCall /\ y.demand = d /\ y.pc = "done" /\ y.answer = answer
      /\ accesses' = [accesses EXCEPT ![a] = y]
  BY <1>1 DEF Answer, Reply, RepliedCall
<1>3. CallOk(x, usage, useWindows, grants, privacyClock) /\ WindowOk(o, w, usage)
  BY <1>1 DEF AccessInv
<1>4. w \in WindowRow \cup {Missing} /\ x.now \in Nat /\ x.now <= privacyClock /\ x.fresh \in BOOLEAN
  BY <1>1, <1>3 DEF AccessInv, PrivacyType, OpenCall, CallOk
<1> DEFINE Written ==
             /\ useWindows' \in [Officers -> WindowRow \cup {Missing}]
             /\ usage' \in [Demands -> UseRow \cup {Missing}]
             /\ \A q \in Officers : WindowOk(q, useWindows[q], usage)'
             /\ \A e \in Demands : usage[e] # Missing \/ e # d => usage'[e] = usage[e]
             /\ Allows(usage', d) /\ usage'[d].at <= privacyClock
             /\ \A b \in Accesses \ {a} :
                   CallOk(accesses[b], usage', useWindows', grants, privacyClock)
<1>5. ASSUME x.fresh PROVE Written
  <2> DEFINE v == x.window
             u == [decision |-> "ALLOW", at |-> x.now]
  <2>1. /\ useWindows' = [useWindows EXCEPT ![o] = v]
        /\ usage' = [usage EXCEPT ![d] = u]
    BY <1>5 DEF Commit, GrantId
  <2>2. /\ usage[d] = Missing
        /\ Begins(w, x.now) => v = [started |-> x.now, uses |-> 1]
        /\ ~Begins(w, x.now) => /\ w.started <= x.now /\ w.uses < MaxUses
                                /\ v = [started |-> w.started, uses |-> w.uses + 1]
    BY <1>3, <1>5 DEF CallOk
  <2>3. v \in WindowRow /\ v # Missing
    BY <1>4, <2>2 DEF WindowRow, Begins
  <2>4. u \in UseRow /\ u # Missing /\ u.decision = "ALLOW" /\ u.at = x.now
    BY <1>4 DEF UseRow
  <2> HIDE DEF u, v
  <2>5. \A e \in Demands : e # d => usage'[e] = usage[e]
    BY <2>1
  <2>6. usage'[d] = u
    BY <1>1, <2>1 DEF AccessInv, PrivacyType
  <2>7. WindowOk(o, v, usage')
    <3>1. CASE Begins(w, x.now)
      <4>1. \A e \in Demands : e.officer = o /\ Allows(usage, e) => usage[e].at < x.now
        BY <1>3, <1>4, <3>1 DEF WindowOk, Begins, Allows, AccessInv, PrivacyType, UseRow, WindowRow
      <4>2. v.started = x.now /\ v.uses = 1
        BY <2>2, <3>1
      <4>3. Allowed(o, v, usage') = {d}
        BY <1>1, <1>4, <2>4, <2>5, <2>6, <4>1, <4>2 DEF Allowed, Allows, AccessInv, PrivacyType, UseRow
      <4>4. \A e \in Demands : e.officer = o /\ Allows(usage', e) => usage'[e].at < v.started + UseWindow
        BY <1>4, <2>4, <2>5, <2>6, <4>1, <4>2 DEF Allows, AccessInv, PrivacyType, UseRow
      <4>5. IsFiniteSet(Allowed(o, v, usage')) /\ Cardinality(Allowed(o, v, usage')) = 1
        BY <4>3, CountOne
      <4> QED BY <2>3, <4>2, <4>4, <4>5 DEF WindowOk
    <3>2. CASE ~Begins(w, x.now)
      <4>1. /\ v.started = w.started /\ v.uses = w.uses + 1 /\ w.uses < MaxUses
            /\ w.started <= x.now /\ w # Missing /\ x.now < w.started + UseWindow
            /\ w.started \in Nat /\ w.uses \in Nat
        BY <1>4, <2>2, <3>2 DEF Begins, WindowRow
      <4>2. Allowed(o, v, usage') = Allowed(o, w, usage) \cup {d} /\ d \notin Allowed(o, w, usage)
        BY <1>1, <2>2, <2>4, <2>5, <2>6, <4>1 DEF Allowed
      <4>3. IsFiniteSet(Allowed(o, w, usage)) /\ Cardinality(Allowed(o, w, usage)) = w.uses
        BY <1>3, <4>1 DEF WindowOk
      <4>4. IsFiniteSet(Allowed(o, v, usage')) /\ Cardinality(Allowed(o, v, usage')) = v.uses
        <5> DEFINE S == Allowed(o, w, usage)
                   T == Allowed(o, v, usage')
        <5>1. w.uses \in Nat /\ IsFiniteSet(S) /\ Cardinality(S) = w.uses
          BY <4>1, <4>3
        <5>2. T = S \cup {d} /\ d \notin S
          BY <4>2
        <5> HIDE DEF S, T
        <5>3. IsFiniteSet(S \cup {d}) /\ Cardinality(S \cup {d}) = Cardinality(S) + 1
          BY <5>1, <5>2, FS_AddElement
        <5> QED BY <4>1, <5>1, <5>2, <5>3 DEF T
      <4>5. \A e \in Demands : e.officer = o /\ Allows(usage', e) => usage'[e].at < v.started + UseWindow
        BY <1>3, <1>4, <2>4, <2>5, <2>6, <4>1 DEF Allows, WindowOk, AccessInv, PrivacyType, UseRow
      <4> QED BY <2>3, <4>1, <4>4, <4>5 DEF WindowOk
    <3> QED BY <3>1, <3>2
  <2>8. \A q \in Officers : WindowOk(q, useWindows[q], usage)'
    <3>1. ASSUME NEW q \in Officers, q # o PROVE WindowOk(q, useWindows'[q], usage')
      <4>1. Allowed(q, useWindows[q], usage') = Allowed(q, useWindows[q], usage)
        BY <2>5, <3>1 DEF Allowed
      <4> QED BY <2>1, <2>5, <3>1, <4>1 DEF AccessInv, WindowOk, Allows
    <3> QED BY <1>1, <2>1, <2>7, <3>1 DEF AccessInv, PrivacyType
  <2>9. \A b \in Accesses \ {a} : CallOk(accesses[b], usage', useWindows', grants, privacyClock)
    <3> SUFFICES ASSUME NEW b \in Accesses, b # a
                 PROVE CallOk(accesses[b], usage', useWindows', grants, privacyClock)
      OBVIOUS
    <3> DEFINE z == accesses[b]
    <3>1. CallOk(z, usage, useWindows, grants, privacyClock) /\ Alone(x, z)
      BY DEF AccessInv
    <3>2. z \in RepliedCall \cup OpenCall \cup {Missing}
      BY DEF AccessInv, PrivacyType
    <3> SUFFICES CallOk(z, usage', useWindows', grants, privacyClock)
      OBVIOUS
    <3> HIDE DEF z
    <3>3. CASE Deciding(z)
      <4>1. z \in OpenCall /\ z.demand \in Demands /\ z.demand.officer \in Officers
        BY <3>2, <3>3 DEF Deciding, RepliedCall, OpenCall
      <4>2. z.fresh => z.demand.officer # o
        BY <1>5, <3>1, <3>3 DEF Alone
      <4>3. ~z.fresh => Allows(usage', z.demand)
        BY <2>2, <2>5, <3>1, <3>3, <4>1 DEF CallOk, Allows
      <4>4. z.fresh => /\ usage'[z.demand] = usage[z.demand]
                       /\ useWindows'[z.demand.officer] = useWindows[z.demand.officer]
        BY <2>1, <2>5, <4>1, <4>2
      <4> QED BY <3>1, <3>3, <4>3, <4>4 DEF CallOk
    <3>4. CASE ~Deciding(z)
      BY <3>1, <3>4 DEF CallOk
    <3> QED BY <3>3, <3>4
  <2>10. /\ useWindows' \in [Officers -> WindowRow \cup {Missing}]
         /\ usage' \in [Demands -> UseRow \cup {Missing}]
    BY <2>1, <2>3, <2>4 DEF AccessInv, PrivacyType
  <2>11. \A e \in Demands : usage[e] # Missing => usage'[e] = usage[e]
    BY <2>2, <2>5
  <2>12. usage'[d].at <= privacyClock /\ Allows(usage', d)
    BY <1>4, <2>4, <2>6 DEF Allows
  <2> QED BY <2>5, <2>8, <2>9, <2>10, <2>11, <2>12
<1>6. ASSUME ~x.fresh PROVE Written
  <2>1. useWindows' = useWindows /\ usage' = usage
    BY <1>6 DEF Commit
  <2>2. Allows(usage, d) /\ usage[d].at <= privacyClock
    BY <1>1, <1>3, <1>6 DEF CallOk, AccessInv, PastOnly, Allows
  <2> QED BY <2>1, <2>2 DEF AccessInv, PrivacyType
<1>7. Written
  BY <1>4, <1>5, <1>6
<1> HIDE DEF Written
<1>8. /\ alerts' = IF alert THEN alerts \cup {d} ELSE alerts
      /\ useAudit' = IF audit /\ useAudit[d] = Missing
                     THEN [useAudit EXCEPT ![d] = x.now] ELSE useAudit
      /\ grants' = IF grant THEN [grants EXCEPT ![d] = privacyClock] ELSE grants
  BY DEF Commit, GrantId
<1>9. PrivacyType'
  BY <1>1, <1>2, <1>4, <1>7, <1>8 DEF Written, AccessInv, PrivacyType
<1>10. /\ \A e \in Demands : useAudit[e] # Missing => useAudit'[e] = useAudit[e]
       /\ \A e \in Demands : useAudit'[e] # useAudit[e] =>
                                 useAudit'[e] = x.now
       /\ audit => useAudit'[d] # Missing
  BY <1>1, <1>4, <1>8 DEF AccessInv, PrivacyType
<1>11. /\ grant => grants[d] = Missing /\ grants'[d] = privacyClock
       /\ ~grant => grants' = grants
       /\ \A e \in Demands : e # d => grants'[e] = grants[e]
       /\ \A e \in Demands : grants[e] # Missing => grants'[e] = grants[e]
  BY <1>1, <1>8 DEF AccessInv, PrivacyType, KeyFree, GrantId
<1>12. /\ alerts \subseteq alerts'
       /\ alert => d \in alerts'
  BY <1>8
<1>13. \A e \in Demands : PastOnly(e, usage, useAudit, grants, privacyClock)'
  <2> SUFFICES ASSUME NEW e \in Demands PROVE PastOnly(e, usage', useAudit', grants', privacyClock)
    OBVIOUS
  <2>1. PastOnly(e, usage, useAudit, grants, privacyClock)
    BY DEF AccessInv
  <2> QED BY <1>4, <1>7, <1>10, <1>11, <2>1 DEF PastOnly, Written, AccessInv, PrivacyType
<1>14. \A e \in Demands : GrantOk(e, usage, alerts, useAudit, grants, leases)'
  <2> SUFFICES ASSUME NEW e \in Demands, grants'[e] # Missing
               PROVE GrantOk(e, usage', alerts', useAudit', grants', leases)
    BY DEF GrantOk
  <2>1. CASE grants[e] # Missing
    <3>1. GrantOk(e, usage, alerts, useAudit, grants, leases)
      BY DEF AccessInv
    <3> QED BY <1>7, <1>10, <1>11, <1>12, <2>1, <3>1 DEF GrantOk, Written
  <2>2. CASE grants[e] = Missing
    <3>1. e = d /\ grant /\ grants'[d] = privacyClock
      BY <1>11, <2>2
    <3>2. LeaseActive(d.lease, privacyClock)
      BY <3>1 DEF validBreakGlass
    <3>3. useAudit'[d] # Missing /\ useAudit'[d] <= privacyClock
      BY <1>1, <1>10, <1>13, <3>1 DEF PastOnly
    <3> QED BY <1>7, <1>12, <3>1, <3>2, <3>3 DEF GrantOk, Written, LeaseActive, Allows
  <2> QED BY <2>1, <2>2
<1>15. \A b \in Accesses : CallOk(accesses[b], usage, useWindows, grants, privacyClock)'
  <2>1. ASSUME NEW b \in Accesses, b # a
        PROVE CallOk(accesses[b], usage', useWindows', grants', privacyClock)
    <3>1. CallOk(accesses[b], usage', useWindows', grants, privacyClock)
      BY <1>7, <2>1 DEF Written
    <3>2. accesses[b] # Missing => accesses[b].demand \in Demands
      BY DEF AccessInv, PrivacyType, RepliedCall, OpenCall
    <3> QED BY <1>11, <3>1, <3>2 DEF CallOk
  <2>2. CallOk(y, usage', useWindows', grants', privacyClock)
    <3>1. y \notin OpenCall /\ ~Deciding(y)
      BY <1>2 DEF Deciding, OpenCall
    <3>2. grant => grants'[d] # Missing
      BY <1>11 DEF AccessInv, PrivacyType
    <3> QED BY <1>2, <3>1, <3>2 DEF CallOk
  <2> QED BY <1>2, <2>1, <2>2 DEF AccessInv, PrivacyType
<1>16. \A b, c \in Accesses : b # c => Alone(accesses[b], accesses[c])'
  <2>1. ~Deciding(y)
    BY <1>2 DEF Deciding
  <2> QED BY <1>2, <2>1 DEF AccessInv, PrivacyType, Alone
<1> QED BY <1>7, <1>9, <1>13, <1>14, <1>15, <1>16 DEF AccessInv, Written
(* A use is refused: nothing is counted, as the window was not restarted.  *)
LEMMA CallIsRefused ==
    ASSUME AccessInv, NEW a \in Accesses, consumeAbuse(a), UNCHANGED grants,
           tables' # tables
    PROVE  AccessInv'
<1> USE OversightAssumption
<1> DEFINE x == accesses[a]
           d == x.demand
           o == d.officer
           w == useWindows[o]
           at == x.now
           y == Reply(d, "DENY")
<1>1. /\ x \in OpenCall /\ d \in Demands /\ o \in Officers /\ x.pc = "found"
      /\ at \in Nat /\ at <= privacyClock
  BY DEF AccessInv, PrivacyType, RepliedCall, OpenCall, consumeAbuse, InAccess, CallOk
<1>2. y \in RepliedCall /\ y.demand = d /\ y.pc = "done" /\ y.answer = "DENY"
  BY <1>1 DEF Reply, RepliedCall
<1>3. PICK window, decision :
         /\ decision = (CASE at < window.started      -> "ANOMALY_REVIEW"
                          [] window.uses >= MaxUses   -> "RATE_LIMIT"
                          [] OTHER                    -> "ALLOW")
         /\ window = (IF NoWindow(o, at) THEN [started |-> at, uses |-> 0] ELSE w)
         /\ decision # "ALLOW"
         /\ usage[d] = Missing /\ ~WindowLocked(o)
         /\ accesses' = [accesses EXCEPT ![a] = y]
         /\ usage' = [usage EXCEPT ![d] = [decision |-> decision, at |-> at]]
         /\ useWindows' = [useWindows EXCEPT ![o] = window]
         /\ UNCHANGED <<alerts, useAudit, grants, privacyClock, leases>>
  BY Zenon DEF consumeAbuse, Answer, GrantId, tables
<1>4. ~NoWindow(o, at) /\ window = w
  BY <1>1, <1>3
<1>5. w \in WindowRow
  BY <1>1, <1>4 DEF NoWindow, AccessInv, PrivacyType
<1>6. decision \in {"ANOMALY_REVIEW", "RATE_LIMIT"} /\ useWindows' = useWindows
  BY <1>1, <1>3, <1>4 DEF AccessInv, PrivacyType
<1> DEFINE u == [decision |-> decision, at |-> at]
<1>7. u \in UseRow /\ u.decision # "ALLOW" /\ u.at = at /\ u # Missing
  BY <1>1, <1>6 DEF UseRow
<1> HIDE DEF u
<1>8. /\ \A e \in Demands : e # d => usage'[e] = usage[e]
      /\ usage'[d] = u
      /\ usage' \in [Demands -> UseRow \cup {Missing}]
  BY <1>1, <1>3, <1>7 DEF AccessInv, PrivacyType, u
<1>9. \A e \in Demands : Allows(usage', e) <=> Allows(usage, e)
  BY <1>3, <1>7, <1>8 DEF Allows
<1>10. PrivacyType'
  BY <1>2, <1>3, <1>6, <1>8 DEF AccessInv, PrivacyType
<1>11. \A q \in Officers : WindowOk(q, useWindows[q], usage)'
  <2> SUFFICES ASSUME NEW q \in Officers PROVE WindowOk(q, useWindows[q], usage')
    BY <1>6
  <2>2. \A e \in Demands : Allows(usage, e) => usage'[e] = usage[e]
    BY <1>3, <1>8 DEF Allows
  <2>1. Allowed(q, useWindows[q], usage') = Allowed(q, useWindows[q], usage)
    BY <1>9, <2>2 DEF Allowed, Allows
  <2> QED BY <1>9, <2>1, <2>2 DEF AccessInv, WindowOk
<1>12. \A e \in Demands : GrantOk(e, usage, alerts, useAudit, grants, leases)'
  BY <1>3, <1>8 DEF AccessInv, GrantOk
<1>13. \A e \in Demands : PastOnly(e, usage, useAudit, grants, privacyClock)'
  BY <1>1, <1>3, <1>7, <1>8 DEF AccessInv, PastOnly
<1>14. \A b \in Accesses : CallOk(accesses[b], usage, useWindows, grants, privacyClock)'
  <2>1. CallOk(y, usage', useWindows', grants, privacyClock)
    BY <1>2 DEF CallOk, Deciding, OpenCall
  <2>2. ASSUME NEW b \in Accesses, b # a
        PROVE CallOk(accesses[b], usage', useWindows', grants, privacyClock)
    <3>1. CallOk(accesses[b], usage, useWindows, grants, privacyClock)
      BY DEF AccessInv
    <3>2. accesses[b] # Missing => accesses[b].demand \in Demands
      BY DEF AccessInv, PrivacyType, RepliedCall, OpenCall
    <3>3. Deciding(accesses[b]) => accesses[b].demand # d
      BY <1>3 DEF WindowLocked, Deciding
    <3>4. Deciding(accesses[b]) => usage'[accesses[b].demand] = usage[accesses[b].demand]
      BY <1>8, <3>2, <3>3 DEF Deciding
    <3> QED BY <1>6, <3>1, <3>4 DEF CallOk, Allows
  <2> QED BY <1>2, <1>3, <2>1, <2>2 DEF AccessInv, PrivacyType
<1>15. \A b, c \in Accesses : b # c => Alone(accesses[b], accesses[c])'
  <2>1. ~Deciding(y)
    BY <1>2 DEF Deciding
  <2> QED BY <1>2, <1>3, <2>1 DEF AccessInv, PrivacyType, Alone
<1> QED BY <1>10, <1>11, <1>12, <1>13, <1>14, <1>15 DEF AccessInv

(* The invariant holds at the start.                                       *)
LEMMA AccessStart == PrivacyInit => AccessInv
  BY OversightAssumption DEF PrivacyInit, AccessInv, PrivacyType, WindowOk, GrantOk, PastOnly,
     CallOk, Alone, Deciding, Allows, OpenCall

(* A decision to allow opens the call: on a decision already stored, or    *)
(* afresh, alone with the window.                                          *)
LEMMA CallIsAllowed ==
    ASSUME AccessInv, NEW a \in Accesses, consumeAbuse(a), UNCHANGED tables
    PROVE  AccessInv'
<1> USE OversightAssumption
<1> DEFINE x == accesses[a]
           d == x.demand
           o == d.officer
           w == useWindows[o]
           at == x.now
           window == IF NoWindow(o, at) THEN [started |-> at, uses |-> 0] ELSE w
<1>1. /\ x \in OpenCall /\ d \in Demands /\ o \in Officers /\ x.pc = "found"
      /\ at \in Nat /\ at <= privacyClock
  BY DEF AccessInv, PrivacyType, RepliedCall, OpenCall, consumeAbuse, InAccess, CallOk
<1>2. w \in WindowRow \cup {Missing}
  BY <1>1 DEF AccessInv, PrivacyType
<1>3. UNCHANGED <<privacyClock, leases>>
  BY DEF consumeAbuse
<1>4. ~x.fresh
  BY <1>1 DEF AccessInv, CallOk
<1>5. ASSUME accesses' = [accesses EXCEPT ![a] = Reply(d, "DENY")] PROVE AccessInv'
  <2>1. Reply(d, "DENY") \in RepliedCall /\ ~Deciding(Reply(d, "DENY"))
    BY <1>1 DEF Reply, RepliedCall, Deciding
  <2>2. CallOk(Reply(d, "DENY"), usage, useWindows, grants, privacyClock)
    BY <2>1 DEF CallOk, Reply, OpenCall
  <2> QED BY <1>3, <1>5, <2>1, <2>2, CallMoves
<1>6. CASE usage[d] # Missing
  <2> DEFINE z == [x EXCEPT !.pc = "alert", !.window = w]
  <2>1. CASE usage[d].decision = "ALLOW"
    <3>1. accesses' = [accesses EXCEPT ![a] = z]
      BY <1>6, <2>1 DEF consumeAbuse, GrantId
    <3>2. /\ z \in OpenCall /\ z.pc = "alert" /\ z.demand = d /\ z.now = at
          /\ ~z.fresh /\ z.answer = "PENDING"
      BY <1>1, <1>2, <1>4 DEF OpenCall
    <3> HIDE DEF z
    <3>3. CallOk(z, usage, useWindows, grants, privacyClock)
      BY <1>1, <1>6, <2>1, <3>2 DEF CallOk, Allows
    <3> QED BY <1>3, <3>1, <3>2, <3>3, CallMoves
  <2>2. CASE usage[d].decision # "ALLOW"
    BY <1>5, <1>6, <2>2 DEF consumeAbuse, GrantId, Answer
  <2> QED BY <2>1, <2>2
<1>7. CASE usage[d] = Missing
  <2> DEFINE z == [x EXCEPT !.pc = "alert", !.fresh = TRUE, !.window = [window EXCEPT !.uses = @ + 1]]
  <2>1. /\ accesses' = [accesses EXCEPT ![a] = z] /\ ~WindowLocked(o)
        /\ window.started <= at /\ window.uses < MaxUses
    <3>1. PICK decision :
             /\ decision = (CASE at < window.started      -> "ANOMALY_REVIEW"
                              [] window.uses >= MaxUses   -> "RATE_LIMIT"
                              [] OTHER                    -> "ALLOW")
             /\ ~WindowLocked(o)
             /\ IF decision = "ALLOW"
                THEN accesses' = [accesses EXCEPT ![a].pc = "alert", ![a].fresh = TRUE,
                                                  ![a].window = [window EXCEPT !.uses = @ + 1]]
                ELSE usage' = [usage EXCEPT ![d] = [decision |-> decision, at |-> at]]
      BY <1>7, Zenon DEF consumeAbuse, GrantId
    <3>2. CASE decision # "ALLOW"
      <4> DEFINE u == [decision |-> decision, at |-> at]
      <4>1. u \in UseRow
        BY <1>1, <3>1, <3>2 DEF UseRow
      <4>2. usage'[d] = u
        BY <1>1, <3>1, <3>2 DEF AccessInv, PrivacyType
      <4> QED BY <1>7, <4>1, <4>2 DEF tables
    <3>3. CASE decision = "ALLOW"
      <4>1. accesses' = [accesses EXCEPT ![a] = z]
        BY <3>1, <3>3
      <4>2. window \in WindowRow
        BY <1>1, <1>2 DEF NoWindow, WindowRow
      <4> QED BY <1>1, <3>1, <3>3, <4>1, <4>2 DEF WindowRow
    <3> QED BY <3>2, <3>3
  <2>2. window \in WindowRow
    BY <1>1, <1>2 DEF NoWindow, WindowRow
  <2>3. [window EXCEPT !.uses = @ + 1] = [started |-> window.started, uses |-> window.uses + 1]
    BY <2>2 DEF WindowRow
  <2>4. [window EXCEPT !.uses = @ + 1] \in WindowRow
    BY <2>2 DEF WindowRow
  <2>5. /\ z \in OpenCall /\ z.pc = "alert" /\ z.demand = d /\ z.now = at
        /\ z.fresh /\ z.answer = "PENDING"
        /\ z.window = [window EXCEPT !.uses = @ + 1]
    BY <1>1, <2>4 DEF OpenCall
  <2>6. IF Begins(w, at)
        THEN z.window = [started |-> at, uses |-> 1]
        ELSE /\ w.started <= at /\ w.uses < MaxUses
             /\ z.window = [started |-> w.started, uses |-> w.uses + 1]
    <3> HIDE DEF z
    <3>1. CASE Begins(w, at)
      <4>1. window.started = at /\ window.uses = 0
        BY <3>1 DEF Begins, NoWindow
      <4> HIDE DEF window
      <4> QED BY <2>3, <2>5, <3>1, <4>1
    <3>2. CASE ~Begins(w, at)
      <4>1. window = w
        BY <3>2 DEF Begins, NoWindow
      <4> HIDE DEF window
      <4> QED BY <2>1, <2>3, <2>5, <3>2, <4>1
    <3> QED BY <3>1, <3>2
  <2> HIDE DEF z
  <2>7. CallOk(z, usage, useWindows, grants, privacyClock)
    BY <1>1, <1>7, <2>5, <2>6 DEF CallOk
  <2> QED BY <1>3, <2>1, <2>5, <2>7, CallMoves
<1> QED BY <1>6, <1>7

(* authorizeAccess: a call begins.                                         *)
LEMMA CallBegins ==
    ASSUME AccessInv, NEW a \in Accesses, NEW d \in Demands, authorizeAccess(a, d)
    PROVE  AccessInv'
<1> DEFINE x == [demand |-> d, pc |-> "begin", answer |-> "PENDING", now |-> privacyClock,
                 window |-> Missing, fresh |-> FALSE]
           y == Reply(d, "DENY")
<1>1. /\ accesses' = [accesses EXCEPT ![a] = x] \/ accesses' = [accesses EXCEPT ![a] = y]
      /\ UNCHANGED <<privacyClock, leases, tables>>
  BY DEF authorizeAccess
<1>2. x \in OpenCall /\ ~Deciding(x) /\ x.now = privacyClock /\ ~x.fresh /\ x.answer = "PENDING"
  BY DEF OpenCall, Deciding, AccessInv, PrivacyType
<1>3. CallOk(x, usage, useWindows, grants, privacyClock)
  BY <1>2 DEF CallOk, AccessInv, PrivacyType
<1>4. y \in RepliedCall /\ ~Deciding(y)
  BY DEF Reply, RepliedCall, Deciding
<1>5. CallOk(y, usage, useWindows, grants, privacyClock)
  BY <1>4 DEF CallOk, Reply, OpenCall
<1> HIDE DEF x, y
<1> QED BY <1>1, <1>2, <1>3, <1>4, <1>5, CallMoves

(* A call goes on without writing, or is answered without writing: FULL    *)
(* only for a grant that is there.                                         *)
LEMMA CallGoesOn ==
    ASSUME AccessInv, NEW a \in Accesses, accesses[a] # Missing,
           UNCHANGED <<privacyClock, leases, tables>>,
           \/ \E pc \in {"found", "audit", "final"} :
                 /\ accesses' = [accesses EXCEPT ![a] = [@ EXCEPT !.pc = pc]]
                 /\ pc = "found" => accesses[a].pc = "begin"
                 /\ pc # "found" => Deciding(accesses[a])
           \/ \E answer \in {"DENY", "FULL", "ERROR"} :
                 /\ Answer(a, answer)
                 /\ answer = "FULL" => grants[accesses[a].demand] # Missing,
           accesses[a].pc # "done"
    PROVE  AccessInv'
<1> DEFINE x == accesses[a]
<1>1. x \in OpenCall
  BY DEF AccessInv, PrivacyType, RepliedCall
<1>2. CallOk(x, usage, useWindows, grants, privacyClock)
  BY DEF AccessInv
<1>3. ASSUME NEW pc \in {"found", "audit", "final"}, accesses' = [accesses EXCEPT ![a] = [@ EXCEPT !.pc = pc]],
             pc = "found" => x.pc = "begin", pc # "found" => Deciding(x)
      PROVE  AccessInv'
  <2> DEFINE z == [x EXCEPT !.pc = pc]
  <2>1. /\ z \in OpenCall /\ z.pc = pc /\ z.demand = x.demand /\ z.now = x.now
        /\ z.answer = x.answer /\ z.fresh = x.fresh /\ z.window = x.window
    BY <1>1 DEF OpenCall
  <2>2. accesses' = [accesses EXCEPT ![a] = z]
    BY <1>3
  <2> HIDE DEF z
  <2>3. CallOk(z, usage, useWindows, grants, privacyClock)
    BY <1>1, <1>2, <1>3, <2>1 DEF CallOk, Deciding, OpenCall
  <2>4. Deciding(z) => Deciding(x)
    BY <1>3, <2>1 DEF Deciding
  <2> QED BY <2>1, <2>2, <2>3, <2>4, CallMoves
<1>4. ASSUME NEW answer \in {"DENY", "FULL", "ERROR"}, Answer(a, answer),
             answer = "FULL" => grants[x.demand] # Missing
      PROVE  AccessInv'
  <2> DEFINE z == Reply(x.demand, answer)
  <2>1. /\ z \in RepliedCall /\ ~Deciding(z) /\ z.answer = answer /\ z.demand = x.demand
        /\ z \notin OpenCall
    BY <1>1 DEF OpenCall, RepliedCall, Reply, Deciding
  <2>2. accesses' = [accesses EXCEPT ![a] = z]
    BY <1>4 DEF Answer
  <2> HIDE DEF z
  <2>3. CallOk(z, usage, useWindows, grants, privacyClock)
    BY <1>4, <2>1 DEF CallOk
  <2> QED BY <2>1, <2>2, <2>3, CallMoves
<1> QED BY <1>3, <1>4

(* Every step of an access or of an execution keeps the invariant.         *)
LEMMA AccessKept == AccessInv /\ [AccessNext \/ ExecutionNext]_privacyVars => AccessInv'
<1> SUFFICES ASSUME AccessInv, [AccessNext \/ ExecutionNext]_privacyVars PROVE AccessInv'
  OBVIOUS
<1> USE OversightAssumption
<1>1. ASSUME UNCHANGED <<privacyClock, leases, tables, accesses>> PROVE AccessInv'
  BY <1>1 DEF AccessInv, PrivacyType, tables
<1>2. ASSUME NEW l \in LeaseIds, createBreakGlassLease(l) PROVE AccessInv'
  <2>1. [issued |-> privacyClock, ended |-> Missing] \in LeaseRow
    BY DEF LeaseRow, AccessInv, PrivacyType
  <2>2. /\ leases' = [leases EXCEPT ![l] = [issued |-> privacyClock, ended |-> Missing]]
        /\ UNCHANGED <<privacyClock, tables, accesses>> /\ leases[l] = Missing
    BY <1>2 DEF createBreakGlassLease
  <2>3. PrivacyType'
    BY <2>1, <2>2 DEF AccessInv, PrivacyType, tables
  <2>4. \A d \in Demands : GrantOk(d, usage, alerts, useAudit, grants, leases)'
    BY <2>2 DEF AccessInv, PrivacyType, GrantOk, tables
  <2> QED BY <2>2, <2>3, <2>4 DEF AccessInv, tables
<1>3. ASSUME NEW l \in LeaseIds, EndLease(l) PROVE AccessInv'
  <2> DEFINE r == [leases[l] EXCEPT !.ended = privacyClock]
  <2>1. /\ leases' = [leases EXCEPT ![l] = r] /\ leases[l] # Missing
        /\ UNCHANGED <<privacyClock, tables, accesses>> /\ leases[l] \in LeaseRow
    BY <1>3 DEF EndLease, AccessInv, PrivacyType
  <2>2. r \in LeaseRow /\ r.issued = leases[l].issued /\ r.ended = privacyClock /\ r # Missing
    BY <2>1 DEF LeaseRow, AccessInv, PrivacyType
  <2> HIDE DEF r
  <2>3. PrivacyType'
    BY <2>1, <2>2 DEF AccessInv, PrivacyType, tables
  <2>4. \A d \in Demands : GrantOk(d, usage, alerts, useAudit, grants, leases)'
    BY <2>1, <2>2 DEF AccessInv, PrivacyType, GrantOk, PastOnly, tables
  <2> QED BY <2>1, <2>3, <2>4 DEF AccessInv, tables
<1>4. ASSUME PrivacyTick PROVE AccessInv'
  <2>1. /\ privacyClock' = privacyClock + 1 /\ privacyClock \in Nat /\ privacyClock' \in Nat
        /\ UNCHANGED <<leases, tables, accesses>>
    BY <1>4 DEF PrivacyTick, AccessInv, PrivacyType
  <2>2. PrivacyType'
    BY <2>1 DEF AccessInv, PrivacyType, tables
  <2>3. \A d \in Demands : PastOnly(d, usage, useAudit, grants, privacyClock)'
    BY <2>1 DEF AccessInv, PrivacyType, PastOnly, tables, UseRow
  <2>4. \A a \in Accesses : CallOk(accesses[a], usage, useWindows, grants, privacyClock)'
    BY <2>1 DEF AccessInv, PrivacyType, CallOk, tables, OpenCall
  <2> QED BY <2>1, <2>2, <2>3, <2>4 DEF AccessInv, tables
<1>5. ASSUME NEW a \in Accesses, findLeaseForUpdate(a) PROVE AccessInv'
  BY <1>5, CallGoesOn DEF findLeaseForUpdate, InAccess, Step, GrantId
<1>6. ASSUME NEW a \in Accesses, consumeAbuse(a) PROVE AccessInv'
  <2>1. UNCHANGED grants
    BY <1>6 DEF consumeAbuse, tables
  <2> QED BY <1>6, <2>1, CallIsRefused, CallIsAllowed
<1>7. ASSUME NEW a \in Accesses, reserveAlert(a) PROVE AccessInv'
  <2>1. Deciding(accesses[a]) /\ accesses[a].pc = "alert" /\ UNCHANGED <<privacyClock, leases>>
    BY <1>7 DEF reserveAlert, InAccess, Deciding
  <2>2. CASE Step(a, "audit") /\ UNCHANGED tables
    BY <2>1, <2>2, CallGoesOn DEF Step, Deciding
  <2>3. CASE Answer(a, "DENY") /\ Commit(a, FALSE, FALSE, FALSE)
    BY <2>1, <2>3, CallCommits
  <2> QED BY <1>7, <2>2, <2>3 DEF reserveAlert
<1>8. ASSUME NEW a \in Accesses, appendAudit(a) PROVE AccessInv'
  <2>1. Deciding(accesses[a]) /\ accesses[a].pc = "audit" /\ UNCHANGED <<privacyClock, leases>>
    BY <1>8 DEF appendAudit, InAccess, Deciding
  <2>2. CASE Step(a, "final") /\ UNCHANGED tables
    BY <2>1, <2>2, CallGoesOn DEF Step, Deciding
  <2>3. CASE Answer(a, "DENY") /\ Commit(a, TRUE, FALSE, FALSE)
    BY <2>1, <2>3, CallCommits
  <2>4. CASE Answer(a, "ERROR") /\ UNCHANGED tables
    BY <2>1, <2>4, CallGoesOn DEF Deciding
  <2> QED BY <1>8, <2>2, <2>3, <2>4 DEF appendAudit
<1>9. ASSUME NEW a \in Accesses, finalizeGrant(a) PROVE AccessInv'
  <2> DEFINE d == accesses[a].demand
  <2>1. Deciding(accesses[a]) /\ accesses[a].pc = "final" /\ UNCHANGED <<privacyClock, leases>>
    BY <1>9 DEF finalizeGrant, InAccess, Deciding
  <2>2. CASE Answer(a, "DENY") /\ Commit(a, TRUE, TRUE, FALSE)
    BY <2>1, <2>2, CallCommits
  <2>3. CASE /\ validBreakGlass(d, privacyClock) /\ KeyFree(d)
             /\ Answer(a, "FULL") /\ Commit(a, TRUE, TRUE, TRUE)
    BY <2>1, <2>3, CallCommits
  <2>4. CASE Answer(a, "ERROR") /\ UNCHANGED tables
    BY <2>1, <2>4, CallGoesOn DEF Deciding
  <2> QED BY <1>9, <2>2, <2>3, <2>4 DEF finalizeGrant
<1>10. ASSUME NEW a \in Accesses, Rollback(a) PROVE AccessInv'
  BY <1>10, CallGoesOn DEF Rollback
<1>11. ASSUME ExecutionNext PROVE AccessInv'
  BY <1>1, <1>11 DEF ExecutionNext, authorize, findApproval, authorizeExecution,
       AuthorityFails, Tell, Approve, EndApproval
<1>12. CASE AccessNext
  BY <1>2, <1>3, <1>4, <1>5, <1>6, <1>7, <1>8, <1>9, <1>10, <1>12, CallBegins DEF AccessNext
<1>13. CASE UNCHANGED privacyVars
  BY <1>1, <1>13 DEF privacyVars, tables
<1> QED BY <1>11, <1>12, <1>13

(* Break-glass access is backed and counted, however accesses race for     *)
(* leases and windows (authorizeAccess).                                   *)
THEOREM BackedAccess == PrivacySpec => []AccessIsBacked
<1>1. AccessInv => AccessIsBacked
  BY DEF AccessInv, AccessIsBacked, GrantIsBacked, WindowCountsUses, CallOk, GrantOk, WindowOk,
     Allowed, GrantId
<1> QED BY <1>1, AccessStart, AccessKept, PTL DEF PrivacySpec

(* Of an order whose approval was found valid: the approval stood then,    *)
(* and the lookup lies in the past, so that ending the approval later does *)
(* not unsay it.                                                           *)
Backed(c, rows, clock) ==
    LET p == c.request.approval
    IN  /\ c.found \in Nat /\ c.found <= clock
        /\ p \in Approvals /\ SameScope(c.request, p) /\ p.approver # c.request.proposer
        /\ rows[p] # Missing
        /\ rows[p].issued <= c.asked /\ c.asked < rows[p].issued + ApprovalTime
        /\ rows[p].ended # Missing => c.found <= rows[p].ended

(* An order that needs an approval had it found before it may execute, or  *)
(* was reported executed.                                                  *)
OrderOk(c, rows, clock) ==
    /\ c.found # Missing => Backed(c, rows, clock)
    /\ NeedsApproval(c.request) /\ (c.pc = "execute" \/ c.answer = "TRUE") => c.found # Missing
    /\ c.pc # "done" => c.answer = "PENDING"
    /\ c.pc = "find" => c.request.approval # Missing

(* A success has an execution, its own if no approval was needed.          *)
SuccessOk(o, c, done) == c.answer = "TRUE" =>
    done[c.request.key] # Missing /\ (~NeedsApproval(c.request) => done[c.request.key] = o)

(* The order that a key executed has been answered, and had its approval.  *)
ExecutedOk(k, c) ==
    /\ c # Missing /\ c.request.key = k /\ c.pc = "done"
    /\ NeedsApproval(c.request) => c.found # Missing

ExecutionType ==
    /\ privacyClock \in Nat
    /\ approvalRows \in [Approvals -> LeaseRow \cup {Missing}]
    /\ orders \in [Orders -> OrderRow \cup {Missing}]
    /\ executed \in [Keys -> Orders \cup {Missing}]

ExecutionInv ==
    /\ ExecutionType
    /\ \A o \in Orders : orders[o] # Missing =>
          OrderOk(orders[o], approvalRows, privacyClock) /\ SuccessOk(o, orders[o], executed)
    /\ \A k \in Keys : executed[k] # Missing => ExecutedOk(k, orders[executed[k]])

(* Time and the tables of approvals: nothing that is backed ceases to be.  *)
LEMMA BackedStays ==
    ASSUME ExecutionType, NEW c \in OrderRow, Backed(c, approvalRows, privacyClock),
           \/ PrivacyTick
           \/ \E p \in Approvals : Approve(p) \/ EndApproval(p)
    PROVE  Backed(c, approvalRows', privacyClock')
<1> USE OversightAssumption
<1> DEFINE p == c.request.approval
<1>1. CASE PrivacyTick
  <2>1. \A f, n \in Nat : f <= n => f <= n + 1
    OBVIOUS
  <2> QED BY <1>1, <2>1 DEF PrivacyTick, executionVars, Backed, ExecutionType
<1>2. ASSUME NEW q \in Approvals, Approve(q) PROVE Backed(c, approvalRows', privacyClock')
  <2>1. approvalRows'[p] = approvalRows[p] /\ privacyClock' = privacyClock
    BY <1>2 DEF Approve, Backed, ExecutionType
  <2> QED BY <2>1 DEF Backed
<1>3. ASSUME NEW q \in Approvals, EndApproval(q) PROVE Backed(c, approvalRows', privacyClock')
  <2>1. /\ privacyClock' = privacyClock
        /\ approvalRows'[p] = IF p = q THEN [approvalRows[q] EXCEPT !.ended = privacyClock]
                              ELSE approvalRows[p]
    BY <1>3 DEF EndApproval, Backed, ExecutionType
  <2>2. approvalRows[q] \in LeaseRow
    BY <1>3 DEF EndApproval, ExecutionType
  <2>3. [approvalRows[q] EXCEPT !.ended = privacyClock] \in LeaseRow
    BY <2>2 DEF LeaseRow, ExecutionType
  <2>4. /\ [approvalRows[q] EXCEPT !.ended = privacyClock].issued = approvalRows[q].issued
        /\ [approvalRows[q] EXCEPT !.ended = privacyClock].ended = privacyClock
    BY <2>2 DEF LeaseRow
  <2> QED BY <2>1, <2>3, <2>4 DEF Backed
<1> QED BY <1>1, <1>2, <1>3

(* One order moves on: the others, and what they rest on, stay.            *)
LEMMA OrderMoves ==
    ASSUME ExecutionInv, NEW o \in Orders, NEW c \in OrderRow,
           orders' = [orders EXCEPT ![o] = c], UNCHANGED <<privacyClock, approvalRows>>,
           OrderOk(c, approvalRows, privacyClock), SuccessOk(o, c, executed'),
           \A k \in Keys : executed[k] = o => ExecutedOk(k, c),
           \/ executed' = executed
           \/ /\ c.request.key \in Keys /\ executed[c.request.key] = Missing
              /\ executed' = [executed EXCEPT ![c.request.key] = o]
              /\ ExecutedOk(c.request.key, c)
    PROVE  ExecutionInv'
<1> USE OversightAssumption
<1>1. orders' \in [Orders -> OrderRow \cup {Missing}] /\ orders'[o] = c
      /\ \A q \in Orders : q # o => orders'[q] = orders[q]
  BY DEF ExecutionInv, ExecutionType
<1>2. /\ executed' \in [Keys -> Orders \cup {Missing}]
      /\ \A k \in Keys : executed[k] # Missing => executed'[k] = executed[k]
      /\ \A k \in Keys : executed'[k] # executed[k] => executed'[k] = o /\ ExecutedOk(k, c)
  BY DEF ExecutionInv, ExecutionType
<1>3. ExecutionType'
  BY <1>1, <1>2 DEF ExecutionInv, ExecutionType
<1>4. ASSUME NEW q \in Orders, orders'[q] # Missing
      PROVE  OrderOk(orders'[q], approvalRows, privacyClock) /\ SuccessOk(q, orders'[q], executed')
  <2>1. CASE q = o
    BY <1>1, <2>1
  <2>2. CASE q # o
    <3>1. orders[q] # Missing /\ orders'[q] = orders[q] /\ orders[q].request.key \in Keys
      BY <1>1, <1>4, <2>2 DEF ExecutionInv, ExecutionType, OrderRow, Keys
    <3> QED BY <1>2, <3>1 DEF ExecutionInv, SuccessOk
  <2> QED BY <2>1, <2>2
<1>5. ASSUME NEW k \in Keys, executed'[k] # Missing PROVE ExecutedOk(k, orders'[executed'[k]])
  BY <1>1, <1>2, <1>5 DEF ExecutionInv, ExecutionType
<1> QED BY <1>3, <1>4, <1>5 DEF ExecutionInv

LEMMA ExecutionKept == ExecutionInv /\ [AccessNext \/ ExecutionNext]_privacyVars => ExecutionInv'
<1> SUFFICES ASSUME ExecutionInv, [AccessNext \/ ExecutionNext]_privacyVars PROVE ExecutionInv'
  OBVIOUS
<1> USE OversightAssumption
<1>1. ASSUME UNCHANGED <<privacyClock, approvalRows, orders, executed>> PROVE ExecutionInv'
  BY <1>1 DEF ExecutionInv, ExecutionType
<1>2. ASSUME \/ PrivacyTick
             \/ \E p \in Approvals : Approve(p) \/ EndApproval(p)
      PROVE  ExecutionInv'
  <2>1. UNCHANGED <<orders, executed>>
    BY <1>2 DEF PrivacyTick, executionVars, Approve, EndApproval
  <2>2. ExecutionType'
    <3>1. CASE PrivacyTick
      BY <3>1 DEF PrivacyTick, executionVars, ExecutionInv, ExecutionType
    <3>2. ASSUME NEW p \in Approvals, Approve(p) PROVE ExecutionType'
      <4>1. [issued |-> privacyClock, ended |-> Missing] \in LeaseRow
        BY DEF LeaseRow, ExecutionInv, ExecutionType
      <4> QED BY <3>2, <4>1 DEF Approve, ExecutionInv, ExecutionType
    <3>3. ASSUME NEW p \in Approvals, EndApproval(p) PROVE ExecutionType'
      <4>1. [approvalRows[p] EXCEPT !.ended = privacyClock] \in LeaseRow
        BY <3>3 DEF EndApproval, LeaseRow, ExecutionInv, ExecutionType
      <4> QED BY <3>3, <4>1 DEF EndApproval, ExecutionInv, ExecutionType
    <3> QED BY <1>2, <3>1, <3>2, <3>3
  <2>3. ASSUME NEW o \in Orders, orders[o] # Missing
        PROVE  OrderOk(orders[o], approvalRows', privacyClock')
    BY <1>2, <2>3, BackedStays DEF ExecutionInv, ExecutionType, OrderOk
  <2> QED BY <2>1, <2>2, <2>3 DEF ExecutionInv
<1>3. ASSUME NEW o \in Orders, NEW x \in Executions, NEW now \in 0 .. MaxOversightTime,
             authorize(o, x, now)
      PROVE  ExecutionInv'
  <2> DEFINE pc == IF ~NeedsApproval(x) THEN "execute"
                   ELSE IF x.approval = Missing THEN "done" ELSE "find"
             c == [request |-> x, asked |-> now, found |-> Missing, pc |-> pc,
                   answer |-> IF pc = "done" THEN "FALSE" ELSE "PENDING"]
  <2>1. /\ c \in OrderRow /\ c.found = Missing /\ c.answer # "TRUE"
        /\ c.pc # "done" => c.answer = "PENDING"
        /\ c.pc = "execute" => ~NeedsApproval(c.request)
        /\ c.pc = "find" => c.request.approval # Missing
    BY DEF OrderRow
  <2>2. /\ orders[o] = Missing /\ orders' = [orders EXCEPT ![o] = c]
        /\ UNCHANGED <<privacyClock, approvalRows, executed>>
    BY <1>3 DEF authorize
  <2> HIDE DEF c
  <2>3. OrderOk(c, approvalRows, privacyClock) /\ SuccessOk(o, c, executed')
    BY <2>1 DEF OrderOk, SuccessOk
  <2>4. \A k \in Keys : executed[k] # o
    BY <2>2 DEF ExecutionInv, ExecutedOk
  <2> QED BY <2>1, <2>2, <2>3, <2>4, OrderMoves
<1>4. ASSUME NEW o \in Orders, orders[o] # Missing, orders[o].pc # "done"
      PROVE  /\ orders[o] \in OrderRow /\ orders[o].request.key \in Keys
             /\ OrderOk(orders[o], approvalRows, privacyClock)
             /\ \A k \in Keys : executed[k] # o
  BY <1>4 DEF ExecutionInv, ExecutionType, OrderRow, Keys, ExecutedOk
<1>5. ASSUME NEW o \in Orders, findApproval(o) PROVE ExecutionInv'
  <2> DEFINE c == orders[o]
             d == [c EXCEPT !.pc = "execute", !.found = privacyClock]
             e == [c EXCEPT !.pc = "done", !.answer = "FALSE"]
  <2>1. /\ c \in OrderRow /\ c # Missing /\ c.pc = "find"
        /\ OrderOk(c, approvalRows, privacyClock) /\ \A k \in Keys : executed[k] # o
        /\ UNCHANGED <<privacyClock, approvalRows, executed>> /\ privacyClock \in Nat
    BY <1>4, <1>5 DEF findApproval, Ordered, ExecutionInv, ExecutionType
  <2>2. CASE validApproval(c.request, c.asked)
    <3>1. orders' = [orders EXCEPT ![o] = d]
      BY <1>5, <2>2 DEF findApproval, ExecutionInv, ExecutionType
    <3>2. /\ d \in OrderRow /\ d.request = c.request /\ d.asked = c.asked
          /\ d.found = privacyClock /\ d.pc = "execute" /\ d.answer = "PENDING"
      BY <2>1 DEF OrderRow, OrderOk
    <3>3. c.request.approval \in Approvals /\ c.asked \in Nat
      BY <2>1 DEF OrderOk, OrderRow
    <3> HIDE DEF d
    <3>4. Backed(d, approvalRows, privacyClock)
      BY <2>1, <2>2, <3>2, <3>3 DEF validApproval, InTerm, Backed
    <3>5. OrderOk(d, approvalRows, privacyClock) /\ SuccessOk(o, d, executed')
      BY <2>1, <3>2, <3>4 DEF OrderOk, SuccessOk
    <3> QED BY <2>1, <3>1, <3>2, <3>5, OrderMoves
  <2>3. CASE ~validApproval(c.request, c.asked)
    <3>1. orders' = [orders EXCEPT ![o] = e]
      BY <1>5, <2>3 DEF findApproval, Tell, ExecutionInv, ExecutionType
    <3>2. /\ e \in OrderRow /\ e.request = c.request /\ e.asked = c.asked
          /\ e.found = c.found /\ e.pc = "done" /\ e.answer = "FALSE"
      BY <2>1 DEF OrderRow
    <3> HIDE DEF e
    <3>3. OrderOk(e, approvalRows, privacyClock) /\ SuccessOk(o, e, executed')
      BY <2>1, <3>2 DEF OrderOk, SuccessOk, Backed
    <3> QED BY <2>1, <3>1, <3>2, <3>3, OrderMoves
  <2> QED BY <2>2, <2>3
<1>6. ASSUME NEW o \in Orders, NEW answer \in {"TRUE", "FALSE", "ERROR"}, orders[o] # Missing,
             orders[o].pc # "done", Tell(o, answer), UNCHANGED <<privacyClock, approvalRows>>,
             answer = "TRUE" => orders[o].pc = "execute",
             \/ executed' = executed /\ SuccessOk(o, [orders[o] EXCEPT !.pc = "done",
                                                         !.answer = answer], executed)
             \/ /\ orders[o].pc = "execute" /\ executed[orders[o].request.key] = Missing
                /\ executed' = [executed EXCEPT ![orders[o].request.key] = o]
      PROVE  ExecutionInv'
  <2> DEFINE c == orders[o]
             e == [c EXCEPT !.pc = "done", !.answer = answer]
  <2>1. /\ c \in OrderRow /\ c.request.key \in Keys
        /\ OrderOk(c, approvalRows, privacyClock) /\ \A k \in Keys : executed[k] # o
        /\ executed \in [Keys -> Orders \cup {Missing}]
    BY <1>4, <1>6 DEF ExecutionInv, ExecutionType
  <2>2. orders' = [orders EXCEPT ![o] = e]
    BY <1>6 DEF Tell, ExecutionInv, ExecutionType
  <2>3. /\ e \in OrderRow /\ e.request = c.request /\ e.asked = c.asked
        /\ e.found = c.found /\ e.pc = "done" /\ e.answer = answer
    BY <2>1 DEF OrderRow
  <2>4. SuccessOk(o, e, executed')
    <3>1. CASE executed' = executed
      BY <1>6, <2>1, <3>1 DEF SuccessOk
    <3>2. CASE executed' = [executed EXCEPT ![c.request.key] = o]
      BY <2>1, <2>3, <3>2 DEF SuccessOk
    <3> QED BY <1>6, <3>1, <3>2
  <2> HIDE DEF e
  <2>5. OrderOk(e, approvalRows, privacyClock)
    BY <1>6, <2>1, <2>3 DEF OrderOk, Backed
  <2>6. c.pc = "execute" => ExecutedOk(e.request.key, e)
    BY <2>1, <2>3 DEF OrderOk, ExecutedOk, OrderRow
  <2> QED BY <1>6, <2>1, <2>2, <2>3, <2>4, <2>5, <2>6, OrderMoves
<1>7. ASSUME NEW o \in Orders, authorizeExecution(o) PROVE ExecutionInv'
  <2> DEFINE x == orders[o].request
  <2>1. /\ orders[o] # Missing /\ orders[o].pc = "execute" /\ orders[o] \in OrderRow
        /\ UNCHANGED <<privacyClock, approvalRows>>
    BY <1>7 DEF authorizeExecution, Ordered, ExecutionInv, ExecutionType
  <2>2. ASSUME NEW a \in {"TRUE", "FALSE", "ERROR"},
               a = "TRUE" => executed[x.key] # Missing /\ NeedsApproval(x)
        PROVE  SuccessOk(o, [orders[o] EXCEPT !.pc = "done", !.answer = a], executed)
    BY <2>1, <2>2 DEF OrderRow, SuccessOk
  <2>3. CASE executed[x.key] = Missing /\ executed' = [executed EXCEPT ![x.key] = o]
             /\ (Tell(o, "TRUE") \/ Tell(o, "ERROR"))
    BY <1>6, <2>1, <2>3
  <2>4. CASE executed[x.key] # Missing /\ executed' = executed
             /\ Tell(o, IF NeedsApproval(x) THEN "TRUE" ELSE "FALSE")
    BY <1>6, <2>1, <2>2, <2>4
  <2>5. CASE Tell(o, "FALSE") /\ executed' = executed
    BY <1>6, <2>1, <2>2, <2>5
  <2> QED BY <1>7, <2>3, <2>4, <2>5 DEF authorizeExecution
<1>8. ASSUME NEW o \in Orders, AuthorityFails(o) PROVE ExecutionInv'
  <2>1. /\ orders[o] # Missing /\ orders[o].pc # "done" /\ orders[o] \in OrderRow
        /\ Tell(o, "ERROR") /\ UNCHANGED <<privacyClock, approvalRows, executed>>
    BY <1>8 DEF AuthorityFails, Ordered, ExecutionInv, ExecutionType
  <2>2. SuccessOk(o, [orders[o] EXCEPT !.pc = "done", !.answer = "ERROR"], executed)
    BY <2>1 DEF OrderRow, SuccessOk
  <2> QED BY <1>6, <2>1, <2>2
<1>9. CASE AccessNext
  BY <1>1, <1>2, <1>9 DEF AccessNext, createBreakGlassLease, EndLease, authorizeAccess,
     findLeaseForUpdate, consumeAbuse, reserveAlert, appendAudit, finalizeGrant, Rollback,
     executionVars
<1>10. CASE ExecutionNext
  BY <1>2, <1>3, <1>5, <1>7, <1>8, <1>10 DEF ExecutionNext
<1> QED BY <1>1, <1>9, <1>10 DEF privacyVars

(* What is executed or reported executed at a high risk had an approval,   *)
(* for the very request and by another, that stood when it was looked up,  *)
(* and a key executes one order (RecommendationExecutionOrchestrator).     *)
THEOREM ApprovedExecution == PrivacySpec => []HighRiskIsApproved
<1> USE OversightAssumption
<1>1. PrivacyInit => ExecutionInv
  BY DEF PrivacyInit, ExecutionInv, ExecutionType
<1>2. ExecutionInv => HighRiskIsApproved
  <2> SUFFICES ASSUME ExecutionInv PROVE HighRiskIsApproved
    OBVIOUS
  <2>1. \A o \in Orders : orders[o] # Missing /\ orders[o].found # Missing => Stood(o)
    BY DEF ExecutionInv, OrderOk, Backed, Stood, InTerm
  <2> QED BY <2>1 DEF ExecutionInv, ExecutionType, HighRiskIsApproved, OrderOk, SuccessOk, ExecutedOk
<1> QED BY <1>1, <1>2, ExecutionKept, PTL DEF PrivacySpec

----------------------------------------------------------------------------
(* CommandCenter                                                           *)

Change == [session : SessionIds \cup {"case"}, row : SessionRow \cup CaseRow]

Screen == [phase : {"loading", "ready", "failure"}, items : BOOLEAN,
           selected : View \cup {Unset}, stale : BOOLEAN, age : Nat, doubt : BOOLEAN]

(* Well-formed rows, keys, requests and screen.                            *)
CommandType ==
    /\ caseRow \in CaseRow
    /\ sessionRows \in [SessionIds -> SessionRow \cup {Unset}]
    /\ latest \in SessionIds \cup {Unset}
    /\ latest # Unset => sessionRows[latest] # Unset
    /\ reservations \subseteq Submissions
    /\ results \in [Submissions -> View \cup {Unset}]
    /\ effects \in [Submissions -> SUBSET Change]
    /\ handlers \in [Transmissions -> Handling \cup {Unset}]
    /\ fetches \in [{"load", "select"} -> CaseRow \cup {Unset}]
    /\ submitted \in [Submissions -> Submission \cup {Unset}]
    /\ screen \in Screen

(* A view is of the past: its session is there still, in a later version   *)
(* unless it is the same.                                                  *)
Past(v, rows) == v.session # Unset =>
    /\ v.contact # Unset /\ rows[v.session] # Unset
    /\ v.contact.version <= rows[v.session].version
    /\ v.contact.version = rows[v.session].version => v.contact = rows[v.session]

RowsGrow(rows, more) == \A s \in SessionIds : rows[s] # Unset =>
    /\ more[s] # Unset
    /\ rows[s].version <= more[s].version
    /\ rows[s].version = more[s].version => more[s] = rows[s]

HoldsKey(x) == x # Unset /\ x.pc \in {"lookup", "read", "act", "put", "release"}

(* Of a request: what it holds, and what its key has done at its stage.    *)
StageOk(x, sub, res, rsv, eff, rows, vd) == x # Unset =>
    /\ sub[x.key] # Unset
    /\ HoldsKey(x) => x.key \in rsv
    /\ x.pc = "lookup" /\ res[x.key] = Unset => eff[x.key] = {}
    /\ x.pc \in {"read", "act"} => eff[x.key] = {}
    /\ x.pc = "put" => eff[x.key] # {}
    /\ x.pc = "release" => res[x.key] # Unset
    /\ x.pc \in {"release", "answer"} /\ x.answer # Unset =>
          eff[x.key] # {} /\ Past(x.answer, rows)
    /\ x.pc = "act" => IF sub[x.key].action = "resolution"
                       THEN "PRESERVED" \in vd
                       ELSE /\ x.session # Unset /\ rows[x.session] # Unset
                            /\ sub[x.key].seen.contact # Unset

(* Of a key: one effect, none before a result unless the key is held, and  *)
(* what the effect rests on.                                               *)
KeyOk(k, sub, res, rsv, eff, rows, vd) ==
    /\ k \notin rsv /\ res[k] = Unset => eff[k] = {}
    /\ res[k] # Unset => eff[k] # {} /\ Past(res[k], rows)
    /\ \A e, f \in eff[k] : e = f
    /\ sub[k] = Unset => eff[k] = {}
    /\ sub[k] # Unset =>
          /\ Past(sub[k].seen, rows)
          /\ sub[k].status = "applied" => eff[k] # {}
          /\ sub[k].action = "resolution" /\ eff[k] # {} => "PRESERVED" \in vd
          /\ \A e \in eff[k] : sub[k].action # "resolution" /\ e.session = sub[k].seen.session =>
                                  e.row = sub[k].seen.contact

Keeper(x, y) == HoldsKey(x) /\ HoldsKey(y) => x.key # y.key

CommandInv ==
    /\ CommandType
    /\ screen.selected # Unset => Past(screen.selected, sessionRows)
    /\ \A h \in Transmissions :
          StageOk(handlers[h], submitted, results, reservations, effects, sessionRows, verdicts)
    /\ \A k \in Submissions :
          KeyOk(k, submitted, results, reservations, effects, sessionRows, verdicts)
    /\ \A g, h \in Transmissions : g # h => Keeper(handlers[g], handlers[h])

(* What a reader sees of a case is, when it is read, what the rows say.    *)
LEMMA ViewIsPast ==
    ASSUME CommandInv, NEW event \in CaseRow
    PROVE  view(event) \in View /\ view(event) # Unset /\ Past(view(event), sessionRows)
  BY CommandAssumption DEF CommandInv, CommandType, view, View, Past, CaseRow, SessionRow

(* What was once true of a row stays a past of it as rows grow.            *)
LEMMA PastStays ==
    ASSUME NEW v \in View, NEW rows \in [SessionIds -> SessionRow \cup {Unset}],
           NEW more \in [SessionIds -> SessionRow \cup {Unset}],
           RowsGrow(rows, more), Past(v, rows)
    PROVE  Past(v, more)
  BY CommandAssumption DEF View, SessionRow, RowsGrow, Past

(* Rows and evidence grow; keys, requests and browser stay.                *)
LEMMA RowsChange ==
    ASSUME CommandInv, UNCHANGED <<keyVars, handlers, browserVars>>,
           caseRow' \in CaseRow,
           sessionRows' \in [SessionIds -> SessionRow \cup {Unset}],
           latest' \in SessionIds \cup {Unset},
           latest' # Unset => sessionRows'[latest'] # Unset,
           RowsGrow(sessionRows, sessionRows'),
           verdicts \subseteq verdicts'
    PROVE  CommandInv'
<1> USE CommandAssumption
<1>1. CommandType'
  BY DEF CommandInv, CommandType, keyVars, browserVars
<1>2. \A v \in View : Past(v, sessionRows) => Past(v, sessionRows')
  BY PastStays DEF CommandInv, CommandType
<1>3. UNCHANGED <<screen, handlers, submitted, results, reservations, effects>>
  BY DEF keyVars, browserVars
<1>4. (screen.selected # Unset => Past(screen.selected, sessionRows))'
  BY <1>2, <1>3 DEF CommandInv, CommandType, Screen
<1>5. ASSUME NEW h \in Transmissions
      PROVE  StageOk(handlers[h], submitted, results, reservations, effects, sessionRows', verdicts')
  <2> DEFINE x == handlers[h]
  <2>1. /\ x \in Handling \cup {Unset}
        /\ StageOk(x, submitted, results, reservations, effects, sessionRows, verdicts)
    BY DEF CommandInv, CommandType
  <2>2. x # Unset /\ x.pc \in {"release", "answer"} => x.answer \in View \cup {Unset}
    BY <2>1 DEF Handling
  <2>3. x # Unset /\ x.pc = "act" => x.session \in SessionIds \cup {Unset}
    BY <2>1 DEF Handling
  <2>4. \A s \in SessionIds : sessionRows[s] # Unset => sessionRows'[s] # Unset
    BY DEF RowsGrow
  <2> SUFFICES StageOk(x, submitted, results, reservations, effects, sessionRows', verdicts')
    OBVIOUS
  <2> HIDE DEF x
  <2> QED BY <1>2, <2>1, <2>2, <2>3, <2>4 DEF StageOk
<1>6. ASSUME NEW k \in Submissions
      PROVE  KeyOk(k, submitted, results, reservations, effects, sessionRows', verdicts')
  <2>1. /\ KeyOk(k, submitted, results, reservations, effects, sessionRows, verdicts)
        /\ results[k] \in View \cup {Unset}
        /\ submitted[k] # Unset => submitted[k].seen \in View
    BY DEF CommandInv, CommandType, Submission
  <2> QED BY <1>2, <2>1 DEF KeyOk
<1> QED BY <1>1, <1>3, <1>4, <1>5, <1>6 DEF CommandInv

(* A request goes on, without a change of its key or of the rows.          *)
LEMMA StageMoves ==
    ASSUME CommandInv, NEW h \in Transmissions, NEW x \in Handling, handlers[h] # Unset,
           x.key = handlers[h].key,
           UNCHANGED <<rowVars, keyVars, browserVars>>,
           handlers' = [handlers EXCEPT ![h] = x],
           StageOk(x, submitted, results, reservations, effects, sessionRows, verdicts),
           HoldsKey(x) => HoldsKey(handlers[h])
    PROVE  CommandInv'
<1> USE CommandAssumption
<1>1. UNCHANGED <<caseRow, sessionRows, latest, verdicts, reservations, results, effects,
                  fetches, submitted, screen>>
  BY DEF rowVars, keyVars, browserVars
<1>2. CommandType'
  BY <1>1 DEF CommandInv, CommandType
<1>3. \A g, i \in Transmissions : g # i => Keeper(handlers[g], handlers[i])'
  BY DEF CommandInv, CommandType, Keeper, HoldsKey
<1> QED BY <1>1, <1>2, <1>3 DEF CommandInv, CommandType

(* The invariant holds at the start.                                       *)
LEMMA CommandStart == CommandInit => CommandInv
  BY CommandAssumption DEF CommandInit, CommandInv, CommandType, CaseRow, Screen, StageOk, KeyOk,
     Keeper, HoldsKey

(* receive: a request is refused, or takes its key.                        *)
LEMMA RequestArrives ==
    ASSUME CommandInv, NEW h \in Transmissions, NEW k \in Submissions, receive(h, k)
    PROVE  CommandInv'
<1> USE CommandAssumption
<1>1. UNCHANGED <<caseRow, sessionRows, latest, verdicts, results, effects,
                  fetches, submitted, screen>>
  BY DEF receive, rowVars, browserVars
<1> DEFINE x == [pc |-> "answer", key |-> k, answer |-> Unset]
           y == [pc |-> "lookup", key |-> k]
<1>2. x \in Handling /\ y \in Handling /\ ~HoldsKey(x) /\ HoldsKey(y)
  BY DEF Handling, HoldsKey
<1>3. submitted[k] # Unset
  BY DEF receive
<1>4. CASE k \in reservations
  <2>1. handlers' = [handlers EXCEPT ![h] = x] /\ reservations' = reservations
    BY <1>4 DEF receive
  <2>2. StageOk(x, submitted, results, reservations, effects, sessionRows, verdicts)
    BY <1>2, <1>3 DEF StageOk, HoldsKey
  <2>3. CommandType'
    BY <1>1, <1>2, <2>1 DEF CommandInv, CommandType
  <2> HIDE DEF x
  <2>4. \A g, i \in Transmissions : g # i => Keeper(handlers[g], handlers[i])'
    BY <1>2, <2>1 DEF CommandInv, CommandType, Keeper
  <2> QED BY <1>1, <2>1, <2>2, <2>3, <2>4 DEF CommandInv, CommandType
<1>5. CASE k \notin reservations
  <2>1. handlers' = [handlers EXCEPT ![h] = y] /\ reservations' = reservations \cup {k}
    BY <1>5 DEF receive
  <2>2. CommandType'
    BY <1>1, <1>2, <2>1 DEF CommandInv, CommandType
  <2>3. y.key = k /\ y.pc = "lookup"
    OBVIOUS
  <2> HIDE DEF y
  <2>4. KeyOk(k, submitted, results, reservations, effects, sessionRows, verdicts)
    BY DEF CommandInv
  <2>5. StageOk(y, submitted, results, reservations', effects, sessionRows, verdicts)
    BY <1>3, <1>5, <2>1, <2>3, <2>4 DEF StageOk, KeyOk
  <2>6. \A g \in Transmissions : HoldsKey(handlers[g]) => handlers[g].key # k
    BY <1>5 DEF CommandInv, StageOk, HoldsKey
  <2>7. \A g, i \in Transmissions : g # i => Keeper(handlers[g], handlers[i])'
    BY <2>1, <2>3, <2>6 DEF CommandInv, CommandType, Keeper
  <2>8. \A g \in Transmissions :
          StageOk(handlers[g], submitted, results, reservations', effects, sessionRows, verdicts)
    BY <2>1 DEF CommandInv, StageOk
  <2>9. \A i \in Submissions :
          KeyOk(i, submitted, results, reservations', effects, sessionRows, verdicts)
    BY <2>1 DEF CommandInv, KeyOk
  <2> QED BY <1>1, <2>1, <2>2, <2>5, <2>7, <2>8, <2>9 DEF CommandInv, CommandType
<1> QED BY <1>4, <1>5
(* The stages a handler reaches without changing key or rows.              *)
LEMMA HandlerDecides ==
    ASSUME CommandInv, NEW h \in Transmissions,
           idempotent(h) \/ readBacking(h) \/ breakDown(h)
    PROVE  CommandInv'
<1> USE CommandAssumption
<1> DEFINE o == handlers[h]
           k == o.key
<1>1. /\ o \in Handling /\ o # Unset /\ k \in Submissions
      /\ UNCHANGED <<rowVars, keyVars, browserVars>>
      /\ StageOk(o, submitted, results, reservations, effects, sessionRows, verdicts)
      /\ KeyOk(k, submitted, results, reservations, effects, sessionRows, verdicts)
  BY DEF CommandInv, CommandType, idempotent, readBacking, breakDown, Reached, Handling
<1>2. submitted[k] # Unset /\ submitted[k] \in Submission
  BY <1>1 DEF StageOk, CommandInv, CommandType
<1>3. ASSUME Finish(h, Unset) PROVE CommandInv'
  <2> DEFINE x == [pc |-> "answer", key |-> k, answer |-> Unset]
  <2>1. x \in Handling /\ x.key = k /\ ~HoldsKey(x) /\ handlers' = [handlers EXCEPT ![h] = x]
    BY <1>1, <1>3 DEF Handling, HoldsKey, Finish, Become
  <2>2. StageOk(x, submitted, results, reservations, effects, sessionRows, verdicts)
    BY <1>2, <2>1 DEF StageOk
  <2> HIDE DEF x
  <2> QED BY <1>1, <2>1, <2>2, StageMoves
<1>4. ASSUME idempotent(h) PROVE CommandInv'
  <2>1. o.pc = "lookup" /\ HoldsKey(o)
    BY <1>4 DEF idempotent, Reached, HoldsKey
  <2>2. CASE results[k] # Unset
    <3> DEFINE x == [pc |-> "release", key |-> k, answer |-> results[k]]
    <3>1. handlers' = [handlers EXCEPT ![h] = x]
      BY <1>4, <2>2 DEF idempotent, Become
    <3>2. x \in Handling /\ x.key = k /\ x.pc = "release" /\ x.answer = results[k]
      BY <1>1, <2>2 DEF Handling, CommandInv, CommandType
    <3> HIDE DEF x
    <3>3. StageOk(x, submitted, results, reservations, effects, sessionRows, verdicts)
      BY <1>1, <1>2, <2>1, <2>2, <3>2 DEF StageOk, KeyOk, HoldsKey
    <3> QED BY <1>1, <2>1, <3>1, <3>2, <3>3, StageMoves
  <2>3. CASE results[k] = Unset /\ caseRow.version = submitted[k].seen.version
    <3> DEFINE x == [pc |-> "read", key |-> k, version |-> caseRow.version]
    <3>1. handlers' = [handlers EXCEPT ![h] = x]
      BY <1>4, <2>3 DEF idempotent, Become, Request
    <3>2. x \in Handling /\ x.key = k /\ x.pc = "read"
      BY <1>1 DEF Handling, CommandInv, CommandType, CaseRow
    <3> HIDE DEF x
    <3>3. StageOk(x, submitted, results, reservations, effects, sessionRows, verdicts)
      BY <1>1, <1>2, <2>1, <2>3, <3>2 DEF StageOk, HoldsKey
    <3> QED BY <1>1, <2>1, <3>1, <3>2, <3>3, StageMoves
  <2> QED BY <1>3, <1>4, <2>2, <2>3 DEF idempotent, Request
<1>5. ASSUME readBacking(h) PROVE CommandInv'
  <2>1. o.pc = "read" /\ HoldsKey(o)
    BY <1>5 DEF readBacking, Reached, HoldsKey
  <2>2. CASE Finish(h, Unset)
    BY <1>3, <2>2
  <2>3. CASE ~Finish(h, Unset)
    <3> DEFINE x == [pc |-> "act", key |-> k, version |-> o.version, session |-> latest]
    <3>1. /\ handlers' = [handlers EXCEPT ![h] = x]
          /\ submitted[k].action = "resolution" => EvidenceState = "TRUSTED"
          /\ submitted[k].action # "resolution" => latest # Unset /\ submitted[k].seen.contact # Unset
      BY <1>5, <2>3 DEF readBacking, Become, Request
    <3>2. x \in Handling /\ x.key = k /\ x.pc = "act" /\ x.session = latest
      BY <1>1, <2>1 DEF Handling, CommandInv, CommandType
    <3> HIDE DEF x
    <3>3. EvidenceState = "TRUSTED" => "PRESERVED" \in verdicts
      BY DEF EvidenceState
    <3>4. latest # Unset => sessionRows[latest] # Unset
      BY DEF CommandInv, CommandType
    <3>5. StageOk(x, submitted, results, reservations, effects, sessionRows, verdicts)
      BY <1>1, <1>2, <2>1, <3>1, <3>2, <3>3, <3>4 DEF StageOk, HoldsKey
    <3> QED BY <1>1, <2>1, <3>1, <3>2, <3>5, StageMoves
  <2> QED BY <2>2, <2>3
<1> QED BY <1>3, <1>4, <1>5 DEF breakDown

(* The transaction: one effect under a key without any, on a row found as  *)
(* it was seen, or on preserved evidence.                                  *)
LEMMA CaseChanges ==
    ASSUME CommandInv, NEW h \in Transmissions, Reached(h, "act"), NEW e \in Change,
           Effect(h, e), Acted(h),
           UNCHANGED <<verdicts, reservations, results, browserVars>>,
           caseRow' \in CaseRow,
           sessionRows' \in [SessionIds -> SessionRow \cup {Unset}],
           latest' \in SessionIds \cup {Unset},
           latest' # Unset => sessionRows'[latest'] # Unset,
           RowsGrow(sessionRows, sessionRows'),
           Request(h).action # "resolution" /\ e.session = Request(h).seen.session =>
               e.row = Request(h).seen.contact
    PROVE  CommandInv'
<1> USE CommandAssumption
<1> DEFINE o == handlers[h]
           k == o.key
           x == [pc |-> "put", key |-> k]
<1>1. /\ o \in Handling /\ o # Unset /\ k \in Submissions /\ o.pc = "act" /\ HoldsKey(o)
      /\ StageOk(o, submitted, results, reservations, effects, sessionRows, verdicts)
      /\ KeyOk(k, submitted, results, reservations, effects, sessionRows, verdicts)
  BY DEF CommandInv, CommandType, Reached, Handling, HoldsKey
<1>2. submitted[k] # Unset /\ k \in reservations /\ effects[k] = {}
  BY <1>1 DEF StageOk
<1>3. UNCHANGED <<verdicts, reservations, results, fetches, submitted, screen>>
  BY DEF browserVars
<1>4. /\ handlers' = [handlers EXCEPT ![h] = x]
      /\ effects' = [effects EXCEPT ![k] = {e}]
  BY <1>1, <1>2 DEF Acted, Become, Effect
<1>5. x \in Handling /\ x.key = k /\ x.pc = "put" /\ HoldsKey(x)
  BY <1>1 DEF Handling, HoldsKey
<1> HIDE DEF x
<1>6. CommandType'
  BY <1>1, <1>3, <1>4, <1>5 DEF CommandInv, CommandType
<1>7. effects'[k] = {e} /\ \A i \in Submissions : i # k => effects'[i] = effects[i]
  BY <1>1, <1>4 DEF CommandInv, CommandType
<1>8. \A v \in View : Past(v, sessionRows) => Past(v, sessionRows')
  BY PastStays DEF CommandInv, CommandType
<1>9. \A s \in SessionIds : sessionRows[s] # Unset => sessionRows'[s] # Unset
  BY DEF RowsGrow
<1>10. (screen.selected # Unset => Past(screen.selected, sessionRows))'
  BY <1>3, <1>8 DEF CommandInv, CommandType, Screen
<1>11. \A g \in Transmissions : g # h /\ HoldsKey(handlers[g]) => handlers[g].key # k
  BY <1>1 DEF CommandInv, Keeper
<1>12. ASSUME NEW g \in Transmissions, g # h
       PROVE StageOk(handlers[g], submitted, results, reservations, effects', sessionRows', verdicts)
  <2> DEFINE y == handlers[g]
  <2>1. /\ y \in Handling \cup {Unset} /\ (HoldsKey(y) => y.key # k)
        /\ StageOk(y, submitted, results, reservations, effects, sessionRows, verdicts)
    BY <1>11, <1>12 DEF CommandInv, CommandType
  <2>2. y # Unset => y.key \in Submissions
    BY <2>1 DEF Handling
  <2>3. y # Unset /\ y.pc \in {"release", "answer"} => y.answer \in View \cup {Unset}
    BY <2>1 DEF Handling
  <2>4. y # Unset /\ y.pc = "act" => y.session \in SessionIds \cup {Unset}
    BY <2>1 DEF Handling
  <2> SUFFICES StageOk(y, submitted, results, reservations, effects', sessionRows', verdicts)
    OBVIOUS
  <2> HIDE DEF y
  <2> QED BY <1>7, <1>8, <1>9, <2>1, <2>2, <2>3, <2>4 DEF StageOk, HoldsKey
<1>13. StageOk(x, submitted, results, reservations, effects', sessionRows', verdicts)
  BY <1>2, <1>5, <1>7 DEF StageOk
<1>14. ASSUME NEW i \in Submissions, i # k
       PROVE KeyOk(i, submitted, results, reservations, effects', sessionRows', verdicts)
  <2>1. /\ KeyOk(i, submitted, results, reservations, effects, sessionRows, verdicts)
        /\ results[i] \in View \cup {Unset}
        /\ submitted[i] # Unset => submitted[i].seen \in View
    BY DEF CommandInv, CommandType, Submission
  <2> QED BY <1>7, <1>8, <1>14, <2>1 DEF KeyOk
<1>15. KeyOk(k, submitted, results, reservations, effects', sessionRows', verdicts)
  <2>1. /\ results[k] \in View \cup {Unset}
        /\ submitted[k].seen \in View
    BY <1>1, <1>2 DEF CommandInv, CommandType, Submission
  <2>2. submitted[k].action = "resolution" => "PRESERVED" \in verdicts
    BY <1>1 DEF StageOk
  <2>3. submitted[k].action # "resolution" /\ e.session = submitted[k].seen.session =>
            e.row = submitted[k].seen.contact
    BY DEF Request
  <2> QED BY <1>1, <1>2, <1>7, <1>8, <2>1, <2>2, <2>3 DEF KeyOk
<1>16. \A g, i \in Transmissions : g # i => Keeper(handlers[g], handlers[i])'
  BY <1>1, <1>4, <1>5 DEF CommandInv, CommandType, Keeper
<1>17. \A g \in Transmissions :
         StageOk(handlers[g], submitted, results, reservations, effects, sessionRows, verdicts)'
  BY <1>3, <1>4, <1>12, <1>13 DEF CommandInv, CommandType
<1>18. \A i \in Submissions :
         KeyOk(i, submitted, results, reservations, effects, sessionRows, verdicts)'
  BY <1>3, <1>14, <1>15
<1> QED BY <1>6, <1>10, <1>16, <1>17, <1>18 DEF CommandInv

(* A session row written back with a later version.                        *)
LEMMA RowIsWritten ==
    ASSUME CommandInv, NEW s \in SessionIds, NEW r \in SessionRow, Write(s, r),
           sessionRows[s] # Unset => sessionRows[s].version < r.version
    PROVE  /\ sessionRows' \in [SessionIds -> SessionRow \cup {Unset}]
           /\ latest' \in SessionIds /\ sessionRows'[latest'] # Unset
           /\ RowsGrow(sessionRows, sessionRows')
  BY CommandAssumption DEF Write, CommandInv, CommandType, RowsGrow, SessionRow

(* An update of a row raises its version.                                  *)
LEMMA RowIsUpdated ==
    ASSUME NEW old \in SessionRow, NEW to \in States
    PROVE  /\ Updated(old, to) \in SessionRow
           /\ Updated(old, to).version = old.version + 1
           /\ old.version < Updated(old, to).version
<1>1. old.version \in Nat /\ old.version + 1 \in Nat /\ old.version < old.version + 1
  BY DEF SessionRow
<1> QED BY <1>1 DEF Updated, SessionRow

(* A request that holds its key writes the row it named (mutate).          *)
LEMMA SessionIsMutated ==
    ASSUME CommandInv, NEW h \in Transmissions, mutate(h)
    PROVE  CommandInv'
<1> USE CommandAssumption
<1> DEFINE o == handlers[h]
           k == o.key
           s == o.session
           r == submitted[k]
           old == sessionRows[s]
           new == Mutated(old, r.action)
           e == [session |-> s, row |-> old]
<1>1. /\ o \in Handling /\ o # Unset /\ k \in Submissions /\ o.pc = "act"
      /\ StageOk(o, submitted, results, reservations, effects, sessionRows, verdicts)
      /\ KeyOk(k, submitted, results, reservations, effects, sessionRows, verdicts)
      /\ r.action # "resolution" /\ Request(h) = r
  BY DEF CommandInv, CommandType, Reached, Handling, mutate, Request
<1>2. /\ s \in SessionIds /\ old \in SessionRow /\ r \in Submission /\ r.seen.contact # Unset
      /\ r.seen \in View /\ Past(r.seen, sessionRows)
  BY <1>1 DEF StageOk, KeyOk, Handling, CommandInv, CommandType, Submission
<1>3. CASE Mutable(old, r)
  <2>1. Write(s, new) /\ Effect(h, e) /\ Acted(h)
    BY <1>1, <1>3 DEF mutate
  <2>2. new \in SessionRow /\ new.version = old.version + 1 /\ old.version < new.version
    <3>1. PICK to \in States : new = [Updated(old, to) EXCEPT !.human = TRUE]
      <4>1. old.state \in States
        BY <1>2 DEF SessionRow
      <4>2. r.action \in {"takeover", "escalate", "assignment"}
        BY <1>1, <1>2 DEF Submission
      <4>3. CASE r.action = "takeover"
        <5>1. "OPERATOR_TAKEOVER" \in States
          BY DEF States
        <5> QED BY <4>3, <5>1 DEF Mutated
      <4>4. CASE r.action = "escalate"
        <5>1. "ESCALATED" \in States
          BY DEF States
        <5> QED BY <4>4, <5>1 DEF Mutated
      <4>5. CASE r.action = "assignment"
        <5>1. new = [Updated(old, old.state) EXCEPT !.human = TRUE]
          BY <4>5 DEF Mutated
        <5> HIDE DEF new
        <5> QED BY <4>1, <5>1
      <4> QED BY <4>2, <4>3, <4>4, <4>5
    <3> HIDE DEF new
    <3>2. new = [state |-> to, version |-> old.version + 1, human |-> TRUE]
      BY <1>2, <3>1 DEF Updated, SessionRow
    <3>3. old.version \in Nat
      BY <1>2 DEF SessionRow
    <3>4. old.version + 1 \in Nat
      BY <3>3
    <3> QED BY <3>2, <3>3, <3>4 DEF SessionRow
  <2>3. e \in Change /\ e.session = s /\ e.row = old
    BY <1>2 DEF Change
  <2>4. old.version = r.seen.contact.version
    BY <1>3 DEF Mutable, SameVersion
  <2>5. s = r.seen.session => old = r.seen.contact
    BY <1>2, <2>4 DEF Past
  <2>6. UNCHANGED <<caseRow, verdicts, reservations, results, browserVars>> /\ Reached(h, "act")
    BY DEF mutate
  <2> HIDE DEF e, new
  <2>7. /\ sessionRows' \in [SessionIds -> SessionRow \cup {Unset}]
        /\ latest' \in SessionIds /\ sessionRows'[latest'] # Unset
        /\ RowsGrow(sessionRows, sessionRows')
    BY <1>2, <2>1, <2>2, RowIsWritten
  <2>8. caseRow' \in CaseRow
    BY <2>6 DEF CommandInv, CommandType
  <2> QED BY <1>1, <2>1, <2>3, <2>5, <2>6, <2>7, <2>8, CaseChanges
<1>4. CASE ~Mutable(old, r)
  <2> DEFINE x == [pc |-> "answer", key |-> k, answer |-> Unset]
  <2>1. x \in Handling /\ x.key = k /\ ~HoldsKey(x) /\ handlers' = [handlers EXCEPT ![h] = x]
    BY <1>1, <1>4 DEF Handling, HoldsKey, Finish, Become, mutate
  <2>2. StageOk(x, submitted, results, reservations, effects, sessionRows, verdicts)
    BY <1>1, <1>2, <2>1 DEF StageOk
  <2>3. UNCHANGED <<rowVars, keyVars, browserVars>>
    BY <1>1, <1>4 DEF mutate, rowVars, keyVars
  <2> HIDE DEF x
  <2> QED BY <1>1, <2>1, <2>2, <2>3, StageMoves
<1> QED BY <1>3, <1>4

(* A resolution is decided on the evidence of the case row it names.       *)
LEMMA ResolutionIsAuthorized ==
    ASSUME CommandInv, NEW h \in Transmissions, authorizeResolution(h)
    PROVE  CommandInv'
<1> USE CommandAssumption
<1> DEFINE o == handlers[h]
           k == o.key
           e == [session |-> "case", row |-> caseRow]
<1>1. /\ o \in Handling /\ o # Unset /\ k \in Submissions /\ o.pc = "act"
      /\ StageOk(o, submitted, results, reservations, effects, sessionRows, verdicts)
      /\ Request(h).action = "resolution"
  BY DEF CommandInv, CommandType, Reached, Handling, authorizeResolution
<1>2. CASE caseRow.version = o.version
  <2>1. /\ Effect(h, e) /\ Acted(h) /\ Reached(h, "act")
        /\ caseRow' = [version |-> caseRow.version + 1, resolved |-> TRUE]
        /\ UNCHANGED <<sessionRows, latest, verdicts, reservations, results, browserVars>>
    BY <1>2 DEF authorizeResolution
  <2>2. e \in Change /\ caseRow' \in CaseRow
    BY <2>1 DEF Change, CommandInv, CommandType, CaseRow
  <2>3. /\ sessionRows' \in [SessionIds -> SessionRow \cup {Unset}]
        /\ latest' \in SessionIds \cup {Unset} /\ (latest' # Unset => sessionRows'[latest'] # Unset)
    BY <2>1 DEF CommandInv, CommandType
  <2>4. RowsGrow(sessionRows, sessionRows')
    BY <2>1 DEF RowsGrow, CommandInv, CommandType, SessionRow
  <2> HIDE DEF e
  <2> QED BY <1>1, <2>1, <2>2, <2>3, <2>4, CaseChanges
<1>3. CASE caseRow.version # o.version
  <2> DEFINE x == [pc |-> "answer", key |-> k, answer |-> Unset]
  <2>1. x \in Handling /\ x.key = k /\ ~HoldsKey(x) /\ handlers' = [handlers EXCEPT ![h] = x]
    BY <1>1, <1>3 DEF Handling, HoldsKey, Finish, Become, authorizeResolution
  <2>2. StageOk(x, submitted, results, reservations, effects, sessionRows, verdicts)
    BY <1>1, <2>1 DEF StageOk
  <2>3. UNCHANGED <<rowVars, keyVars, browserVars>>
    BY <1>1, <1>3 DEF authorizeResolution, rowVars, keyVars
  <2> HIDE DEF x
  <2> QED BY <1>1, <2>1, <2>2, <2>3, StageMoves
<1> QED BY <1>2, <1>3

(* put: the view is kept under a key that had its effect.                  *)
LEMMA ResultIsKept ==
    ASSUME CommandInv, NEW h \in Transmissions, put(h)
    PROVE  CommandInv'
<1> USE CommandAssumption
<1> DEFINE o == handlers[h]
           k == o.key
           v == view(caseRow)
           x == [pc |-> "release", key |-> k, answer |-> v]
<1>1. /\ o \in Handling /\ o # Unset /\ k \in Submissions /\ o.pc = "put" /\ HoldsKey(o)
      /\ StageOk(o, submitted, results, reservations, effects, sessionRows, verdicts)
      /\ KeyOk(k, submitted, results, reservations, effects, sessionRows, verdicts)
  BY DEF CommandInv, CommandType, Reached, Handling, put, HoldsKey
<1>2. v \in View /\ v # Unset /\ Past(v, sessionRows)
  BY ViewIsPast DEF CommandInv, CommandType
<1>3. /\ handlers' = [handlers EXCEPT ![h] = x]
      /\ results' = [results EXCEPT ![k] = v]
      /\ UNCHANGED <<caseRow, sessionRows, latest, verdicts, reservations, effects, fetches,
                     submitted, screen>>
  BY DEF put, Become, rowVars, browserVars
<1> HIDE DEF v
<1>4. x \in Handling /\ x.key = k /\ x.pc = "release" /\ x.answer = v /\ HoldsKey(x)
  BY <1>1, <1>2 DEF Handling, HoldsKey
<1> HIDE DEF x
<1>5. CommandType'
  BY <1>1, <1>2, <1>3, <1>4 DEF CommandInv, CommandType
<1>6. results'[k] = v /\ \A i \in Submissions : i # k => results'[i] = results[i]
  BY <1>1, <1>3 DEF CommandInv, CommandType
<1>7. \A g, i \in Transmissions : g # i => Keeper(handlers[g], handlers[i])'
  BY <1>1, <1>3, <1>4 DEF CommandInv, CommandType, Keeper
<1>8. \A g \in Transmissions :
        StageOk(handlers[g], submitted, results, reservations, effects, sessionRows, verdicts)'
  <2>1. StageOk(x, submitted, results', reservations, effects, sessionRows, verdicts)
    BY <1>1, <1>2, <1>4, <1>6 DEF StageOk
  <2>2. ASSUME NEW g \in Transmissions, g # h
        PROVE StageOk(handlers[g], submitted, results', reservations, effects, sessionRows, verdicts)
    <3> DEFINE y == handlers[g]
    <3>1. /\ StageOk(y, submitted, results, reservations, effects, sessionRows, verdicts)
          /\ (HoldsKey(y) => y.key # k) /\ y \in Handling \cup {Unset}
      BY <1>1, <2>2 DEF CommandInv, CommandType, Keeper
    <3>2. y # Unset => y.key \in Submissions
      BY <3>1 DEF Handling
    <3> SUFFICES StageOk(y, submitted, results', reservations, effects, sessionRows, verdicts)
      OBVIOUS
    <3> HIDE DEF y
    <3> QED BY <1>6, <3>1, <3>2 DEF StageOk, HoldsKey
  <2> QED BY <1>3, <2>1, <2>2 DEF CommandInv, CommandType
<1>9. \A i \in Submissions :
        KeyOk(i, submitted, results, reservations, effects, sessionRows, verdicts)'
  <2>1. KeyOk(k, submitted, results', reservations, effects, sessionRows, verdicts)
    BY <1>1, <1>2, <1>6 DEF KeyOk, StageOk
  <2>2. ASSUME NEW i \in Submissions, i # k
        PROVE KeyOk(i, submitted, results', reservations, effects, sessionRows, verdicts)
    BY <1>6, <2>2 DEF CommandInv, KeyOk
  <2> QED BY <1>3, <2>1, <2>2
<1> QED BY <1>3, <1>5, <1>7, <1>8, <1>9 DEF CommandInv

(* release: the key is free again, its result is stored.                   *)
LEMMA KeyIsReleased ==
    ASSUME CommandInv, NEW h \in Transmissions, release(h)
    PROVE  CommandInv'
<1> USE CommandAssumption
<1> DEFINE o == handlers[h]
           k == o.key
           x == [pc |-> "answer", key |-> k, answer |-> o.answer]
<1>1. /\ o \in Handling /\ o # Unset /\ k \in Submissions /\ o.pc = "release" /\ HoldsKey(o)
      /\ o.answer \in View \cup {Unset}
      /\ StageOk(o, submitted, results, reservations, effects, sessionRows, verdicts)
      /\ KeyOk(k, submitted, results, reservations, effects, sessionRows, verdicts)
  BY DEF CommandInv, CommandType, Reached, Handling, release, HoldsKey
<1>2. /\ handlers' = [handlers EXCEPT ![h] = x]
      /\ reservations' = reservations \ {k}
      /\ UNCHANGED <<caseRow, sessionRows, latest, verdicts, results, effects, fetches,
                     submitted, screen>>
  BY DEF release, Finish, Become, rowVars, browserVars
<1>3. x \in Handling /\ x.key = k /\ x.pc = "answer" /\ x.answer = o.answer /\ ~HoldsKey(x)
  BY <1>1 DEF Handling, HoldsKey
<1> HIDE DEF x
<1>4. CommandType'
  BY <1>1, <1>2, <1>3 DEF CommandInv, CommandType
<1>5. \A g, i \in Transmissions : g # i => Keeper(handlers[g], handlers[i])'
  BY <1>1, <1>2, <1>3 DEF CommandInv, CommandType, Keeper
<1>6. \A g \in Transmissions :
        StageOk(handlers[g], submitted, results, reservations, effects, sessionRows, verdicts)'
  <2>1. StageOk(x, submitted, results, reservations', effects, sessionRows, verdicts)
    BY <1>1, <1>3 DEF StageOk
  <2>2. ASSUME NEW g \in Transmissions, g # h
        PROVE StageOk(handlers[g], submitted, results, reservations', effects, sessionRows, verdicts)
    BY <1>1, <1>2, <2>2 DEF CommandInv, Keeper, StageOk
  <2> QED BY <1>2, <2>1, <2>2 DEF CommandInv, CommandType
<1>7. \A i \in Submissions :
        KeyOk(i, submitted, results, reservations, effects, sessionRows, verdicts)'
  <2>1. KeyOk(k, submitted, results, reservations', effects, sessionRows, verdicts)
    BY <1>1 DEF StageOk, KeyOk
  <2>2. ASSUME NEW i \in Submissions, i # k
        PROVE KeyOk(i, submitted, results, reservations', effects, sessionRows, verdicts)
    BY <1>2, <2>2 DEF CommandInv, KeyOk
  <2> QED BY <1>2, <2>1, <2>2
<1> QED BY <1>2, <1>4, <1>5, <1>6, <1>7 DEF CommandInv

(* The browser looks: its view is of the rows of now.                      *)
LEMMA ScreenChanges ==
    ASSUME CommandInv, UNCHANGED <<rowVars, keyVars, handlers, submitted>>,
           fetches' \in [{"load", "select"} -> CaseRow \cup {Unset}],
           screen' \in Screen,
           screen'.selected # Unset => Past(screen'.selected, sessionRows)
    PROVE  CommandInv'
  BY DEF CommandInv, CommandType, rowVars, keyVars

(* The browser loads, selects and filters; none of it writes a row.        *)
LEMMA BrowserLooks ==
    ASSUME CommandInv,
           \/ load \/ select \/ setFilter \/ commandTick
           \/ \E f \in {"load", "select"} : fetched(f) \/ fetchFails(f)
    PROVE  CommandInv'
<1> USE CommandAssumption
<1>1. /\ screen \in Screen /\ caseRow \in CaseRow
      /\ fetches \in [{"load", "select"} -> CaseRow \cup {Unset}]
      /\ screen.selected # Unset => Past(screen.selected, sessionRows)
  BY DEF CommandInv, CommandType
<1>2. ASSUME NEW scr \in Screen
      PROVE  refreshStaleness(scr) \in Screen /\ refreshStaleness(scr).selected = scr.selected
  <2>1. (scr.age > StaleAfter) \in BOOLEAN
    OBVIOUS
  <2> DEFINE b == scr.age > StaleAfter
  <2>2. refreshStaleness(scr) = [scr EXCEPT !.stale = b]
    BY DEF refreshStaleness
  <2> HIDE DEF b
  <2> QED BY <2>1, <2>2 DEF Screen, b
<1>3. CASE load
  <2>1. /\ screen' = [screen EXCEPT !.phase = "loading"]
        /\ fetches' = [fetches EXCEPT !["load"] = caseRow]
        /\ UNCHANGED <<rowVars, keyVars, handlers, submitted>>
    BY <1>3 DEF load
  <2>2. screen' \in Screen /\ screen'.selected = screen.selected
    BY <1>1, <2>1 DEF Screen
  <2> QED BY <1>1, <2>1, <2>2, ScreenChanges
<1>4. CASE select
  BY <1>1, <1>4, ScreenChanges DEF select
<1>5. CASE setFilter
  BY <1>1, <1>2, <1>5, ScreenChanges DEF setFilter
<1>6. CASE commandTick
  <2>1. /\ screen' = [screen EXCEPT !.age = @ + 1]
        /\ UNCHANGED <<rowVars, keyVars, handlers, fetches, submitted>>
    BY <1>6 DEF commandTick
  <2>2. screen' \in Screen /\ screen'.selected = screen.selected
    BY <1>1, <2>1 DEF Screen
  <2> QED BY <1>1, <2>1, <2>2, ScreenChanges
<1>7. ASSUME NEW f \in {"load", "select"}, fetched(f) PROVE CommandInv'
  <2> DEFINE seen == IF f = "load" /\ screen.selected = Unset THEN Unset ELSE view(fetches[f])
             fresh == [phase |-> "ready", items |-> TRUE, selected |-> seen,
                       stale |-> FALSE, age |-> 0, doubt |-> FALSE]
  <2>1. /\ screen' = refreshStaleness(fresh)
        /\ fetches' = [fetches EXCEPT ![f] = Unset] /\ fetches[f] # Unset
        /\ UNCHANGED <<rowVars, keyVars, handlers, submitted>>
    BY <1>7 DEF fetched, Fresh
  <2>2. view(fetches[f]) \in View /\ Past(view(fetches[f]), sessionRows)
    BY <1>1, <2>1, ViewIsPast
  <2>3. seen \in View \cup {Unset} /\ (seen # Unset => Past(seen, sessionRows))
    BY <2>2
  <2> HIDE DEF seen
  <2>4. fresh \in Screen /\ fresh.selected = seen
    BY <2>3 DEF Screen
  <2> HIDE DEF fresh
  <2>5. screen' \in Screen /\ screen'.selected = seen
    BY <1>2, <2>1, <2>4
  <2>6. fetches' \in [{"load", "select"} -> CaseRow \cup {Unset}]
    BY <1>1, <2>1
  <2> QED BY <2>1, <2>3, <2>5, <2>6, ScreenChanges
<1>8. ASSUME NEW f \in {"load", "select"}, fetchFails(f) PROVE CommandInv'
  <2> DEFINE scr == [screen EXCEPT !.phase = "failure"]
  <2>1. /\ screen' = refreshStaleness(scr)
        /\ fetches' = [fetches EXCEPT ![f] = Unset]
        /\ UNCHANGED <<rowVars, keyVars, handlers, submitted>>
    BY <1>8 DEF fetchFails
  <2>2. scr \in Screen /\ scr.selected = screen.selected
    BY <1>1 DEF Screen
  <2> HIDE DEF scr
  <2>3. screen' \in Screen /\ screen'.selected = screen.selected
    BY <1>2, <2>1, <2>2
  <2> QED BY <1>1, <2>1, <2>3, ScreenChanges
<1> QED BY <1>3, <1>4, <1>5, <1>6, <1>7, <1>8

(* An action is submitted on a view of the past, before it has an effect.  *)
LEMMA ActionIsSubmitted ==
    ASSUME CommandInv, NEW k \in Submissions,
           NEW action \in {"takeover", "escalate", "assignment", "resolution"},
           NEW seen \in View, NEW doubt \in BOOLEAN, Past(seen, sessionRows),
           Submit(k, action, seen, doubt)
    PROVE  CommandInv'
<1> USE CommandAssumption
<1> DEFINE r == [action |-> action, seen |-> seen, status |-> "pending", doubt |-> doubt]
<1>1. /\ submitted' = [submitted EXCEPT ![k] = r] /\ submitted[k] = Unset
      /\ UNCHANGED <<caseRow, sessionRows, latest, verdicts, reservations, results, effects,
                     handlers, fetches, screen>>
  BY DEF Submit, rowVars, keyVars
<1>2. r \in Submission /\ r.seen = seen /\ r.status = "pending"
  BY DEF Submission
<1> HIDE DEF r
<1>3. CommandType'
  BY <1>1, <1>2 DEF CommandInv, CommandType
<1>4. submitted'[k] = r /\ \A i \in Submissions : i # k => submitted'[i] = submitted[i]
  BY <1>1 DEF CommandInv, CommandType
<1>5. \A h \in Transmissions :
        StageOk(handlers[h], submitted', results, reservations, effects, sessionRows, verdicts)
  <2> SUFFICES ASSUME NEW h \in Transmissions, handlers[h] # Unset
               PROVE StageOk(handlers[h], submitted', results, reservations, effects, sessionRows, verdicts)
    BY DEF StageOk
  <2>1. /\ StageOk(handlers[h], submitted, results, reservations, effects, sessionRows, verdicts)
        /\ handlers[h].key \in Submissions
    BY DEF CommandInv, CommandType, Handling
  <2>2. handlers[h].key # k
    BY <1>1, <2>1 DEF StageOk
  <2> QED BY <1>4, <2>1, <2>2 DEF StageOk
<1>6. ASSUME NEW i \in Submissions
      PROVE KeyOk(i, submitted', results, reservations, effects, sessionRows, verdicts)
  <2>1. KeyOk(i, submitted, results, reservations, effects, sessionRows, verdicts)
    BY DEF CommandInv
  <2>2. CASE i = k
    <3>1. effects[k] = {}
      BY <1>1, <2>1, <2>2 DEF KeyOk
    <3> QED BY <1>2, <1>4, <2>1, <2>2, <3>1 DEF KeyOk
  <2>3. CASE i # k
    BY <1>4, <2>1, <2>3 DEF KeyOk
  <2> QED BY <2>2, <2>3
<1> QED BY <1>1, <1>3, <1>5, <1>6 DEF CommandInv

(* The outcome of an action is noted: applied only if it took effect.      *)
LEMMA OutcomeIsNoted ==
    ASSUME CommandInv, NEW k \in Submissions, submitted[k] # Unset,
           NEW status \in {"failed", "applied"}, Note(k, status),
           status = "applied" => effects[k] # {},
           handlers' = handlers \/ \E h \in Transmissions : handlers' = [handlers EXCEPT ![h] = [pc |-> "done", key |-> k]],
           UNCHANGED <<rowVars, keyVars, fetches>>,
           screen' \in Screen,
           screen'.selected # Unset => Past(screen'.selected, sessionRows)
    PROVE  CommandInv'
<1> USE CommandAssumption
<1> DEFINE r == [submitted[k] EXCEPT !.status = status]
<1>1. /\ submitted' = [submitted EXCEPT ![k] = r]
      /\ UNCHANGED <<caseRow, sessionRows, latest, verdicts, reservations, results, effects,
                     fetches>>
  BY DEF Note, rowVars, keyVars
<1>2. /\ r \in Submission /\ r.seen = submitted[k].seen /\ r.status = status
      /\ r.action = submitted[k].action
  BY DEF Submission, CommandInv, CommandType
<1> HIDE DEF r
<1> DEFINE x == [pc |-> "done", key |-> k]
<1>3. x \in Handling /\ ~HoldsKey(x) /\ x.key = k /\ x.pc = "done" /\ x # Unset
  BY DEF Handling, HoldsKey
<1>4. handlers' = handlers \/ \E h \in Transmissions : handlers' = [handlers EXCEPT ![h] = x]
  OBVIOUS
<1> HIDE DEF x
<1>5. \A g \in Transmissions : handlers'[g] = handlers[g] \/ handlers'[g] = x
  BY <1>4 DEF CommandInv, CommandType
<1>6. CommandType'
  BY <1>1, <1>2, <1>3, <1>4 DEF CommandInv, CommandType
<1>7. submitted'[k] = r /\ \A i \in Submissions : i # k => submitted'[i] = submitted[i]
  BY <1>1 DEF CommandInv, CommandType
<1>8. \A g, i \in Transmissions : g # i => Keeper(handlers[g], handlers[i])'
  BY <1>3, <1>5 DEF CommandInv, Keeper
<1>9. \A i \in Submissions : submitted[i] # Unset =>
        /\ submitted'[i] # Unset /\ submitted'[i].seen = submitted[i].seen
        /\ submitted'[i].action = submitted[i].action
  BY <1>2, <1>7
<1>10. \A g \in Transmissions :
         StageOk(handlers[g], submitted, results, reservations, effects, sessionRows, verdicts)'
  <2>1. ASSUME NEW g \in Transmissions
        PROVE StageOk(handlers[g], submitted', results, reservations, effects, sessionRows, verdicts)
    <3>1. StageOk(handlers[g], submitted, results, reservations, effects, sessionRows, verdicts)
      BY DEF CommandInv
    <3>2. handlers[g] # Unset => handlers[g].key \in Submissions
      BY DEF CommandInv, CommandType, Handling
    <3> QED BY <1>9, <3>1, <3>2 DEF StageOk
  <2>2. StageOk(x, submitted', results, reservations, effects, sessionRows, verdicts)
    BY <1>3, <1>9 DEF StageOk
  <2> QED BY <1>1, <1>5, <2>1, <2>2
<1>11. ASSUME NEW i \in Submissions
       PROVE KeyOk(i, submitted', results, reservations, effects, sessionRows, verdicts)
  <2>1. KeyOk(i, submitted, results, reservations, effects, sessionRows, verdicts)
    BY DEF CommandInv
  <2>2. CASE i = k
    BY <1>2, <1>7, <2>1, <2>2 DEF KeyOk
  <2>3. CASE i # k
    BY <1>7, <2>1, <2>3 DEF KeyOk
  <2> QED BY <2>2, <2>3
<1> QED BY <1>1, <1>6, <1>8, <1>10, <1>11 DEF CommandInv

(* An answer, or the loss of one, only settles what the browser knows.     *)
LEMMA OutcomeArrives ==
    ASSUME CommandInv,
           \/ \E h \in Transmissions : answered(h)
           \/ \E k \in Submissions : networkFailure(k)
    PROVE  CommandInv'
<1> USE CommandAssumption
<1>1. /\ screen \in Screen
      /\ screen.selected # Unset => Past(screen.selected, sessionRows)
  BY DEF CommandInv, CommandType
<1>2. ASSUME NEW scr \in Screen
      PROVE  refreshStaleness(scr) \in Screen /\ refreshStaleness(scr).selected = scr.selected
  <2> DEFINE b == scr.age > StaleAfter
  <2>1. refreshStaleness(scr) = [scr EXCEPT !.stale = b]
    BY DEF refreshStaleness
  <2>2. b \in BOOLEAN
    OBVIOUS
  <2> HIDE DEF b
  <2> QED BY <2>1, <2>2 DEF Screen
<1>3. Doubtful(screen) \in Screen /\ Doubtful(screen).selected = screen.selected
  <2> DEFINE scr == [screen EXCEPT !.stale = TRUE, !.doubt = TRUE]
  <2>1. scr \in Screen /\ scr.selected = screen.selected
    BY <1>1 DEF Screen
  <2> HIDE DEF scr
  <2> QED BY <1>2, <2>1 DEF Doubtful, scr
<1>4. ASSUME NEW k \in Submissions, networkFailure(k) PROVE CommandInv'
  BY <1>1, <1>3, <1>4, OutcomeIsNoted DEF networkFailure
<1>5. ASSUME NEW h \in Transmissions, answered(h) PROVE CommandInv'
  <2> DEFINE o == handlers[h]
             k == o.key
  <2>1. /\ o \in Handling /\ o # Unset /\ o.pc = "answer" /\ k \in Submissions
        /\ o.answer \in View \cup {Unset}
        /\ StageOk(o, submitted, results, reservations, effects, sessionRows, verdicts)
    BY <1>5 DEF answered, Reached, CommandInv, CommandType, Handling
  <2>2. /\ submitted[k] # Unset /\ UNCHANGED <<rowVars, keyVars, fetches>>
        /\ handlers' = [handlers EXCEPT ![h] = [pc |-> "done", key |-> k]]
    BY <1>5, <2>1 DEF answered, Become, StageOk
  <2>3. CASE o.answer = Unset
    <3>1. Note(k, "failed") /\ screen' = Doubtful(screen)
      BY <1>5, <2>3 DEF answered
    <3> QED BY <1>1, <1>3, <2>1, <2>2, <3>1, OutcomeIsNoted
  <2>4. CASE o.answer # Unset
    <3> DEFINE fresh == [phase |-> "ready", items |-> TRUE, selected |-> o.answer,
                         stale |-> FALSE, age |-> 0, doubt |-> FALSE]
    <3>1. Note(k, "applied") /\ screen' = refreshStaleness(fresh)
      BY <1>5, <2>4 DEF answered, Fresh
    <3>2. fresh \in Screen /\ fresh.selected = o.answer
      BY <2>1 DEF Screen
    <3> HIDE DEF fresh
    <3>3. screen' \in Screen /\ screen'.selected = o.answer
      BY <1>2, <3>1, <3>2
    <3>4. Past(o.answer, sessionRows) /\ effects[k] # {}
      BY <2>1, <2>4 DEF StageOk
    <3> QED BY <2>1, <2>2, <3>1, <3>3, <3>4, OutcomeIsNoted
  <2> QED BY <2>3, <2>4
<1> QED BY <1>4, <1>5

(* Other operators and services write rows and evidence.                   *)
LEMMA OthersWrite ==
    ASSUME CommandInv,
           \/ \E s \in SessionIds : openSession(s) \/ updateSession(s)
           \/ updateEvent \/ recordEvidence
    PROVE  CommandInv'
<1> USE CommandAssumption
<1>1. /\ caseRow \in CaseRow /\ latest \in SessionIds \cup {Unset}
      /\ sessionRows \in [SessionIds -> SessionRow \cup {Unset}]
      /\ latest # Unset => sessionRows[latest] # Unset
  BY DEF CommandInv, CommandType
<1>2. RowsGrow(sessionRows, sessionRows)
  BY <1>1 DEF RowsGrow, SessionRow
<1>3. ASSUME NEW s \in SessionIds, openSession(s) PROVE CommandInv'
  <2> DEFINE r == [state |-> "CONSENT_PENDING", version |-> 1, human |-> FALSE]
  <2>1. r \in SessionRow
    BY DEF SessionRow, States
  <2>2. Write(s, r) /\ sessionRows[s] = Unset /\ UNCHANGED <<caseRow, verdicts, keyVars, handlers, browserVars>>
    BY <1>3 DEF openSession
  <2> HIDE DEF r
  <2> QED BY <1>1, <2>1, <2>2, RowIsWritten, RowsChange
<1>4. ASSUME NEW s \in SessionIds, updateSession(s) PROVE CommandInv'
  <2>1. PICK to \in {"LANGUAGE_SELECTION", "CONTACTING", "AWAITING_RESPONSE", "HUMAN_REVIEW"} :
           Write(s, Updated(sessionRows[s], to))
    BY <1>4 DEF updateSession
  <2>2. to \in States
    BY DEF States
  <2> DEFINE r == Updated(sessionRows[s], to)
  <2>3. sessionRows[s] \in SessionRow /\ sessionRows[s].version \in Nat
    BY <1>1, <1>4 DEF updateSession, SessionRow
  <2>6. r \in SessionRow /\ sessionRows[s].version < r.version
    BY <2>2, <2>3, RowIsUpdated
  <2>7. Write(s, r) /\ UNCHANGED <<caseRow, verdicts, keyVars, handlers, browserVars>>
    BY <1>4, <2>1 DEF updateSession
  <2> HIDE DEF r
  <2> QED BY <1>1, <2>6, <2>7, RowIsWritten, RowsChange
<1>5. CASE updateEvent
  <2>1. caseRow' \in CaseRow
    BY <1>1, <1>5 DEF updateEvent, CaseRow
  <2> QED BY <1>1, <1>2, <1>5, <2>1, RowsChange DEF updateEvent
<1>6. CASE recordEvidence
  <2>1. verdicts \subseteq verdicts'
    BY <1>6 DEF recordEvidence
  <2> QED BY <1>1, <1>2, <1>6, <2>1, RowsChange DEF recordEvidence
<1> QED BY <1>3, <1>4, <1>5, <1>6

(* Every step of the console and of its gateway keeps the invariant.       *)
LEMMA CommandKept == CommandInv /\ [CommandNext]_commandVars => CommandInv'
<1> SUFFICES ASSUME CommandInv, [CommandNext]_commandVars PROVE CommandInv'
  OBVIOUS
<1> USE CommandAssumption
<1>1. CASE UNCHANGED commandVars
  BY <1>1 DEF commandVars, rowVars, keyVars, browserVars, CommandInv, CommandType
<1>2. ASSUME NEW k \in Submissions, act(k) PROVE CommandInv'
  <2>1. PICK action \in {"takeover", "escalate", "assignment"} :
           Submit(k, action, screen.selected, screen.doubt)
    BY <1>2 DEF act
  <2>2. /\ screen.selected \in View /\ screen.doubt \in BOOLEAN
        /\ Past(screen.selected, sessionRows)
    BY <1>2 DEF act, CanAct, CommandInv, CommandType, Screen
  <2> QED BY <2>1, <2>2, ActionIsSubmitted
<1>3. ASSUME NEW k \in Submissions, requestResolution(k) PROVE CommandInv'
  <2>1. view(caseRow) \in View /\ Past(view(caseRow), sessionRows)
    BY ViewIsPast DEF CommandInv, CommandType
  <2> QED BY <1>3, <2>1, ActionIsSubmitted DEF requestResolution
<1>4. CASE CommandNext
  BY <1>2, <1>3, <1>4, OthersWrite, RequestArrives, HandlerDecides, SessionIsMutated,
     ResolutionIsAuthorized, ResultIsKept, KeyIsReleased, BrowserLooks, OutcomeArrives
  DEF CommandNext
<1> QED BY <1>1, <1>4

(* A key has at most one effect, and success is shown only for one.        *)
THEOREM TrueSubmissions == CommandSpec => []SubmissionsAreTrue
<1>1. CommandInv => SubmissionsAreTrue
  BY DEF CommandInv, SubmissionsAreTrue, OneEffectPerSubmission, SuccessTookEffect, KeyOk
<1> QED BY <1>1, CommandStart, CommandKept, PTL DEF CommandSpec

(* An action rests on what the operator saw, a resolution on preserved     *)
(* evidence.                                                               *)
THEOREM InformedActions == CommandSpec => []ActionsAreInformed
<1>1. CommandInv => ActionsAreInformed
  BY DEF CommandInv, ActionsAreInformed, ActsOnTheSeen, ResolutionIsVouched, KeyOk
<1> QED BY <1>1, CommandStart, CommandKept, PTL DEF CommandSpec

----------------------------------------------------------------------------
(* SignalIngestion                                                         *)

ProvenanceIds == {ProvenanceId(e) : e \in Envelopes}

(* Well-formed stores, queue and calls.                                    *)
IngestType ==
    /\ ingestClock \in Nat
    /\ admissions \in [Nonces -> AdmissionRow \cup {Nothing}]
    /\ provenance \in [ProvenanceIds -> ProvenanceRow \cup {Nothing}]
    /\ intents \in [Signals -> ProvenanceIds \cup {Nothing}]
    /\ queue \in Seq(Attempts)
    /\ calls \in [Attempts -> CallRow \cup {Nothing}]

Committed(e, reg) == /\ reg[e.nonce] # Nothing
                     /\ reg[e.nonce].id = AdmissionId(e)
                     /\ reg[e.nonce].scope = Scope(e)
                     /\ reg[e.nonce].state = "COMMITTED"
Spent(n, reg) == reg[n] # Nothing /\ reg[n].state = "COMMITTED"

Admitted == {"raw", "provenance", "intent", "commit", "abort"}

(* Of a call: what its stage has written, and that a replay is not         *)
(* admitted.                                                               *)
CallIsKept(x, reg, raws, prov, ints) == x # Nothing =>
    LET e == x.env
    IN  /\ x.replay => Spent(e.nonce, reg) /\ x.pc \notin Admitted /\ x.disposition # "ACCEPTED"
        /\ x.pc = "provenance" /\ e.raw => e.signal \in raws
        /\ x.pc \in {"intent", "commit"} => prov[ProvenanceId(e)] # Nothing
        /\ x.pc = "commit" => ints[e.signal] # Nothing
        /\ x.pc \notin {"quarantine", "done"} => x.disposition = "PENDING"
        /\ x.disposition = "ACCEPTED" => /\ x.pc = "done" /\ Committed(e, reg)
                                         /\ ints[e.signal] # Nothing
                                         /\ prov[ProvenanceId(e)] # Nothing

(* Of a queue: what waits in it waits once, to be taken.                   *)
Waits(q, cs) ==
    /\ \A i \in 1 .. Len(q) : cs[q[i]] # Nothing /\ cs[q[i]].pc = "queued"
    /\ \A i, j \in 1 .. Len(q) : q[i] = q[j] => i = j

(* A call that answers for an intent, now and later.                       *)
AnswersFor(x, s) == /\ x # Nothing /\ x.env.signal = s
                    /\ \/ x.disposition \in {"ACCEPTED", "HUMAN_REVIEW"}
                       \/ x.disposition = "PENDING" /\ x.pc \in {"commit", "abort"}

RawIsThere(e, prov, raws) ==
    prov[ProvenanceId(e)] # Nothing /\ prov[ProvenanceId(e)].raw => e.signal \in raws

IngestInv ==
    /\ IngestType
    /\ Waits(queue, calls)
    /\ \A a \in Attempts : CallIsKept(calls[a], admissions, rawStore, provenance, intents)
    /\ \A e \in Envelopes : RawIsThere(e, provenance, rawStore)
    /\ \A s \in Signals : intents[s] # Nothing => \E a \in Attempts : AnswersFor(calls[a], s)

(* What is stored and committed stays.                                     *)
StoresGrow ==
    /\ rawStore \subseteq rawStore'
    /\ \A p \in ProvenanceIds : provenance[p] # Nothing => provenance'[p] # Nothing
    /\ \A s \in Signals : intents[s] # Nothing => intents'[s] # Nothing
    /\ \A n \in Nonces : Spent(n, admissions) =>
          /\ Spent(n, admissions') /\ admissions'[n].id = admissions[n].id
          /\ admissions'[n].scope = admissions[n].scope

(* What a stage vouches for stays true while others write.                 *)
LEMMA OtherCalls ==
    ASSUME IngestInv, StoresGrow, NEW a \in Attempts
    PROVE  CallIsKept(calls[a], admissions', rawStore', provenance', intents')
<1> DEFINE x == calls[a]
<1>1. x \in CallRow \cup {Nothing} /\ CallIsKept(x, admissions, rawStore, provenance, intents)
  BY DEF IngestInv, IngestType
<1>2. x # Nothing => /\ x.env \in Envelopes /\ x.env.nonce \in Nonces /\ x.env.signal \in Signals
                     /\ ProvenanceId(x.env) \in ProvenanceIds
  BY <1>1 DEF CallRow, Nonces, Signals, ProvenanceIds
<1> SUFFICES CallIsKept(x, admissions', rawStore', provenance', intents')
  OBVIOUS
<1> HIDE DEF x
<1>3. x # Nothing /\ Committed(x.env, admissions) => Committed(x.env, admissions')
  BY <1>2 DEF StoresGrow, Committed, Spent
<1> QED BY <1>1, <1>2, <1>3 DEF CallIsKept, StoresGrow, Spent

(* A call moves on, with what it writes; it was not waiting in the queue,  *)
(* and it goes on answering for what it answered for.                      *)
LEMMA IngestMoves ==
    ASSUME IngestInv, NEW a \in Attempts, NEW x \in CallRow,
           calls[a] # Nothing, calls[a].pc # "queued",
           calls' = [calls EXCEPT ![a] = x],
           UNCHANGED <<ingestClock, queue>>, StoresGrow,
           admissions' \in [Nonces -> AdmissionRow \cup {Nothing}],
           provenance' \in [ProvenanceIds -> ProvenanceRow \cup {Nothing}],
           intents' \in [Signals -> ProvenanceIds \cup {Nothing}],
           CallIsKept(x, admissions', rawStore', provenance', intents'),
           \A e \in Envelopes : RawIsThere(e, provenance', rawStore'),
           \A s \in Signals : intents'[s] # Nothing => intents[s] # Nothing \/ AnswersFor(x, s),
           \A s \in Signals : AnswersFor(calls[a], s) => AnswersFor(x, s)
    PROVE  IngestInv'
<1> USE IngestAssumption
<1>1. IngestType'
  BY DEF IngestInv, IngestType
<1>2. calls'[a] = x /\ \A b \in Attempts : b # a => calls'[b] = calls[b]
  BY DEF IngestInv, IngestType
<1>3. Waits(queue, calls)'
  <2>1. \A i \in 1 .. Len(queue) : queue[i] \in Attempts /\ queue[i] # a
    BY DEF IngestInv, IngestType, Waits
  <2> QED BY <1>2, <2>1 DEF IngestInv, Waits
<1>4. \A b \in Attempts : CallIsKept(calls[b], admissions, rawStore, provenance, intents)'
  BY <1>2, OtherCalls
<1>5. \A e \in Envelopes : RawIsThere(e, provenance, rawStore)'
  OBVIOUS
<1>6. ASSUME NEW s \in Signals, intents'[s] # Nothing PROVE \E b \in Attempts : AnswersFor(calls'[b], s)
  <2>1. CASE AnswersFor(x, s)
    BY <1>2, <2>1
  <2>2. CASE ~AnswersFor(x, s)
    <3>1. PICK b \in Attempts : AnswersFor(calls[b], s)
      BY <1>6, <2>2 DEF IngestInv
    <3> QED BY <1>2, <2>2, <3>1
  <2> QED BY <2>1, <2>2
<1> QED BY <1>1, <1>3, <1>4, <1>5, <1>6 DEF IngestInv

(* A call moves on without writing: it is not admitted by that.            *)
LEMMA IngestGoesOn ==
    ASSUME IngestInv, NEW a \in Attempts, calls[a] # Nothing, calls[a].pc # "queued",
           NEW x \in CallRow, x.env = calls[a].env, x.replay = calls[a].replay,
           calls' = [calls EXCEPT ![a] = x],
           UNCHANGED <<ingestClock, queue, rawStore, provenance, intents, admissions>>,
           x.pc \in Admitted => x.pc = "abort" /\ calls[a].pc \in Admitted,
           x.pc \notin {"quarantine", "done"} => x.disposition = "PENDING",
           x.disposition # "ACCEPTED",
           \A s \in Signals : AnswersFor(calls[a], s) => AnswersFor(x, s)
    PROVE  IngestInv'
<1>1. StoresGrow
  BY DEF StoresGrow
<1>2. CallIsKept(calls[a], admissions, rawStore, provenance, intents)
  BY DEF IngestInv
<1>3. CallIsKept(x, admissions, rawStore, provenance, intents)
  BY <1>2 DEF CallIsKept, Admitted
<1> QED BY <1>1, <1>3, IngestMoves DEF IngestInv, IngestType

(* A rejection at any stage leaves the stores alone.                       *)
LEMMA IngestRejects ==
    ASSUME IngestInv, NEW a \in Attempts, calls[a] # Nothing,
           calls[a].pc \notin {"queued", "done", "quarantine"},
           NEW disposition \in {"QUARANTINED", "HUMAN_REVIEW", "BACKPRESSURE"},
           NEW degrades \in BOOLEAN, Reject(a, disposition, degrades),
           calls[a].pc \in {"commit", "abort"} => disposition = "HUMAN_REVIEW",
           UNCHANGED <<ingestClock, queue, rawStore, provenance, intents, admissions>>
    PROVE  IngestInv'
<1> USE IngestAssumption
<1> DEFINE o == calls[a]
           x == [o EXCEPT !.pc = "quarantine", !.disposition = disposition]
<1>1. o \in CallRow /\ o.disposition = "PENDING"
  BY DEF IngestInv, IngestType, CallIsKept
<1>2. /\ x \in CallRow /\ x.env = o.env /\ x.replay = o.replay /\ x.pc = "quarantine"
      /\ x.disposition = disposition /\ x # Nothing
  BY <1>1 DEF CallRow, Stages, Dispositions
<1>3. calls' = [calls EXCEPT ![a] = x]
  BY DEF Reject
<1> HIDE DEF x
<1>4. \A s \in Signals : AnswersFor(o, s) => AnswersFor(x, s)
  BY <1>1, <1>2 DEF AnswersFor
<1> QED BY <1>2, <1>3, <1>4, IngestGoesOn DEF Admitted

(* The invariant holds at the start.                                       *)
LEMMA IngestStart == IngestInit => IngestInv
<1> SUFFICES ASSUME IngestInit PROVE IngestInv
  OBVIOUS
<1>1. queue = <<>> /\ queue \in Seq(Attempts) /\ Len(queue) = 0
  BY DEF IngestInit
<1>2. IngestType
  BY <1>1 DEF IngestInit, IngestType, ProvenanceIds
<1>3. Waits(queue, calls)
  BY <1>1 DEF Waits
<1>4. /\ \A a \in Attempts : calls[a] = Nothing
      /\ \A s \in Signals : intents[s] = Nothing
      /\ \A p \in ProvenanceIds : provenance[p] = Nothing
  BY DEF IngestInit, ProvenanceIds
<1> QED BY <1>2, <1>3, <1>4 DEF IngestInv, CallIsKept, RawIsThere, ProvenanceIds

(* What a caller was told is accepted is committed.                        *)
LEMMA ToldIsSpent ==
    ASSUME IngestInv, NEW n \in AcceptedNonces
    PROVE  Spent(n, admissions)
  BY DEF AcceptedNonces, InStep, IngestInv, CallIsKept, Committed, Spent

(* A new call vouches for nothing but what it was told of its nonce.       *)
LEMMA NewCallIsKept ==
    ASSUME IngestInv, NEW e \in Envelopes, NEW pc \in Stages, NEW queued \in BOOLEAN
    PROVE  LET x == NewCall(e, pc, queued)
           IN  /\ x \in CallRow /\ x.env = e /\ x.pc = pc /\ x.disposition = "PENDING"
               /\ x.replay => Spent(e.nonce, admissions)
<1> DEFINE told == e.nonce \in AcceptedNonces
           x == [env |-> e, at |-> ingestClock, pc |-> pc, queued |-> queued,
                 disposition |-> "PENDING", replay |-> told]
<1>1. told \in BOOLEAN /\ (told => Spent(e.nonce, admissions))
  BY ToldIsSpent
<1>2. NewCall(e, pc, queued) = x
  BY DEF NewCall
<1> HIDE DEF told
<1>3. x \in CallRow
  BY <1>1 DEF CallRow, Dispositions, IngestInv, IngestType
<1>4. x.replay = told /\ x.env = e /\ x.pc = pc /\ x.disposition = "PENDING"
  OBVIOUS
<1> HIDE DEF x
<1> QED BY <1>1, <1>2, <1>3, <1>4

(* A new call.                                                             *)
LEMMA CallIsNew ==
    ASSUME IngestInv, NEW a \in Attempts, NEW e \in Envelopes, calls[a] = Nothing,
           enqueueSignal(a, e) \/ ingest(a, e)
    PROVE  IngestInv'
<1> USE IngestAssumption
<1>1. UNCHANGED <<ingestClock, rawStore, provenance, intents, admissions>>
  BY DEF enqueueSignal, ingest
<1>2. PICK x \in CallRow :
         /\ calls' = [calls EXCEPT ![a] = x]
         /\ queue' = IF x.pc = "queued" THEN Append(queue, a) ELSE queue
         /\ x.pc \in {"queued", "source", "quarantine"} /\ x.env = e
         /\ x.pc # "quarantine" => x.disposition = "PENDING"
         /\ x.disposition # "ACCEPTED"
         /\ x.replay => Spent(e.nonce, admissions)
  <2>1. CASE ingest(a, e)
    <3> DEFINE x == NewCall(e, "source", FALSE)
    <3>1. calls' = [calls EXCEPT ![a] = x] /\ queue' = queue
      BY <2>1 DEF ingest
    <3>2. /\ x \in CallRow /\ x.env = e /\ x.pc = "source" /\ x.disposition = "PENDING"
          /\ x.replay => Spent(e.nonce, admissions)
      <4>1. "source" \in Stages
        BY DEF Stages
      <4> QED BY <4>1, NewCallIsKept
    <3> HIDE DEF x
    <3> QED BY <3>1, <3>2
  <2>2. CASE enqueueSignal(a, e) /\ queue' # queue
    <3> DEFINE x == NewCall(e, "queued", TRUE)
    <3>1. calls' = [calls EXCEPT ![a] = x] /\ queue' = Append(queue, a)
      BY <2>2 DEF enqueueSignal
    <3>2. /\ x \in CallRow /\ x.env = e /\ x.pc = "queued" /\ x.disposition = "PENDING"
          /\ x.replay => Spent(e.nonce, admissions)
      <4>1. "queued" \in Stages
        BY DEF Stages
      <4> QED BY <4>1, NewCallIsKept
    <3> HIDE DEF x
    <3> QED BY <3>1, <3>2
  <2>3. CASE enqueueSignal(a, e) /\ queue' = queue
    <3> DEFINE y == NewCall(e, "quarantine", FALSE)
               x == [y EXCEPT !.disposition = "BACKPRESSURE"]
    <3>1. calls' = [calls EXCEPT ![a] = x]
      <4>1. queue \in Seq(Attempts)
        BY DEF IngestInv, IngestType
      <4>2. Append(queue, a) # queue
        BY <4>1
      <4> QED BY <2>3, <4>2 DEF enqueueSignal
    <3>2. /\ y \in CallRow /\ y.env = e /\ y.pc = "quarantine"
          /\ y.replay => Spent(e.nonce, admissions)
      BY NewCallIsKept DEF Stages
    <3> HIDE DEF y
    <3>3. x \in CallRow /\ x.env = e /\ x.pc = "quarantine" /\ x.replay = y.replay /\ x.disposition = "BACKPRESSURE"
      BY <3>2 DEF CallRow, Dispositions
    <3> HIDE DEF x
    <3> QED BY <2>3, <3>1, <3>2, <3>3
  <2> QED BY <2>1, <2>2, <2>3
<1>3. x # Nothing
  OBVIOUS
<1>4. calls' = [calls EXCEPT ![a] = x]
  BY <1>2
<1>5. CallIsKept(x, admissions, rawStore, provenance, intents)
  BY <1>2, <1>3 DEF CallIsKept, Admitted
<1>6. IngestType'
  BY <1>1, <1>2, <1>3, <1>4 DEF IngestInv, IngestType
<1>7. Waits(queue', calls')
  <2>1. \A i \in 1 .. Len(queue) : queue[i] \in Attempts /\ queue[i] # a
    BY DEF IngestInv, IngestType, Waits
  <2>2. Waits(queue, calls')
    BY <1>4, <2>1 DEF IngestInv, IngestType, Waits
  <2>3. CASE x.pc = "queued"
    <3>1. /\ Len(queue') = Len(queue) + 1 /\ Len(queue) \in Nat
          /\ queue'[Len(queue) + 1] = a
          /\ \A i \in 1 .. Len(queue) : queue'[i] = queue[i]
      BY <1>2, <2>3 DEF IngestInv, IngestType
    <3>2. calls'[a] # Nothing /\ calls'[a].pc = "queued"
      BY <1>3, <1>4, <2>3 DEF IngestInv, IngestType
    <3>3. ASSUME NEW i \in 1 .. Len(queue')
          PROVE  calls'[queue'[i]] # Nothing /\ calls'[queue'[i]].pc = "queued"
      BY <2>2, <3>1, <3>2 DEF Waits
    <3>4. ASSUME NEW i \in 1 .. Len(queue'), NEW j \in 1 .. Len(queue'), queue'[i] = queue'[j]
          PROVE  i = j
      <4>1. \A k \in 1 .. Len(queue') : k \in 1 .. Len(queue) \/ k = Len(queue) + 1
        BY <3>1
      <4>2. \A k \in 1 .. Len(queue) : queue'[k] # queue'[Len(queue) + 1]
        BY <2>1, <3>1
      <4>3. \A k, l \in 1 .. Len(queue) : queue'[k] = queue'[l] => k = l
        BY <2>2, <3>1 DEF Waits
      <4> QED BY <3>4, <4>1, <4>2, <4>3
    <3> QED BY <3>3, <3>4 DEF Waits
  <2> QED BY <1>2, <2>2, <2>3
<1>8. \A s \in Signals : (intents[s] # Nothing)' => \E b \in Attempts : AnswersFor(calls'[b], s)
  BY <1>1, <1>4 DEF IngestInv, IngestType, AnswersFor
<1> QED BY <1>1, <1>4, <1>5, <1>6, <1>7, <1>8 DEF IngestInv, IngestType

(* The loop takes the first call of the queue and looks again whether its  *)
(* nonce is spent.                                                         *)
LEMMA QueueIsDrained ==
    ASSUME IngestInv, drainQueue
    PROVE  IngestInv'
<1> USE IngestAssumption
<1> DEFINE a == Head(queue)
           o == calls[a]
           told == o.env.nonce \in AcceptedNonces
           x == [o EXCEPT !.pc = "source", !.replay = told]
<1>1. /\ queue \in Seq(Attempts) /\ queue # <<>> /\ Len(queue) \in Nat /\ Len(queue) > 0
      /\ a = queue[1] /\ a \in Attempts /\ queue' = Tail(queue)
      /\ Len(queue') = Len(queue) - 1 /\ Len(queue') \in Nat
      /\ \A i \in 1 .. Len(queue') : queue'[i] = queue[i + 1]
  BY DEF drainQueue, IngestInv, IngestType
<1>2. o \in CallRow /\ o # Nothing /\ o.pc = "queued" /\ o.disposition = "PENDING"
  BY <1>1 DEF IngestInv, IngestType, Waits, CallIsKept
<1>3. told \in BOOLEAN /\ (told => Spent(o.env.nonce, admissions))
  BY ToldIsSpent
<1>4. /\ calls' = [calls EXCEPT ![a] = x]
      /\ UNCHANGED <<ingestClock, trust, windows, admissions, rawStore, provenance, intents>>
  BY DEF drainQueue
<1> HIDE DEF told
<1>5. /\ x \in CallRow /\ x.env = o.env /\ x.pc = "source" /\ x.replay = told
      /\ x.disposition = "PENDING" /\ x # Nothing
  BY <1>2, <1>3 DEF CallRow, Stages
<1> HIDE DEF x
<1>6. CallIsKept(x, admissions, rawStore, provenance, intents)
  BY <1>3, <1>5 DEF CallIsKept, Admitted
<1>7. calls'[a] = x /\ \A b \in Attempts : b # a => calls'[b] = calls[b]
  BY <1>1, <1>4 DEF IngestInv, IngestType
<1>8. IngestType'
  BY <1>1, <1>4, <1>5 DEF IngestInv, IngestType
<1>9. Waits(queue', calls')
  <2>1. \A i \in 1 .. Len(queue) : queue[i] \in Attempts /\ (i # 1 => queue[i] # a)
    BY <1>1 DEF IngestInv, Waits
  <2>2. ASSUME NEW i \in 1 .. Len(queue')
        PROVE  queue'[i] \in Attempts /\ queue'[i] # a /\ calls[queue'[i]] # Nothing
               /\ calls[queue'[i]].pc = "queued"
    <3>1. i + 1 \in 1 .. Len(queue) /\ i + 1 # 1
      BY <1>1
    <3> QED BY <1>1, <2>1, <3>1 DEF IngestInv, Waits
  <2>3. ASSUME NEW i \in 1 .. Len(queue'), NEW j \in 1 .. Len(queue'), queue'[i] = queue'[j]
        PROVE  i = j
    <3>1. i + 1 \in 1 .. Len(queue) /\ j + 1 \in 1 .. Len(queue)
      BY <1>1
    <3>2. i + 1 = j + 1
      BY <1>1, <2>3, <3>1 DEF IngestInv, Waits
    <3> QED BY <3>2
  <2> QED BY <1>7, <2>2, <2>3 DEF Waits
<1>10. \A b \in Attempts : CallIsKept(calls[b], admissions, rawStore, provenance, intents)'
  BY <1>4, <1>6, <1>7 DEF IngestInv
<1>11. \A s \in Signals : (intents[s] # Nothing)' => \E b \in Attempts : AnswersFor(calls'[b], s)
  <2>1. \A s \in Signals : ~AnswersFor(o, s)
    BY <1>2 DEF AnswersFor
  <2> QED BY <1>4, <1>7, <2>1 DEF IngestInv
<1> QED BY <1>4, <1>8, <1>9, <1>10, <1>11 DEF IngestInv

(* A call goes to its next stage: before admission, or to give up.         *)
LEMMA StageIsReached ==
    ASSUME IngestInv, NEW a \in Attempts, calls[a] # Nothing, NEW pc \in {"rate", "admit", "abort"},
           calls[a].pc \notin {"queued", "done", "quarantine"},
           pc = "abort" => calls[a].pc \in Admitted,
           pc # "abort" => calls[a].pc \notin Admitted,
           Goto(a, pc),
           UNCHANGED <<ingestClock, queue, rawStore, provenance, intents, admissions>>
    PROVE  IngestInv'
<1> USE IngestAssumption
<1> DEFINE o == calls[a]
           x == [o EXCEPT !.pc = pc]
<1>1. o \in CallRow /\ o.disposition = "PENDING"
  BY DEF IngestInv, IngestType, CallIsKept
<1>2. /\ x \in CallRow /\ x.env = o.env /\ x.replay = o.replay /\ x.pc = pc
      /\ x.disposition = "PENDING" /\ x # Nothing
  BY <1>1 DEF CallRow, Stages
<1>3. calls' = [calls EXCEPT ![a] = x]
  BY DEF Goto
<1> HIDE DEF x
<1>4. \A s \in Signals : AnswersFor(o, s) => AnswersFor(x, s)
  BY <1>1, <1>2 DEF AnswersFor, Admitted
<1> QED BY <1>1, <1>2, <1>3, <1>4, IngestGoesOn DEF Admitted

(* No structural check answers with acceptance.                            *)
LEMMA ChecksReject ==
    ASSUME NEW i \in DOMAIN StructuralChecks
    PROVE  StructuralChecks[i].disposition \in {"QUARANTINED", "HUMAN_REVIEW"}
  BY DEF StructuralChecks

(* The checks of the source and of the rate let pass or reject.            *)
LEMMA CallIsChecked ==
    ASSUME IngestInv, NEW a \in Attempts, checkSource(a) \/ consume(a)
    PROVE  IngestInv'
<1>1. /\ calls[a] # Nothing /\ calls[a].pc \in {"source", "rate"}
      /\ UNCHANGED <<ingestClock, queue, rawStore, provenance, intents, admissions>>
  BY DEF checkSource, consume, InStep
<1>2. ASSUME NEW d \in {"QUARANTINED", "HUMAN_REVIEW", "BACKPRESSURE"}, NEW b \in BOOLEAN,
             Reject(a, d, b)
      PROVE  IngestInv'
  BY <1>1, <1>2, IngestRejects
<1>3. ASSUME NEW pc \in {"rate", "admit"}, Goto(a, pc) PROVE IngestInv'
  BY <1>1, <1>3, StageIsReached DEF Admitted
<1>4. CASE checkSource(a)
  BY <1>2, <1>3, <1>4, ChecksReject DEF checkSource
<1>5. CASE consume(a)
  BY <1>2, <1>3, <1>5 DEF consume
<1> QED BY <1>4, <1>5

(* The nonce is reserved, unless it is spent.                              *)
LEMMA CallIsAdmitted ==
    ASSUME IngestInv, NEW a \in Attempts, admit(a)
    PROVE  IngestInv'
<1> USE IngestAssumption
<1> DEFINE o == calls[a]
           e == o.env
           x == [o EXCEPT !.pc = "raw"]
           r == [id |-> AdmissionId(e), scope |-> Scope(e), state |-> "RESERVED"]
<1>1. /\ o \in CallRow /\ o # Nothing /\ o.pc = "admit" /\ o.disposition = "PENDING"
      /\ e \in Envelopes /\ e.nonce \in Nonces
      /\ CallIsKept(o, admissions, rawStore, provenance, intents)
      /\ UNCHANGED <<ingestClock, queue, rawStore, provenance, intents>>
  BY DEF admit, InStep, IngestInv, IngestType, CallIsKept, CallRow, Nonces
<1>2. ASSUME NEW d \in {"QUARANTINED", "HUMAN_REVIEW"}, Reject(a, d, FALSE), UNCHANGED admissions
      PROVE  IngestInv'
  BY <1>1, <1>2, IngestRejects
<1>3. ASSUME Reservable(e), Goto(a, "raw"),
             admissions' = IF Holds(e) THEN admissions ELSE [admissions EXCEPT ![e.nonce] = r]
      PROVE  IngestInv'
  <2>1. r \in AdmissionRow /\ r.state = "RESERVED"
    BY <1>1 DEF AdmissionRow
  <2> HIDE DEF r
  <2>2. ~Spent(e.nonce, admissions) /\ (~Holds(e) => admissions[e.nonce] = Nothing)
    BY <1>3 DEF Reservable, Spent, Holds
  <2>3. ~o.replay
    BY <1>1, <2>2 DEF CallIsKept
  <2>4. admissions' \in [Nonces -> AdmissionRow \cup {Nothing}]
    BY <1>1, <1>3, <2>1 DEF IngestInv, IngestType
  <2>5. StoresGrow
    BY <1>1, <1>3, <2>1, <2>2 DEF StoresGrow, Spent, IngestInv, IngestType
  <2>6. /\ x \in CallRow /\ x.env = e /\ x.replay = o.replay /\ x.pc = "raw"
        /\ x.disposition = "PENDING" /\ x # Nothing
    BY <1>1 DEF CallRow, Stages
  <2>7. calls' = [calls EXCEPT ![a] = x]
    BY <1>3 DEF Goto
  <2> HIDE DEF x
  <2>8. CallIsKept(x, admissions', rawStore', provenance', intents')
    BY <2>3, <2>6 DEF CallIsKept
  <2>9. \A s \in Signals : ~AnswersFor(o, s)
    BY <1>1 DEF AnswersFor
  <2> QED BY <1>1, <2>4, <2>5, <2>6, <2>7, <2>8, <2>9, IngestMoves DEF IngestInv, IngestType
<1> QED BY <1>2, <1>3 DEF admit

(* The three writes.                                                       *)
LEMMA CallWrites ==
    ASSUME IngestInv, NEW a \in Attempts, putRaw(a) \/ putProvenance(a) \/ createIntent(a)
    PROVE  IngestInv'
<1> USE IngestAssumption
<1> DEFINE o == calls[a]
           e == o.env
<1>1. /\ o \in CallRow /\ o # Nothing /\ o.disposition = "PENDING" /\ o.pc \in Admitted \ {"abort", "commit"}
      /\ e \in Envelopes /\ e.nonce \in Nonces /\ e.signal \in Signals
      /\ ProvenanceId(e) \in ProvenanceIds /\ e.raw \in BOOLEAN
      /\ CallIsKept(o, admissions, rawStore, provenance, intents)
      /\ UNCHANGED <<ingestClock, queue, admissions>>
  BY DEF putRaw, putProvenance, createIntent, Persist, InStep, IngestInv, IngestType, CallIsKept,
     CallRow, Nonces, Signals, ProvenanceIds, Admitted
<1>2. ~o.replay
  BY <1>1 DEF CallIsKept
<1>3. ASSUME NEW pc \in {"provenance", "intent", "commit"}, Goto(a, pc), StoresGrow,
             provenance' \in [ProvenanceIds -> ProvenanceRow \cup {Nothing}],
             intents' \in [Signals -> ProvenanceIds \cup {Nothing}],
             pc = "provenance" /\ e.raw => e.signal \in rawStore',
             pc \in {"intent", "commit"} => provenance'[ProvenanceId(e)] # Nothing,
             pc = "commit" => intents'[e.signal] # Nothing,
             \A f \in Envelopes : RawIsThere(f, provenance', rawStore'),
             \A s \in Signals : intents'[s] # Nothing =>
                                    intents[s] # Nothing \/ (pc = "commit" /\ s = e.signal)
      PROVE  IngestInv'
  <2> DEFINE x == [o EXCEPT !.pc = pc]
  <2>1. /\ x \in CallRow /\ x.env = e /\ x.replay = o.replay /\ x.pc = pc
        /\ x.disposition = "PENDING" /\ x # Nothing
    BY <1>1 DEF CallRow, Stages, Admitted
  <2>2. calls' = [calls EXCEPT ![a] = x]
    BY <1>3 DEF Goto
  <2> HIDE DEF x
  <2>3. CallIsKept(x, admissions', rawStore', provenance', intents')
    BY <1>2, <1>3, <2>1 DEF CallIsKept
  <2>4. \A s \in Signals : ~AnswersFor(o, s)
    BY <1>1 DEF AnswersFor, Admitted
  <2>5. \A s \in Signals : pc = "commit" /\ s = e.signal => AnswersFor(x, s)
    BY <2>1 DEF AnswersFor
  <2>6. admissions' \in [Nonces -> AdmissionRow \cup {Nothing}]
    BY <1>1 DEF IngestInv, IngestType
  <2>7. \A s \in Signals : intents'[s] # Nothing => intents[s] # Nothing \/ AnswersFor(x, s)
    BY <1>3, <2>5
  <2>8. o.pc # "queued"
    BY <1>1 DEF Admitted
  <2> QED BY <1>1, <1>3, <2>1, <2>2, <2>3, <2>4, <2>6, <2>7, <2>8, IngestMoves
<1>4. /\ provenance \in [ProvenanceIds -> ProvenanceRow \cup {Nothing}]
      /\ intents \in [Signals -> ProvenanceIds \cup {Nothing}]
      /\ \A f \in Envelopes : RawIsThere(f, provenance, rawStore)
  BY DEF IngestInv, IngestType
<1>5. CASE putRaw(a)
  <2>1. /\ Goto(a, "provenance") /\ UNCHANGED <<provenance, intents>>
        /\ rawStore \subseteq rawStore' /\ (e.raw => e.signal \in rawStore')
    BY <1>5 DEF putRaw, Persist
  <2>2. StoresGrow
    BY <1>1, <2>1 DEF StoresGrow
  <2>3. \A f \in Envelopes : RawIsThere(f, provenance', rawStore')
    BY <1>4, <2>1 DEF RawIsThere
  <2> QED BY <1>3, <1>4, <2>1, <2>2, <2>3
<1>6. CASE putProvenance(a)
  <2> DEFINE p == ProvenanceId(e)
             r == [raw |-> e.raw]
  <2>1. /\ Goto(a, "intent") /\ UNCHANGED <<rawStore, intents>> /\ o.pc = "provenance"
        /\ provenance' = IF provenance[p] # Nothing THEN provenance ELSE [provenance EXCEPT ![p] = r]
    BY <1>6 DEF putProvenance, Persist, InStep
  <2>2. r \in ProvenanceRow /\ r # Nothing /\ r.raw = e.raw
    BY <1>1 DEF ProvenanceRow
  <2>3. e.raw => e.signal \in rawStore
    BY <1>1, <2>1 DEF CallIsKept
  <2>4. p \in ProvenanceIds /\ \A f \in Envelopes : ProvenanceId(f) = p => f.signal = e.signal
    BY <1>1 DEF ProvenanceId, Scope
  <2> HIDE DEF r, p
  <2>5. /\ provenance' \in [ProvenanceIds -> ProvenanceRow \cup {Nothing}]
        /\ provenance'[p] # Nothing
        /\ \A q \in ProvenanceIds : provenance[q] # Nothing => provenance'[q] = provenance[q]
        /\ \A q \in ProvenanceIds : provenance'[q] = provenance[q] \/ (q = p /\ provenance'[q] = r)
    BY <1>4, <2>1, <2>2, <2>4
  <2>6. StoresGrow
    BY <1>1, <2>1, <2>5 DEF StoresGrow
  <2>7. ASSUME NEW f \in Envelopes PROVE RawIsThere(f, provenance', rawStore')
    <3>1. ProvenanceId(f) \in ProvenanceIds
      BY DEF ProvenanceIds
    <3>2. RawIsThere(f, provenance, rawStore)
      BY <1>4
    <3> QED BY <2>1, <2>2, <2>3, <2>4, <2>5, <3>1, <3>2 DEF RawIsThere
  <2>8. provenance'[ProvenanceId(e)] # Nothing
    BY <2>5 DEF p
  <2> QED BY <1>3, <1>4, <2>1, <2>5, <2>6, <2>7, <2>8
<1>7. CASE createIntent(a)
  <2> DEFINE s == e.signal
  <2>1. /\ Goto(a, "commit") /\ UNCHANGED <<rawStore, provenance>> /\ o.pc = "intent"
        /\ intents' = IF intents[s] # Nothing THEN intents
                      ELSE [intents EXCEPT ![s] = ProvenanceId(e)]
    BY <1>7 DEF createIntent, Persist, InStep
  <2>2. ProvenanceId(e) # Nothing /\ provenance[ProvenanceId(e)] # Nothing
    BY <1>1, <2>1 DEF CallIsKept
  <2>3. /\ intents' \in [Signals -> ProvenanceIds \cup {Nothing}]
        /\ intents'[s] # Nothing
        /\ \A t \in Signals : intents[t] # Nothing => intents'[t] # Nothing
        /\ \A t \in Signals : intents'[t] # Nothing => intents[t] # Nothing \/ t = s
    BY <1>1, <1>4, <2>1, <2>2
  <2>4. StoresGrow
    BY <1>1, <2>1, <2>3 DEF StoresGrow
  <2> QED BY <1>3, <1>4, <2>1, <2>2, <2>3, <2>4
<1> QED BY <1>5, <1>6, <1>7

(* A write, or the commit, fails.                                          *)
LEMMA WriteHasFailed ==
    ASSUME IngestInv, NEW a \in Attempts, PersistFails(a)
    PROVE  IngestInv'
<1>1. /\ calls[a] # Nothing /\ calls[a].pc \in {"raw", "provenance", "intent", "commit"}
      /\ Goto(a, "abort")
      /\ UNCHANGED <<ingestClock, queue, rawStore, provenance, intents, admissions>>
  BY DEF PersistFails, InStep
<1> QED BY <1>1, StageIsReached DEF Admitted

(* The call is accepted, its nonce committed; or it is left to a person.   *)
LEMMA CallIsCommitted ==
    ASSUME IngestInv, NEW a \in Attempts, commit(a)
    PROVE  IngestInv'
<1> USE IngestAssumption
<1> DEFINE o == calls[a]
           e == o.env
           n == e.nonce
           r == [admissions[n] EXCEPT !.state = "COMMITTED"]
           x == [env |-> e, pc |-> "done", queued |-> FALSE, disposition |-> "ACCEPTED",
                 replay |-> o.replay]
<1>1. /\ o \in CallRow /\ o # Nothing /\ o.pc = "commit" /\ o.disposition = "PENDING"
      /\ e \in Envelopes /\ n \in Nonces /\ e.signal \in Signals /\ o.replay \in BOOLEAN
      /\ CallIsKept(o, admissions, rawStore, provenance, intents)
      /\ UNCHANGED <<ingestClock, queue, rawStore, provenance, intents>>
  BY DEF commit, InStep, IngestInv, IngestType, CallIsKept, CallRow, Nonces, Signals
<1>2. CASE Reject(a, "HUMAN_REVIEW", TRUE) /\ UNCHANGED admissions
  BY <1>1, <1>2, IngestRejects
<1>3. CASE Holds(e) /\ Decide(a, "ACCEPTED") /\ admissions' = [admissions EXCEPT ![n] = r]
  <2>1. /\ admissions[n] # Nothing /\ admissions[n] \in AdmissionRow
        /\ admissions[n].id = AdmissionId(e) /\ admissions[n].scope = Scope(e)
    BY <1>1, <1>3 DEF Holds, IngestInv, IngestType
  <2>2. /\ r \in AdmissionRow /\ r.state = "COMMITTED" /\ r.id = admissions[n].id
        /\ r.scope = admissions[n].scope /\ r # Nothing
    BY <2>1 DEF AdmissionRow
  <2> HIDE DEF r
  <2>3. admissions' \in [Nonces -> AdmissionRow \cup {Nothing}] /\ admissions'[n] = r
    BY <1>1, <1>3, <2>2 DEF IngestInv, IngestType
  <2>4. StoresGrow
    BY <1>1, <1>3, <2>2 DEF StoresGrow, Spent, IngestInv, IngestType
  <2>5. ~o.replay /\ intents[e.signal] # Nothing /\ provenance[ProvenanceId(e)] # Nothing
    BY <1>1 DEF CallIsKept, Admitted
  <2>6. calls' = [calls EXCEPT ![a] = x]
    BY <1>3 DEF Decide, IngestInv, IngestType
  <2>7. /\ x.env = e /\ x.replay = o.replay /\ x.pc = "done" /\ x.disposition = "ACCEPTED"
        /\ x \in CallRow /\ x # Nothing
    <3>1. x \in CallRow
      BY <1>1 DEF CallRow, Dispositions
    <3> QED BY <3>1
  <2> HIDE DEF x
  <2>8. CallIsKept(x, admissions', rawStore', provenance', intents')
    BY <1>1, <2>1, <2>2, <2>3, <2>5, <2>7 DEF CallIsKept, Committed, Admitted
  <2>9. \A s \in Signals : AnswersFor(o, s) => AnswersFor(x, s)
    BY <2>7 DEF AnswersFor
  <2> QED BY <1>1, <2>3, <2>4, <2>6, <2>7, <2>8, <2>9, IngestMoves DEF IngestInv, IngestType
<1> QED BY <1>2, <1>3 DEF commit

(* What is given back was not committed.                                   *)
LEMMA CallAborts ==
    ASSUME IngestInv, NEW a \in Attempts, abort(a)
    PROVE  IngestInv'
<1> USE IngestAssumption
<1> DEFINE o == calls[a]
           e == o.env
           n == e.nonce
           x == [o EXCEPT !.pc = "quarantine", !.disposition = "HUMAN_REVIEW"]
<1>1. /\ o \in CallRow /\ o # Nothing /\ o.pc = "abort" /\ o.disposition = "PENDING"
      /\ e \in Envelopes /\ n \in Nonces
      /\ CallIsKept(o, admissions, rawStore, provenance, intents)
      /\ Reject(a, "HUMAN_REVIEW", FALSE)
      /\ UNCHANGED <<ingestClock, queue, rawStore, provenance, intents>>
  BY DEF abort, InStep, IngestInv, IngestType, CallIsKept, CallRow, Nonces
<1>2. /\ admissions' \in [Nonces -> AdmissionRow \cup {Nothing}]
      /\ \A m \in Nonces : Spent(m, admissions) => admissions'[m] = admissions[m]
  BY <1>1 DEF abort, Spent, Holds, IngestInv, IngestType
<1>3. StoresGrow
  BY <1>1, <1>2 DEF StoresGrow, Spent
<1>4. /\ x \in CallRow /\ x.env = e /\ x.replay = o.replay /\ x.pc = "quarantine"
      /\ x.disposition = "HUMAN_REVIEW" /\ x # Nothing
  BY <1>1 DEF CallRow, Stages, Dispositions
<1>5. calls' = [calls EXCEPT ![a] = x]
  BY <1>1 DEF Reject
<1> HIDE DEF x
<1>6. CallIsKept(x, admissions', rawStore', provenance', intents')
  BY <1>1, <1>4 DEF CallIsKept, Admitted
<1>7. \A s \in Signals : AnswersFor(o, s) => AnswersFor(x, s)
  BY <1>4 DEF AnswersFor
<1> QED BY <1>1, <1>2, <1>3, <1>4, <1>5, <1>6, <1>7, IngestMoves DEF IngestInv, IngestType

(* A rejection is filed; what was answered stays.                          *)
LEMMA CallIsFiled ==
    ASSUME IngestInv, NEW a \in Attempts, quarantineSignal(a)
    PROVE  IngestInv'
<1> USE IngestAssumption
<1> DEFINE o == calls[a]
           x == [env |-> o.env, pc |-> "done", queued |-> FALSE, disposition |-> o.disposition,
                 replay |-> o.replay]
<1>1. /\ o \in CallRow /\ o # Nothing /\ o.pc = "quarantine" /\ o.disposition # "ACCEPTED"
      /\ o.env \in Envelopes /\ o.replay \in BOOLEAN /\ o.disposition \in Dispositions
      /\ UNCHANGED <<ingestClock, queue, rawStore, provenance, intents, admissions>>
  BY DEF quarantineSignal, InStep, IngestInv, IngestType, CallIsKept, CallRow
<1>2. calls' = [calls EXCEPT ![a] = x]
  BY DEF quarantineSignal, Decide, IngestInv, IngestType
<1>3. /\ x \in CallRow /\ x.env = o.env /\ x.replay = o.replay /\ x.pc = "done"
      /\ x.disposition = o.disposition
  BY <1>1 DEF CallRow
<1> HIDE DEF x
<1>4. \A s \in Signals : AnswersFor(o, s) => AnswersFor(x, s)
  BY <1>1, <1>3 DEF AnswersFor
<1> QED BY <1>1, <1>2, <1>3, <1>4, IngestGoesOn DEF Admitted

(* Every step of the ingestion keeps the invariant.                        *)
LEMMA IngestKept == IngestInv /\ [IngestNext]_ingestVars => IngestInv'
<1> SUFFICES ASSUME IngestInv, [IngestNext]_ingestVars PROVE IngestInv'
  OBVIOUS
<1> DEFINE idle == UNCHANGED <<admissions, rawStore, provenance, intents, queue, calls>>
<1>1. ASSUME idle, ingestClock' \in Nat PROVE IngestInv'
  BY <1>1 DEF IngestInv, IngestType
<1>2. ASSUME NEW a \in Attempts, NEW e \in Envelopes, enqueueSignal(a, e) \/ ingest(a, e)
      PROVE  IngestInv'
  <2>1. calls[a] = Nothing
    BY <1>2 DEF enqueueSignal, ingest
  <2> QED BY <1>2, <2>1, CallIsNew
<1>3. ASSUME NEW a \in Attempts, checkSource(a) \/ consume(a) PROVE IngestInv'
  BY <1>3, CallIsChecked
<1>4. ASSUME NEW a \in Attempts, admit(a) PROVE IngestInv'
  BY <1>4, CallIsAdmitted
<1>5. ASSUME NEW a \in Attempts, putRaw(a) \/ putProvenance(a) \/ createIntent(a)
      PROVE  IngestInv'
  BY <1>5, CallWrites
<1>6. ASSUME NEW a \in Attempts, PersistFails(a) PROVE IngestInv'
  BY <1>6, WriteHasFailed
<1>7. ASSUME NEW a \in Attempts, commit(a) PROVE IngestInv'
  BY <1>7, CallIsCommitted
<1>8. ASSUME NEW a \in Attempts, abort(a) PROVE IngestInv'
  BY <1>8, CallAborts
<1>9. ASSUME NEW a \in Attempts, quarantineSignal(a) PROVE IngestInv'
  BY <1>9, CallIsFiled
<1>10. CASE drainQueue
  BY <1>10, QueueIsDrained
<1>11. CASE \E s \in Sources : setTrust(s)
  <2>1. idle /\ ingestClock' = ingestClock /\ ingestClock \in Nat
    BY <1>11 DEF setTrust, IngestInv, IngestType
  <2> QED BY <1>1, <2>1
<1>12. CASE IngestTick
  <2>1. idle /\ ingestClock' = ingestClock + 1 /\ ingestClock \in Nat
    BY <1>12 DEF IngestTick, IngestInv, IngestType
  <2>2. ingestClock' \in Nat
    BY <2>1
  <2> QED BY <1>1, <2>1, <2>2
<1>13. CASE UNCHANGED ingestVars
  <2>1. idle /\ ingestClock' = ingestClock /\ ingestClock \in Nat
    BY <1>13 DEF ingestVars, IngestInv, IngestType
  <2> QED BY <1>1, <2>1
<1> HIDE DEF idle
<1> QED BY <1>2, <1>3, <1>4, <1>5, <1>6, <1>7, <1>8, <1>9, <1>10, <1>11, <1>12, <1>13 DEF IngestNext

(* In every state of the ingestion service, a call begun after its nonce   *)
(* was reported accepted is not accepted, what was answered accepted is    *)
(* committed and stored, and an intent has a call that answers for it      *)
(* (ingest).                                                               *)
THEOREM AccountedIngestion == IngestSpec => []IngestionAccounts
<1>1. IngestInv => IngestionAccounts
  <2> SUFFICES ASSUME IngestInv PROVE IngestionAccounts
    OBVIOUS
  <2>1. ReplayIsRefused
    BY DEF ReplayIsRefused, Accepted, InStep, IngestInv, CallIsKept
  <2>2. AcceptedIsRecoverable
    <3> SUFFICES ASSUME NEW a \in Accepted
                 PROVE  LET e == calls[a].env
                        IN  /\ Holds(e) /\ admissions[e.nonce].state = "COMMITTED"
                            /\ intents[e.signal] # Nothing
                            /\ provenance[ProvenanceId(e)] # Nothing
                            /\ provenance[ProvenanceId(e)].raw => e.signal \in rawStore
      BY DEF AcceptedIsRecoverable
    <3>1. /\ a \in Attempts /\ calls[a] # Nothing /\ calls[a].disposition = "ACCEPTED"
          /\ calls[a].env \in Envelopes
      BY DEF Accepted, InStep, IngestInv, IngestType, CallRow
    <3> QED BY <3>1 DEF IngestInv, CallIsKept, Committed, Holds, RawIsThere
  <2>3. IntentAccounted
    BY DEF IntentAccounted, IngestInv, AnswersFor
  <2> QED BY <2>1, <2>2, <2>3 DEF IngestionAccounts
<1> QED BY <1>1, IngestStart, IngestKept, PTL DEF IngestSpec
=============================================================================
