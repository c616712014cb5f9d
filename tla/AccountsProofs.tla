--------------------------- MODULE AccountsProofs ---------------------------
(***************************************************************************)
(* The registry keeps what it acknowledged and honours its lists, for      *)
(* every set of users, groups, handlers and accounts, every configuration  *)
(* with distinct names and every number of requests, kills and changes.    *)
(*                                                                         *)
(* None of the properties is inductive.  IInv adds what ties the disk, the *)
(* registry's memory, the handlers' slots and the history together.        *)
(***************************************************************************)
EXTENDS Accounts, TLAPS

Slot ==
  {Idle} \cup [op : {"gate"}, u : Users, a : Names, b : Names]
         \cup [op : {"read"}, u : Users \cup {Remote}, a : Names, b : Names]
         \cup [op : {"admin"}, u : Users, a : {Default}, b : {Default}]
         \cup [op : {"meta"}, c : AccountConfig, bal : Nat]
         \cup [op : {"set"}, a : Names, m : Members, detach : BOOLEAN,
               list : SUBSET Members]

(* Only main works while the daemon boots, only handlers while it serves.  *)
SlotsOK ==
  /\ h \in [Handlers \cup {Main} -> Slot]
  /\ daemon # "up" => /\ \A p \in Handlers : h[p] = Idle
                      /\ DOMAIN cache = {}
  /\ daemon # "boot" => h[Main] = Idle

Typed ==
  /\ TypeOK /\ SlotsOK
  /\ budgets \in [DOMAIN budgets -> Nat] /\ made \in [DOMAIN made -> Nat]
  /\ had \in [Users -> SUBSET Groups]

(* At most one creation holds the lock.  It has a snapshot that nobody     *)
(* else has registered; main only creates what the configuration names.    *)
Creating ==
  /\ \A p, q \in DOMAIN h : h[p].op = "meta" /\ h[q].op = "meta" => p = q
  /\ \A p \in DOMAIN h : h[p].op = "meta" =>
       /\ h[p].c.Name \in DOMAIN snapshot \ DOMAIN budgets
       /\ h[p].bal = snapshot[h[p].c.Name]
       /\ h[p].bal = h[p].c.Balance \/ h[p].c.Name \in half
  /\ h[Main].op = "meta" =>
       \E i \in 1 .. Len(Config) : h[Main].c = Config[i]

(* Memory mirrors the disk from discover on.                               *)
Mirrors ==
  daemon # "down" =>
    /\ DOMAIN meta \subseteq DOMAIN budgets
    /\ \A a \in DOMAIN budgets :
         /\ budgets[a] = snapshot[a]
         /\ access[a] = IF a \in DOMAIN meta THEN meta[a] ELSE {}

(* A snapshot without account.json is a creation under way, or one that    *)
(* was cut off; an acknowledged creation has both files.                   *)
Files ==
  /\ \A a \in DOMAIN snapshot \ DOMAIN meta :
       a \in half \/ \E p \in DOMAIN h : h[p].op = "meta" /\ h[p].c.Name = a
  /\ DOMAIN made \subseteq DOMAIN meta
  /\ \A a \in DOMAIN made \ half : made[a] = snapshot[a]

Configured ==
  daemon = "up" => \A i \in 1 .. Len(Config) : Config[i].Name \in DOMAIN budgets

(* An attach that did not overlap another holds the list as it is, changed *)
(* by its own member.                                                      *)
Attaching ==
  \A p \in Handlers : h[p].op = "set" =>
    /\ h[p].a \in DOMAIN access
    /\ h[p].a \notin raced =>
         h[p].list = IF h[p].detach THEN removeAll(access[h[p].a], {h[p].m})
                     ELSE addAll(access[h[p].a], {h[p].m})
    /\ \A q \in Handlers :
         (h[q].op = "set" /\ h[q].a = h[p].a /\ q # p) => h[p].a \in raced

(* The configuration's word on an account that does not exist yet.         *)
Pending(a, m) ==
  /\ a \notin DOMAIN meta \cup half
  /\ \E i \in 1 .. Len(Config) :
       /\ Config[i].Name = a /\ m \in Config[i].allow
       /\ a \in DOMAIN snapshot => h[Main].op = "meta" /\ h[Main].c = Config[i]

Promised ==
  \A a \in Names \ raced, m \in Members :
    /\ promise[a][m] = "out" => a \in DOMAIN meta /\ m \notin meta[a]
    /\ promise[a][m] = "in" => (a \in DOMAIN meta /\ m \in meta[a]) \/ Pending(a, m)

Cached ==
  /\ DOMAIN cache \subseteq Users
  /\ \A u \in DOMAIN cache : cache[u] \subseteq had[u]
  /\ \A u \in Users : osGroups[u] \subseteq had[u]

IInv == /\ Typed /\ Creating /\ Mirrors /\ Files /\ Configured
        /\ Attaching /\ Promised /\ Cached

-----------------------------------------------------------------------------
(* What a slot holds, by what it is doing.                                 *)
LEMMA SlotFacts ==
  ASSUME NEW g \in Slot
  PROVE  /\ g.op \in {"idle", "gate", "read", "admin", "meta", "set"}
         /\ g.op = "gate" => g.u \in Users /\ g.a \in Names /\ g.b \in Names
         /\ g.op = "read" => /\ g.u \in Users \cup {Remote}
                             /\ g.a \in Names /\ g.b \in Names
         /\ g.op = "admin" => g.u \in Users
         /\ g.op = "meta" => g.c \in AccountConfig /\ g.bal \in Nat
         /\ g.op = "set" => /\ g.a \in Names /\ g.m \in Members
                            /\ g.detach \in BOOLEAN /\ g.list \in SUBSET Members
         /\ g = Idle <=> g.op = "idle"
  BY DEF Slot, Idle

(* The requests a handler may hold.                                        *)
LEMMA SlotIntro ==
  /\ Idle \in Slot
  /\ \A u \in Users, a, b \in Names :
       [op |-> "gate", u |-> u, a |-> a, b |-> b] \in Slot
  /\ \A u \in Users \cup {Remote}, a, b \in Names :
       [op |-> "read", u |-> u, a |-> a, b |-> b] \in Slot
  /\ \A u \in Users :
       [op |-> "admin", u |-> u, a |-> Default, b |-> Default] \in Slot
  /\ \A c \in AccountConfig, n \in Nat :
       [op |-> "meta", c |-> c, bal |-> n] \in Slot
  /\ \A a \in Names, m \in Members, d \in BOOLEAN, l \in SUBSET Members :
       [op |-> "set", a |-> a, m |-> m, detach |-> d, list |-> l] \in Slot
  BY DEF Slot

-----------------------------------------------------------------------------
(* A fresh daemon satisfies the invariant.                                 *)
LEMMA InitIInv == Init => IInv
<1> SUFFICES ASSUME Init PROVE IInv
  OBVIOUS
<1> USE DEF Init, Empty
<1>1. \A p \in Handlers \cup {Main} : h[p] = Idle /\ h[p].op = "idle"
  BY DEF Idle
<1>2. h \in [Handlers \cup {Main} -> Slot]
  BY SlotIntro
<1>3. Typed
  <2>1. SlotsOK
    BY <1>1, <1>2 DEF SlotsOK
  <2>2. promise \in [Names -> [Members -> {"none", "in", "out"}]]
    OBVIOUS
  <2>3. osGroups \in [Users -> SUBSET Groups]
    BY AccountsAssumption
  <2> QED
    BY <2>1, <2>2, <2>3 DEF Typed, TypeOK
<1>4. Creating
  BY <1>1 DEF Creating
<1>5. Mirrors /\ Files /\ Configured
  BY DEF Mirrors, Files, Configured
<1>6. Attaching
  BY <1>1 DEF Attaching
<1>7. Promised
  <2> SUFFICES ASSUME NEW a \in Names, NEW m \in Members
               PROVE  /\ promise[a][m] # "out"
                      /\ promise[a][m] = "in" => Pending(a, m)
    BY DEF Promised
  <2>1. promise[a][m] = IF \E i \in 1 .. Len(Config) :
                             Config[i].Name = a /\ m \in Config[i].allow
                        THEN "in" ELSE "none"
    OBVIOUS
  <2> QED
    BY <2>1 DEF Pending
<1>8. Cached
  BY AccountsAssumption DEF Cached
<1> QED
  BY <1>3, <1>4, <1>5, <1>6, <1>7, <1>8 DEF IInv

(* A handler whose slot neither creates nor attaches, before and after.    *)
LEMMA HandlerStep ==
  ASSUME IInv, daemon = "up", NEW p \in Handlers, NEW g \in Slot,
         g.op \notin {"meta", "set"}, h[p].op # "meta",
         h' = [h EXCEPT ![p] = g], Cached',
         UNCHANGED <<disk, daemon, memory, osGroups, history, had>>
  PROVE  IInv'
<1> USE DEF disk, memory, history
<1>1. DOMAIN h = Handlers \cup {Main} /\ Main \notin Handlers
  BY AccountsAssumption DEF IInv, Typed, SlotsOK, Main
<1>2. /\ DOMAIN h' = DOMAIN h /\ h'[p] = g
      /\ \A q \in DOMAIN h : q # p => h'[q] = h[q]
  BY <1>1
<1>3. SlotsOK'
  BY <1>1, <1>2 DEF IInv, Typed, SlotsOK
<1>4. Typed'
  BY <1>3 DEF IInv, Typed, TypeOK
<1>5. \A q \in DOMAIN h' : h'[q].op = "meta" => h[q].op = "meta" /\ h'[q] = h[q]
  BY <1>2
<1>6. \A q \in DOMAIN h : h[q].op = "meta" => h'[q] = h[q]
  BY <1>2
<1>7. h'[Main] = h[Main]
  BY <1>1, <1>2
<1>8. Creating'
  BY <1>2, <1>5, <1>7 DEF IInv, Creating
<1>9. Mirrors' /\ Configured'
  BY DEF IInv, Mirrors, Configured
<1>10. Files'
  BY <1>2, <1>6 DEF IInv, Files
<1>11. Attaching'
  <2>1. \A q \in Handlers : h'[q].op = "set" => h[q].op = "set" /\ h'[q] = h[q]
    BY <1>1, <1>2
  <2> QED
    BY <2>1, SMTT(30) DEF IInv, Attaching
<1>12. Promised'
  BY <1>7 DEF IInv, Promised, Pending
<1> QED
  BY <1>4, <1>8, <1>9, <1>10, <1>11, <1>12 DEF IInv

(* The cache only ever holds groups the user has had.                      *)
LEMMA KnownHad ==
  ASSUME IInv, NEW u \in Users
  PROVE  Known(u) \subseteq had[u]
  BY DEF IInv, Cached, Known

(* A group lookup caches only groups the user has or has had.              *)
LEMMA LookupCached ==
  ASSUME IInv, NEW u, NEW ok, NEW looked, looked => u \in Users,
         lookup(u, ok, looked), UNCHANGED <<osGroups, had>>
  PROVE  Cached'
<1>1. CASE looked /\ ok
  <2>1. u \in Users /\ cache' = Put(cache, u, Known(u))
    BY <1>1 DEF lookup
  <2>2. Known(u) \subseteq had[u]
    BY <2>1, KnownHad
  <2>3. /\ DOMAIN cache' = DOMAIN cache \cup {u} /\ cache'[u] = Known(u)
        /\ \A v \in DOMAIN cache : v # u => cache'[v] = cache[v]
    BY <2>1 DEF Put
  <2> QED
    BY <2>1, <2>2, <2>3 DEF IInv, Cached
<1>2. CASE ~(looked /\ ok)
  <2>1. cache' = cache
    BY <1>2 DEF lookup
  <2> QED
    BY <2>1 DEF IInv, Cached
<1> QED
  BY <1>1, <1>2

(* A request resolves to a registered account.                             *)
LEMMA ResolveFacts ==
  ASSUME IInv, NEW a, NEW b \in Resolve(a)
  PROVE  b \in DOMAIN access /\ b \in Names
  BY DEF Resolve, IInv, Typed, TypeOK

(* Taking a request in hand keeps the invariant.                           *)
LEMMA DispatchIInv ==
  ASSUME IInv, NEW p \in Handlers, NEW verb, NEW u, NEW a, NEW b,
         [op |-> verb, u |-> u, a |-> a, b |-> b] \in Slot,
         verb \in {"gate", "read", "admin"}, dispatch(p, verb, u, a, b)
  PROVE  IInv'
<1> DEFINE g == [op |-> verb, u |-> u, a |-> a, b |-> b]
<1>1. Cached'
  BY DEF dispatch, IInv, Cached
<1>2. h[p].op = "idle" /\ g.op \notin {"meta", "set"}
  BY DEF dispatch, Idle
<1> QED
  BY <1>1, <1>2, HandlerStep DEF dispatch, Busy

(* An authorisation check, allowed or not, keeps the invariant.            *)
LEMMA CheckIInv ==
  ASSUME IInv, NEW p \in Handlers, NEW allow, check(p, allow)
  PROVE  IInv'
<1>1. h[p] \in Slot
  BY DEF IInv, Typed, SlotsOK
<1>2. h[p].op \in {"gate", "read", "admin"}
  BY DEF check
<1>3. daemon = "up"
  BY <1>2 DEF IInv, Typed, SlotsOK, Idle
<1>4. PICK ok \in Lookups :
        LET r == CASE h[p].op = "gate"  -> authorize(h[p].a, h[p].u, ok)
                   [] h[p].op = "read"  -> canRead(h[p].a, h[p].u, ok)
                   [] h[p].op = "admin" -> requireAdmin(h[p].u, ok)
        IN  r.allow = allow /\ lookup(h[p].u, ok, r.looked)
  BY DEF check
<1> DEFINE r == CASE h[p].op = "gate"  -> authorize(h[p].a, h[p].u, ok)
                  [] h[p].op = "read"  -> canRead(h[p].a, h[p].u, ok)
                  [] h[p].op = "admin" -> requireAdmin(h[p].u, ok)
<1>5. r.looked => h[p].u \in Users
  BY <1>1, <1>2, SlotFacts DEF authorize, canRead, requireAdmin
<1>6. Cached'
  <2>1. lookup(h[p].u, ok, r.looked)
    BY <1>4
  <2>2. UNCHANGED <<osGroups, had>>
    BY DEF check
  <2> HIDE DEF r
  <2> QED
    BY <1>5, <2>1, <2>2, LookupCached
<1>7. Idle \in Slot /\ Idle.op = "idle"
  BY SlotIntro DEF Idle
<1> QED
  BY <1>2, <1>3, <1>6, <1>7, HandlerStep DEF check, Busy

(* Between discover and the end of main, a name that is not registered and *)
(* not being created has no account.json, and if it has a snapshot it is a *)
(* creation that was cut off.                                              *)
LEMMA Unregistered ==
  ASSUME IInv, daemon # "down", Unlocked, NEW a, a \notin DOMAIN budgets
  PROVE  a \notin DOMAIN meta /\ (a \in DOMAIN snapshot => a \in half)
<1>1. a \notin DOMAIN meta
  BY DEF IInv, Mirrors
<1> QED
  BY <1>1 DEF IInv, Files, Unlocked

(* The first half of a creation, by a handler or by main.                  *)
LEMMA OpenIInv ==
  ASSUME IInv, Unlocked, NEW p, NEW c \in AccountConfig,
         \/ daemon = "up" /\ p \in Handlers
         \/ /\ daemon = "boot" /\ p = Main
            /\ \E i \in 1 .. Len(Config) : c = Config[i],
         h[p] = Idle, c.Name \notin DOMAIN budgets,
         openOrNew(p, c), Cached',
         UNCHANGED <<meta, memory, osGroups, history, had>>,
         IF p = Main THEN /\ daemon' = IF h'[Main] = Idle THEN "down" ELSE daemon
                          /\ cache' = cache
         ELSE daemon' = daemon
  PROVE  IInv'
<1> USE DEF memory, history
<1>1. /\ DOMAIN h = Handlers \cup {Main} /\ Main \notin Handlers
      /\ p \in DOMAIN h
      /\ h \in [Handlers \cup {Main} -> Slot]
  BY AccountsAssumption DEF IInv, Typed, SlotsOK, Main
<1>2. c.Name \in Names /\ c.Balance \in Nat /\ c.allow \in SUBSET Members
  BY DEF AccountConfig
<1>3. c.Name \notin DOMAIN meta /\ (c.Name \in DOMAIN snapshot => c.Name \in half)
  BY Unregistered
<1>4. \A q \in DOMAIN h : h[q].op # "meta"
  BY DEF Unlocked
<1>5. CASE h' = h /\ snapshot' = snapshot
  <2>1. daemon' = IF p = Main THEN "down" ELSE daemon
    BY <1>5
  <2>2. SlotsOK'
    BY <1>1, <1>5, <2>1 DEF IInv, Typed, SlotsOK
  <2>3. Typed'
    BY <1>5, <2>1, <2>2 DEF IInv, Typed, TypeOK
  <2>4. Creating'
    BY <1>5 DEF IInv, Creating
  <2>5. Files'
    BY <1>5 DEF IInv, Files
  <2>6. Attaching'
    BY <1>5 DEF IInv, Attaching
  <2>7. Promised'
    BY <1>5 DEF IInv, Promised, Pending
  <2>8. Mirrors' /\ Configured'
    BY <1>1, <1>5, <2>1 DEF IInv, Mirrors, Configured
  <2> QED
    BY <2>3, <2>4, <2>5, <2>6, <2>7, <2>8 DEF IInv
<1>6. CASE \E n \in Nat :
             /\ h' = [h EXCEPT ![p] = [op |-> "meta", c |-> c, bal |-> n]]
             /\ DOMAIN snapshot' = DOMAIN snapshot \cup {c.Name}
             /\ snapshot'[c.Name] = n /\ snapshot' \in [DOMAIN snapshot' -> Nat]
             /\ \A a \in DOMAIN snapshot : snapshot'[a] = snapshot[a]
             /\ n = c.Balance \/ c.Name \in half
  <2>1. PICK n \in Nat :
             /\ h' = [h EXCEPT ![p] = [op |-> "meta", c |-> c, bal |-> n]]
             /\ DOMAIN snapshot' = DOMAIN snapshot \cup {c.Name}
             /\ snapshot'[c.Name] = n /\ snapshot' \in [DOMAIN snapshot' -> Nat]
             /\ \A a \in DOMAIN snapshot : snapshot'[a] = snapshot[a]
             /\ n = c.Balance \/ c.Name \in half
    BY <1>6
  <2> DEFINE g == [op |-> "meta", c |-> c, bal |-> n]
  <2>2. g \in Slot /\ g.op = "meta" /\ g.c = c /\ g.bal = n
    BY SlotIntro
  <2> HIDE DEF g
  <2>3. /\ DOMAIN h' = DOMAIN h /\ h'[p] = g
        /\ \A q \in DOMAIN h : q # p => h'[q] = h[q]
        /\ h' \in [Handlers \cup {Main} -> Slot]
    BY <1>1, <2>1, <2>2 DEF g
  <2>4. daemon' = daemon
    <3>1. g # Idle
      BY <2>2 DEF Idle
    <3> QED
      BY <2>3, <3>1
  <2>5. SlotsOK'
    BY <1>1, <2>3, <2>4 DEF IInv, Typed, SlotsOK
  <2>6. Typed'
    <3>1. DOMAIN snapshot \subseteq DOMAIN snapshot' /\ DOMAIN snapshot' \subseteq Names
      BY <1>2, <2>1 DEF IInv, Typed, TypeOK
    <3> QED
      BY <2>1, <2>4, <2>5, <3>1 DEF IInv, Typed, TypeOK
  <2>7. Creating'
    <3>1. \A q \in DOMAIN h' : h'[q].op = "meta" => q = p
      BY <1>4, <2>3
    <3>2. /\ h'[p].c.Name \in DOMAIN snapshot' \ DOMAIN budgets'
          /\ h'[p].bal = snapshot'[h'[p].c.Name]
          /\ h'[p].bal = h'[p].c.Balance \/ h'[p].c.Name \in half'
      BY <2>1, <2>2, <2>3
    <3>3. h'[Main].op = "meta" => \E i \in 1 .. Len(Config) : h'[Main].c = Config[i]
      BY <1>1, <2>2, <2>3, <3>1
    <3> QED
      BY <3>1, <3>2, <3>3 DEF Creating
  <2>8. Mirrors'
    BY <2>1, <2>4 DEF IInv, Mirrors, Typed, TypeOK
  <2>9. Files'
    <3>1. \A a \in DOMAIN snapshot' \ DOMAIN meta' :
            a \in half' \/ \E q \in DOMAIN h' : h'[q].op = "meta" /\ h'[q].c.Name = a
      BY <1>1, <1>4, <2>1, <2>2, <2>3 DEF IInv, Files
    <3> QED
      BY <2>1, <3>1 DEF IInv, Files, Typed, TypeOK
  <2>10. Configured'
    BY <2>4 DEF IInv, Configured
  <2>11. Attaching'
    <3>1. \A q \in Handlers : h'[q].op = "set" => h[q].op = "set" /\ h'[q] = h[q]
      BY <1>1, <2>2, <2>3
    <3> QED
      BY <3>1, ZenonT(60) DEF IInv, Attaching
  <2>12. Promised'
    <3> SUFFICES ASSUME NEW a \in Names \ raced, NEW m \in Members, Pending(a, m)
                 PROVE  Pending(a, m)'
      BY DEF IInv, Promised
    <3>1. PICK i \in 1 .. Len(Config) :
            /\ Config[i].Name = a /\ m \in Config[i].allow
            /\ a \in DOMAIN snapshot => h[Main].op = "meta" /\ h[Main].c = Config[i]
      BY DEF Pending
    <3>2. a \notin DOMAIN meta \cup half /\ a \notin DOMAIN snapshot
      BY <1>1, <1>4, <3>1 DEF Pending
    <3>3. CASE a # c.Name
      BY <2>1, <3>1, <3>2, <3>3 DEF Pending
    <3>4. CASE a = c.Name
      <4>1. p = Main
        BY <3>1, <3>4 DEF IInv, Configured
      <4>2. c = Config[i]
        BY <1>1, <3>1, <3>4, <4>1, AccountsAssumption
      <4> QED
        BY <2>2, <2>3, <3>1, <3>2, <4>1, <4>2 DEF Pending
    <3> QED
      BY <3>3, <3>4
  <2> QED
    BY <2>6, <2>7, <2>8, <2>9, <2>10, <2>11, <2>12 DEF IInv
<1>7. CASE c.Name \in DOMAIN snapshot
  <2> DEFINE n == snapshot[c.Name]
  <2>1. n \in Nat /\ c.Name \in half
    BY <1>3, <1>7 DEF IInv, Typed, TypeOK
  <2>2. /\ h' = [h EXCEPT ![p] = [op |-> "meta", c |-> c, bal |-> n]]
        /\ snapshot' = snapshot
    BY <1>7 DEF openOrNew, Busy
  <2>3. snapshot' \in [DOMAIN snapshot' -> Nat]
    BY <2>2 DEF IInv, Typed, TypeOK
  <2> QED
    BY <1>6, <1>7, <2>1, <2>2, <2>3
<1>8. CASE c.Name \notin DOMAIN snapshot
  <2>1. PICK ok \in IOOutcomes :
          /\ snapshot' = IF ok THEN Put(snapshot, c.Name, c.Balance) ELSE snapshot
          /\ h' = [h EXCEPT ![p] = IF ok THEN [op |-> "meta", c |-> c, bal |-> c.Balance]
                                   ELSE Idle]
    BY <1>8 DEF openOrNew, Busy
  <2>2. CASE ~ok
    <3>1. h' = h
      BY <1>1, <2>1, <2>2
    <3> QED
      BY <1>5, <2>1, <2>2, <3>1
  <2>3. CASE ok
    <3>1. snapshot' = Put(snapshot, c.Name, c.Balance)
      BY <2>1, <2>3
    <3>2. snapshot \in [DOMAIN snapshot -> Nat]
      BY DEF IInv, Typed, TypeOK
    <3>3. /\ DOMAIN snapshot' = DOMAIN snapshot \cup {c.Name}
          /\ snapshot'[c.Name] = c.Balance /\ snapshot' \in [DOMAIN snapshot' -> Nat]
          /\ \A a \in DOMAIN snapshot : snapshot'[a] = snapshot[a]
      BY <1>2, <1>8, <3>1, <3>2 DEF Put
    <3> QED
      BY <1>2, <1>6, <2>1, <2>3, <3>3
  <2> QED
    BY <2>2, <2>3
<1> QED
  BY <1>7, <1>8

(* Creating an account, or refusing to, keeps the invariant.               *)
LEMMA CreateIInv ==
  ASSUME IInv, NEW p \in Handlers, NEW u \in Users \cup {Root, Remote},
         NEW c \in CreateReqs, handleCreate(p, u, c)
  PROVE  IInv'
<1>1. PICK ok \in Lookups :
        /\ lookup(u, ok, requireAdmin(u, ok).looked)
        /\ IF requireAdmin(u, ok).allow /\ c.Name \notin DOMAIN budgets
           THEN openOrNew(p, c) ELSE UNCHANGED <<snapshot, h>>
  BY DEF handleCreate
<1>2. requireAdmin(u, ok).looked => u \in Users
  BY DEF requireAdmin
<1>3. UNCHANGED <<meta, daemon, memory, osGroups, history, had>>
  BY DEF handleCreate
<1>4. Cached'
  BY <1>1, <1>2, <1>3, LookupCached
<1>5. p # Main /\ h[p] = Idle /\ daemon = "up" /\ Unlocked /\ c \in AccountConfig
  BY AccountsAssumption DEF handleCreate, Main
<1>6. CASE requireAdmin(u, ok).allow /\ c.Name \notin DOMAIN budgets
  BY <1>1, <1>3, <1>4, <1>5, <1>6, OpenIInv
<1>7. CASE UNCHANGED <<snapshot, h>>
  <2>1. h[p].op = "idle" /\ Idle.op = "idle" /\ Idle \in Slot
    BY <1>5, SlotIntro DEF Idle
  <2>2. h' = [h EXCEPT ![p] = Idle]
    BY <1>5, <1>7 DEF IInv, Typed, SlotsOK
  <2> QED
    BY <1>3, <1>4, <1>5, <1>7, <2>1, <2>2, HandlerStep DEF disk
<1> QED
  BY <1>1, <1>6, <1>7

(* Opening the configured account at startup keeps the invariant.          *)
LEMMA BootstrapIInv ==
  ASSUME IInv, bootstrap
  PROVE  IInv'
<1>1. PICK i \in Missing : openOrNew(Main, Config[i])
  BY DEF bootstrap
<1>2. /\ i \in 1 .. Len(Config) /\ Config[i] \in AccountConfig
      /\ Config[i].Name \notin DOMAIN budgets
  BY AccountsAssumption DEF Missing
<1>3. Unlocked
  <2>1. \A p \in DOMAIN h : h[p] = Idle
    BY DEF bootstrap, IInv, Typed, SlotsOK
  <2> QED
    BY <2>1 DEF Unlocked, Idle
<1>4. Cached'
  BY DEF bootstrap, IInv, Cached
<1> QED
  BY <1>1, <1>2, <1>3, <1>4, OpenIInv DEF bootstrap

(* What an attach holds survives a step that leaves registered lists and   *)
(* the other attaches alone.                                               *)
LEMMA AttachFrame ==
  ASSUME IInv, raced' = raced,
         \A q \in Handlers : h'[q].op = "set" => h[q].op = "set" /\ h'[q] = h[q],
         \A a \in DOMAIN access : a \in DOMAIN access' /\ access'[a] = access[a]
  PROVE  Attaching'
<1> SUFFICES ASSUME NEW p \in Handlers, h'[p].op = "set"
             PROVE  /\ h'[p].a \in DOMAIN access'
                    /\ h'[p].a \notin raced' =>
                         h'[p].list = IF h'[p].detach
                                      THEN removeAll(access'[h'[p].a], {h'[p].m})
                                      ELSE addAll(access'[h'[p].a], {h'[p].m})
                    /\ \A q \in Handlers :
                         (h'[q].op = "set" /\ h'[q].a = h'[p].a /\ q # p)
                           => h'[p].a \in raced'
  BY DEF Attaching
<1>1. h[p].op = "set" /\ h'[p] = h[p]
  OBVIOUS
<1>2. h[p].a \in DOMAIN access /\ access'[h[p].a] = access[h[p].a]
  BY <1>1 DEF IInv, Attaching
<1> QED
  BY <1>1, <1>2 DEF IInv, Attaching

(* The second half of a creation.                                          *)
LEMMA CreateMetaIInv ==
  ASSUME IInv, NEW p \in DOMAIN h, createMeta(p)
  PROVE  IInv'
<1> DEFINE c == h[p].c
           n == c.Name
<1>1. /\ DOMAIN h = Handlers \cup {Main} /\ Main \notin Handlers
      /\ h \in [Handlers \cup {Main} -> Slot]
  BY AccountsAssumption DEF IInv, Typed, SlotsOK, Main
<1>2. h[p].op = "meta"
  BY DEF createMeta
<1>3. /\ c \in AccountConfig /\ h[p].bal \in Nat
      /\ n \in Names /\ c.Balance \in Nat /\ c.allow \in SUBSET Members
  BY <1>1, <1>2, SlotFacts DEF AccountConfig
<1>4. /\ n \in DOMAIN snapshot \ DOMAIN budgets /\ h[p].bal = snapshot[n]
      /\ h[p].bal = c.Balance \/ n \in half
      /\ \A q \in DOMAIN h : h[q].op = "meta" => q = p
  BY <1>2 DEF IInv, Creating
<1>5. daemon = IF p = Main THEN "boot" ELSE "up"
  BY <1>1, <1>2 DEF IInv, Typed, TypeOK, SlotsOK, Idle
<1>6. n \notin DOMAIN meta /\ n \notin DOMAIN access
  BY <1>4, <1>5 DEF IInv, Mirrors, Typed, TypeOK
<1>7. /\ h' = [h EXCEPT ![p] = Idle]
      /\ UNCHANGED <<snapshot, cache, osGroups, raced, had>>
  BY DEF createMeta, Busy
<1>8. /\ DOMAIN h' = DOMAIN h /\ h'[p] = Idle
      /\ \A q \in DOMAIN h : q # p => h'[q] = h[q]
      /\ h' \in [Handlers \cup {Main} -> Slot]
      /\ Idle.op = "idle"
  BY <1>1, <1>7, SlotIntro DEF Idle
<1>9. \A q \in DOMAIN h' : h'[q].op # "meta"
  BY <1>4, <1>8
<1>10. Creating'
  BY <1>1, <1>8, <1>9 DEF Creating
<1>11. Cached'
  BY <1>7 DEF IInv, Cached
<1>12. \A q \in Handlers : h'[q].op = "set" => h[q].op = "set" /\ h'[q] = h[q]
  BY <1>1, <1>8
<1>13. CASE /\ meta' = Put(meta, n, c.allow)
            /\ budgets' = Put(budgets, n, h[p].bal)
            /\ access' = Put(access, n, c.allow)
            /\ promise' = [promise EXCEPT ![n] = [m \in Members |->
                 IF m \in c.allow THEN "in" ELSE "none"]]
            /\ made' = Put(made, n, c.Balance)
            /\ UNCHANGED <<daemon, half>>
  <2>1. /\ DOMAIN meta' = DOMAIN meta \cup {n} /\ meta'[n] = c.allow
        /\ \A a \in DOMAIN meta : meta'[a] = meta[a]
    BY <1>6, <1>13 DEF Put
  <2>2. /\ DOMAIN budgets' = DOMAIN budgets \cup {n} /\ budgets'[n] = h[p].bal
        /\ \A a \in DOMAIN budgets : budgets'[a] = budgets[a]
    BY <1>4, <1>13 DEF Put
  <2>3. /\ DOMAIN access' = DOMAIN access \cup {n} /\ access'[n] = c.allow
        /\ \A a \in DOMAIN access : access'[a] = access[a]
    BY <1>6, <1>13 DEF Put
  <2>4. /\ DOMAIN made' = DOMAIN made \cup {n} /\ made'[n] = c.Balance
        /\ \A a \in DOMAIN made : a # n => made'[a] = made[a]
    BY <1>13 DEF Put
  <2>5. /\ promise' \in [Names -> [Members -> {"none", "in", "out"}]]
        /\ \A m \in Members : promise'[n][m] = IF m \in c.allow THEN "in" ELSE "none"
        /\ \A a \in Names : a # n => promise'[a] = promise[a]
    BY <1>3, <1>13 DEF IInv, Typed, TypeOK
  <2>6. Typed'
    <3>1. SlotsOK'
      BY <1>1, <1>7, <1>8, <1>13 DEF IInv, Typed, SlotsOK
    <3>2. meta' \in [DOMAIN meta' -> SUBSET Members]
      BY <1>3, <1>13 DEF IInv, Typed, TypeOK, Put
    <3>3. access' \in [DOMAIN access' -> SUBSET Members]
      BY <1>3, <1>13 DEF IInv, Typed, TypeOK, Put
    <3>4. budgets' \in [DOMAIN budgets' -> Nat] /\ made' \in [DOMAIN made' -> Nat]
      BY <1>3, <1>13 DEF IInv, Typed, Put
    <3>5. /\ DOMAIN meta' \subseteq DOMAIN snapshot'
          /\ DOMAIN budgets' = DOMAIN access' /\ DOMAIN budgets' \subseteq DOMAIN snapshot'
          /\ half' \cup raced' \cup DOMAIN made' \subseteq Names
      BY <1>3, <1>4, <1>7, <1>13, <2>1, <2>2, <2>3, <2>4 DEF IInv, Typed, TypeOK
    <3>6. /\ snapshot' \in [DOMAIN snapshot' -> Nat] /\ DOMAIN snapshot' \subseteq Names
          /\ daemon' \in {"down", "boot", "up"}
          /\ osGroups' \in [Users -> SUBSET Groups] /\ had' \in [Users -> SUBSET Groups]
      BY <1>7, <1>13 DEF IInv, Typed, TypeOK
    <3> QED
      BY <2>5, <3>1, <3>2, <3>3, <3>4, <3>5, <3>6 DEF Typed, TypeOK
  <2>7. Mirrors'
    <3>1. DOMAIN meta' \subseteq DOMAIN budgets'
      BY <1>5, <2>1, <2>2 DEF IInv, Mirrors
    <3>2. \A a \in DOMAIN budgets' : budgets'[a] = snapshot'[a]
      BY <1>4, <1>5, <1>7, <2>2 DEF IInv, Mirrors
    <3>3. \A a \in DOMAIN budgets' :
            access'[a] = IF a \in DOMAIN meta' THEN meta'[a] ELSE {}
      BY <1>4, <1>5, <1>6, <2>1, <2>2, <2>3 DEF IInv, Mirrors, Typed, TypeOK
    <3> QED
      BY <3>1, <3>2, <3>3 DEF Mirrors
  <2>8. Files'
    <3>1. \A a \in DOMAIN snapshot' \ DOMAIN meta' : a \in half'
      BY <1>4, <1>7, <1>13, <2>1 DEF IInv, Files
    <3>2. DOMAIN made' \subseteq DOMAIN meta'
      BY <2>1, <2>4 DEF IInv, Files
    <3>3. \A a \in DOMAIN made' \ half' : made'[a] = snapshot'[a]
      BY <1>4, <1>7, <1>13, <2>4 DEF IInv, Files
    <3> QED
      BY <3>1, <3>2, <3>3 DEF Files
  <2>9. Configured'
    BY <1>13, <2>2 DEF IInv, Configured
  <2>10. Attaching'
    BY <1>7, <1>12, <2>3, AttachFrame
  <2>11. Promised'
    <3> SUFFICES ASSUME NEW a \in Names \ raced', NEW m \in Members
                 PROVE  /\ promise'[a][m] = "out" => a \in DOMAIN meta' /\ m \notin meta'[a]
                        /\ promise'[a][m] = "in" =>
                             (a \in DOMAIN meta' /\ m \in meta'[a]) \/ Pending(a, m)'
      BY DEF Promised
    <3>1. CASE a = n
      BY <2>1, <2>5, <3>1
    <3>2. CASE a # n
      <4>1. promise'[a] = promise[a] /\ a \in Names \ raced
        BY <1>7, <2>5, <3>2
      <4>2. ASSUME Pending(a, m) PROVE Pending(a, m)'
        <5>1. PICK i \in 1 .. Len(Config) :
               /\ Config[i].Name = a /\ m \in Config[i].allow
               /\ a \in DOMAIN snapshot => h[Main].op = "meta" /\ h[Main].c = Config[i]
          BY <4>2 DEF Pending
        <5>2. a \notin DOMAIN snapshot
          BY <1>1, <1>4, <3>2, <5>1
        <5> QED
          BY <1>7, <1>13, <2>1, <3>2, <4>2, <5>1, <5>2 DEF Pending
      <4> QED
        BY <2>1, <3>2, <4>1, <4>2 DEF IInv, Promised
    <3> QED
      BY <3>1, <3>2
  <2> QED
    BY <1>10, <1>11, <2>6, <2>7, <2>8, <2>9, <2>10, <2>11 DEF IInv
<1>14. CASE /\ Cut({p})
            /\ daemon' = IF p = Main THEN "down" ELSE daemon
            /\ UNCHANGED <<meta, memory, made>>
  <2>1. /\ half' = half \cup {n}
        /\ promise' = [a \in Names |-> IF a = n THEN [m \in Members |-> "none"]
                                       ELSE promise[a]]
    <3>1. {h[q].c.Name : q \in {r \in {p} : h[r].op = "meta"}} = {n}
      BY <1>2
    <3> QED
      BY <1>14, <3>1 DEF Cut
  <2>2. /\ promise' \in [Names -> [Members -> {"none", "in", "out"}]]
        /\ \A m \in Members : promise'[n][m] = "none"
        /\ \A a \in Names : a # n => promise'[a] = promise[a]
    BY <1>3, <2>1 DEF IInv, Typed, TypeOK
  <2>3. SlotsOK'
    BY <1>1, <1>5, <1>7, <1>8, <1>14 DEF IInv, Typed, SlotsOK
  <2>4. Typed'
    <3>1. half' \subseteq Names /\ daemon' \in {"down", "boot", "up"}
      BY <1>3, <1>5, <1>14, <2>1 DEF IInv, Typed, TypeOK
    <3> QED
      BY <1>7, <1>14, <2>2, <2>3, <3>1 DEF IInv, Typed, TypeOK, memory
  <2>5. Mirrors' /\ Configured'
    BY <1>5, <1>7, <1>14 DEF IInv, Mirrors, Configured, memory
  <2>6. Files'
    BY <1>4, <1>7, <1>14, <2>1 DEF IInv, Files
  <2>7. Attaching'
    BY <1>7, <1>12, <1>14, AttachFrame DEF memory
  <2>8. Promised'
    <3> SUFFICES ASSUME NEW a \in Names \ raced', NEW m \in Members, a # n
                 PROVE  /\ promise'[a][m] = "out" => a \in DOMAIN meta' /\ m \notin meta'[a]
                        /\ promise'[a][m] = "in" =>
                             (a \in DOMAIN meta' /\ m \in meta'[a]) \/ Pending(a, m)'
      BY <2>2 DEF Promised
    <3>1. promise'[a] = promise[a] /\ a \in Names \ raced
      BY <1>7, <2>2
    <3>2. ASSUME Pending(a, m) PROVE Pending(a, m)'
      <4>1. PICK i \in 1 .. Len(Config) :
               /\ Config[i].Name = a /\ m \in Config[i].allow
               /\ a \in DOMAIN snapshot => h[Main].op = "meta" /\ h[Main].c = Config[i]
        BY <3>2 DEF Pending
      <4>2. a \notin DOMAIN snapshot
        BY <1>1, <1>4, <4>1
      <4> QED
        BY <1>7, <1>14, <2>1, <3>2, <4>1, <4>2 DEF Pending
    <3> QED
      BY <1>14, <3>1, <3>2 DEF IInv, Promised
  <2> QED
    BY <1>10, <1>11, <2>4, <2>5, <2>6, <2>7, <2>8 DEF IInv
<1> QED
  BY <1>13, <1>14 DEF createMeta, writeAccountMeta

(* ATTACH reads the list.  A second attach on the account marks it.        *)
LEMMA AttachIInv ==
  ASSUME IInv, NEW p \in Handlers, NEW u \in Users \cup {Root, Remote}, NEW a,
         NEW m \in Members, NEW detach \in BOOLEAN,
         handleAttach(p, u, a, m, detach)
  PROVE  IInv'
<1>1. PICK ok \in Lookups :
        /\ lookup(u, ok, requireAdmin(u, ok).looked)
        /\ IF requireAdmin(u, ok).allow /\ a \in DOMAIN access
           THEN /\ Busy(p, [op |-> "set", a |-> a, m |-> m, detach |-> detach,
                            list |-> IF detach THEN removeAll(access[a], {m})
                                     ELSE addAll(access[a], {m})])
                /\ raced' = IF \E q \in Handlers : h[q].op = "set" /\ h[q].a = a
                            THEN raced \cup {a} ELSE raced
           ELSE UNCHANGED <<h, raced>>
  BY DEF handleAttach
<1>2. requireAdmin(u, ok).looked => u \in Users
  BY DEF requireAdmin
<1>3. /\ UNCHANGED <<snapshot, meta, daemon, budgets, access, osGroups, promise,
                     made, half, had>>
      /\ daemon = "up" /\ h[p] = Idle /\ Unlocked
  BY DEF handleAttach, disk, memory
<1>4. Cached'
  BY <1>1, <1>2, <1>3, LookupCached
<1>5. /\ DOMAIN h = Handlers \cup {Main} /\ Main \notin Handlers
      /\ h \in [Handlers \cup {Main} -> Slot]
  BY AccountsAssumption DEF IInv, Typed, SlotsOK, Main
<1>6. h[p].op = "idle" /\ Idle.op = "idle" /\ Idle \in Slot
  BY <1>3, SlotIntro DEF Idle
<1>7. CASE UNCHANGED <<h, raced>>
  <2>1. h' = [h EXCEPT ![p] = Idle]
    BY <1>3, <1>5, <1>7
  <2> QED
    BY <1>3, <1>4, <1>6, <1>7, <2>1, HandlerStep DEF disk, memory, history
<1>8. CASE requireAdmin(u, ok).allow /\ a \in DOMAIN access
  <2> DEFINE list == IF detach THEN removeAll(access[a], {m}) ELSE addAll(access[a], {m})
             g == [op |-> "set", a |-> a, m |-> m, detach |-> detach, list |-> list]
  <2>1. /\ h' = [h EXCEPT ![p] = g]
        /\ raced' = IF \E q \in Handlers : h[q].op = "set" /\ h[q].a = a
                    THEN raced \cup {a} ELSE raced
    BY <1>1, <1>8 DEF Busy
  <2>2. a \in Names /\ list \in SUBSET Members
    BY <1>8 DEF IInv, Typed, TypeOK, removeAll, addAll
  <2>3. /\ g \in Slot /\ g.op = "set" /\ g.a = a /\ g.m = m /\ g.detach = detach
        /\ g.list = list
    BY <2>2, SlotIntro
  <2> HIDE DEF g
  <2>4. /\ DOMAIN h' = DOMAIN h /\ h'[p] = g /\ h' \in [Handlers \cup {Main} -> Slot]
        /\ \A q \in DOMAIN h : q # p => h'[q] = h[q]
    BY <1>5, <2>1, <2>3
  <2>5. raced \subseteq raced' /\ raced' \subseteq raced \cup {a}
    BY <2>1
  <2>6. SlotsOK'
    BY <1>3, <1>5, <2>4 DEF IInv, Typed, SlotsOK
  <2>7. Typed'
    BY <1>3, <2>2, <2>5, <2>6 DEF IInv, Typed, TypeOK
  <2>8. \A q \in DOMAIN h : h[q].op # "meta" /\ h'[q].op # "meta"
    BY <1>3, <2>3, <2>4 DEF Unlocked
  <2>9. Creating'
    BY <1>5, <2>4, <2>8 DEF Creating
  <2>10. Mirrors' /\ Configured'
    BY <1>3 DEF IInv, Mirrors, Configured
  <2>11. Files'
    BY <1>3, <2>8 DEF IInv, Files
  <2>12. Attaching'
    <3> SUFFICES ASSUME NEW q \in Handlers, h'[q].op = "set"
                 PROVE  /\ h'[q].a \in DOMAIN access
                        /\ h'[q].a \notin raced' =>
                             h'[q].list = IF h'[q].detach
                                          THEN removeAll(access[h'[q].a], {h'[q].m})
                                          ELSE addAll(access[h'[q].a], {h'[q].m})
                        /\ \A r \in Handlers :
                             (h'[r].op = "set" /\ h'[r].a = h'[q].a /\ r # q)
                               => h'[q].a \in raced'
      BY <1>3 DEF Attaching
    <3>1. CASE q = p
      <4>1. h'[q].a = a /\ h'[q].list = list /\ h'[q].detach = detach /\ h'[q].m = m
        BY <2>3, <2>4, <3>1
      <4>2. \A r \in Handlers : h'[r].op = "set" /\ h'[r].a = a /\ r # q => a \in raced'
        BY <1>5, <2>1, <2>4, <3>1
      <4> QED
        BY <1>8, <4>1, <4>2
    <3>2. CASE q # p
      <4>1. h'[q] = h[q]
        BY <1>5, <2>4, <3>2
      <4>2. \A r \in Handlers :
              (h'[r].op = "set" /\ h'[r].a = h'[q].a /\ r # q) => h'[q].a \in raced'
        <5> SUFFICES ASSUME NEW r \in Handlers, h'[r].op = "set",
                            h'[r].a = h[q].a, r # q
                     PROVE  h[q].a \in raced'
          BY <4>1
        <5>1. CASE r = p
          BY <2>1, <2>3, <2>4, <4>1, <5>1
        <5>2. CASE r # p
          BY <1>5, <2>4, <2>5, <4>1, <5>2 DEF IInv, Attaching
        <5> QED
          BY <5>1, <5>2
      <4>3. /\ h[q].a \in DOMAIN access
            /\ h[q].a \notin raced =>
                 h[q].list = IF h[q].detach THEN removeAll(access[h[q].a], {h[q].m})
                             ELSE addAll(access[h[q].a], {h[q].m})
        BY <4>1 DEF IInv, Attaching
      <4> QED
        BY <2>5, <4>1, <4>2, <4>3
    <3> QED
      BY <3>1, <3>2
  <2>13. Promised'
    <3>1. h'[Main] = h[Main]
      BY <1>5, <2>4
    <3>2. \A b \in Names \ raced', k \in Members : Pending(b, k) => Pending(b, k)'
      BY <1>3, <3>1 DEF Pending
    <3> QED
      BY <1>3, <2>5, <3>2 DEF IInv, Promised
  <2> QED
    BY <1>4, <2>7, <2>9, <2>10, <2>11, <2>12, <2>13 DEF IInv
<1> QED
  BY <1>1, <1>7, <1>8

(* While the daemon serves, nothing is pending.                            *)
LEMMA NothingPending ==
  ASSUME IInv, daemon = "up", NEW a, NEW m
  PROVE  ~Pending(a, m)
<1> SUFFICES ASSUME Pending(a, m) PROVE FALSE
  OBVIOUS
<1>1. PICK i \in 1 .. Len(Config) :
        /\ Config[i].Name = a
        /\ a \in DOMAIN snapshot => h[Main].op = "meta"
  BY DEF Pending
<1>2. a \in DOMAIN snapshot
  BY <1>1 DEF IInv, Configured, Typed, TypeOK
<1> QED
  BY <1>1, <1>2 DEF IInv, Typed, SlotsOK, Idle

(* ATTACH puts the list in place.                                          *)
LEMMA SetAccessIInv ==
  ASSUME IInv, NEW p \in Handlers, SetAccess(p)
  PROVE  IInv'
<1> DEFINE g == h[p]
<1>1. /\ DOMAIN h = Handlers \cup {Main} /\ Main \notin Handlers
      /\ h \in [Handlers \cup {Main} -> Slot]
  BY AccountsAssumption DEF IInv, Typed, SlotsOK, Main
<1>2. g.op = "set" /\ Unlocked
  BY DEF SetAccess
<1>3. /\ g.a \in Names /\ g.m \in Members /\ g.detach \in BOOLEAN
      /\ g.list \in SUBSET Members
  BY <1>1, <1>2, SlotFacts
<1>4. daemon = "up"
  BY <1>2 DEF IInv, Typed, SlotsOK, Idle
<1>5. /\ h' = [h EXCEPT ![p] = Idle]
      /\ UNCHANGED <<snapshot, daemon, budgets, cache, osGroups, made, half, raced, had>>
  BY DEF SetAccess, Busy
<1>6. /\ DOMAIN h' = DOMAIN h /\ h'[p] = Idle
      /\ \A q \in DOMAIN h : q # p => h'[q] = h[q]
      /\ h' \in [Handlers \cup {Main} -> Slot]
      /\ Idle.op = "idle" /\ Idle \in Slot
  BY <1>1, <1>5, SlotIntro DEF Idle
<1>7. Cached'
  BY <1>5 DEF IInv, Cached
<1>8. CASE UNCHANGED <<meta, access, promise>>
  BY <1>2, <1>4, <1>5, <1>6, <1>7, <1>8, HandlerStep DEF disk, memory, history
<1>9. CASE /\ meta' = Put(meta, g.a, g.list)
           /\ access' = [access EXCEPT ![g.a] = g.list]
           /\ promise' = [promise EXCEPT ![g.a][g.m] = IF g.detach THEN "out" ELSE "in"]
  <2>1. g.a \in DOMAIN access /\ g.a \in DOMAIN budgets /\ g.a \in DOMAIN snapshot
    BY <1>2 DEF IInv, Attaching, Typed, TypeOK
  <2>2. /\ DOMAIN meta' = DOMAIN meta \cup {g.a} /\ meta'[g.a] = g.list
        /\ \A a \in DOMAIN meta : a # g.a => meta'[a] = meta[a]
        /\ meta' \in [DOMAIN meta' -> SUBSET Members]
    BY <1>3, <1>9 DEF Put, IInv, Typed, TypeOK
  <2>3. /\ DOMAIN access' = DOMAIN access /\ access'[g.a] = g.list
        /\ \A a \in DOMAIN access : a # g.a => access'[a] = access[a]
        /\ access' \in [DOMAIN access' -> SUBSET Members]
    BY <1>3, <1>9, <2>1 DEF IInv, Typed, TypeOK
  <2>4. /\ promise' \in [Names -> [Members -> {"none", "in", "out"}]]
        /\ \A a \in Names : a # g.a => promise'[a] = promise[a]
        /\ promise'[g.a][g.m] = IF g.detach THEN "out" ELSE "in"
        /\ \A m \in Members : m # g.m => promise'[g.a][m] = promise[g.a][m]
    BY <1>3, <1>9 DEF IInv, Typed, TypeOK
  <2>5. Typed'
    <3>1. SlotsOK'
      BY <1>1, <1>4, <1>5, <1>6 DEF IInv, Typed, SlotsOK
    <3>2. DOMAIN meta' \subseteq DOMAIN snapshot'
      BY <1>5, <2>1, <2>2 DEF IInv, Typed, TypeOK
    <3> QED
      BY <1>5, <2>2, <2>3, <2>4, <3>1, <3>2 DEF IInv, Typed, TypeOK
  <2>6. \A q \in DOMAIN h : h[q].op # "meta" /\ h'[q].op # "meta"
    BY <1>2, <1>6 DEF Unlocked
  <2>7. Creating'
    BY <1>1, <1>6, <2>6 DEF Creating
  <2>8. Mirrors'
    BY <1>4, <1>5, <2>1, <2>2, <2>3 DEF IInv, Mirrors, Typed, TypeOK
  <2>9. Files'
    BY <1>5, <2>2, <2>6 DEF IInv, Files
  <2>10. Configured'
    BY <1>5 DEF IInv, Configured
  <2>11. Attaching'
    <3> SUFFICES ASSUME NEW q \in Handlers, h'[q].op = "set"
                 PROVE  /\ h'[q].a \in DOMAIN access'
                        /\ h'[q].a \notin raced' =>
                             h'[q].list = IF h'[q].detach
                                          THEN removeAll(access'[h'[q].a], {h'[q].m})
                                          ELSE addAll(access'[h'[q].a], {h'[q].m})
                        /\ \A r \in Handlers :
                             (h'[r].op = "set" /\ h'[r].a = h'[q].a /\ r # q)
                               => h'[q].a \in raced'
      BY DEF Attaching
    <3>1. q # p /\ h'[q] = h[q]
      BY <1>1, <1>6
    <3>2. /\ h[q].a \in DOMAIN access
          /\ h[q].a \notin raced =>
               h[q].list = IF h[q].detach THEN removeAll(access[h[q].a], {h[q].m})
                           ELSE addAll(access[h[q].a], {h[q].m})
          /\ \A r \in Handlers :
               (h[r].op = "set" /\ h[r].a = h[q].a /\ r # q) => h[q].a \in raced
      BY <3>1 DEF IInv, Attaching
    <3>3. \A r \in Handlers : h'[r].op = "set" => h'[r] = h[r]
      BY <1>1, <1>6
    <3>4. h[q].a = g.a => h[q].a \in raced
      BY <1>2, <3>1, <3>2
    <3> QED
      BY <1>5, <2>3, <3>1, <3>2, <3>3, <3>4
  <2>12. Promised'
    <3> SUFFICES ASSUME NEW a \in Names \ raced, NEW m \in Members
                 PROVE  /\ promise'[a][m] = "out" => a \in DOMAIN meta' /\ m \notin meta'[a]
                        /\ promise'[a][m] = "in" => a \in DOMAIN meta' /\ m \in meta'[a]
      BY <1>5 DEF Promised
    <3>1. /\ promise[a][m] = "out" => a \in DOMAIN meta /\ m \notin meta[a]
          /\ promise[a][m] = "in" => a \in DOMAIN meta /\ m \in meta[a]
      BY <1>4, NothingPending DEF IInv, Promised
    <3>2. CASE a # g.a
      BY <2>2, <2>4, <3>1, <3>2
    <3>3. CASE a = g.a
      <4>1. g.list = IF g.detach THEN removeAll(access[a], {g.m})
                     ELSE addAll(access[a], {g.m})
        BY <1>2, <3>3 DEF IInv, Attaching
      <4>2. access[a] = IF a \in DOMAIN meta THEN meta[a] ELSE {}
        BY <1>4, <2>1, <3>3 DEF IInv, Mirrors
      <4>3. CASE m = g.m
        BY <2>2, <2>4, <3>3, <4>1, <4>3, <1>3 DEF removeAll, addAll
      <4>4. CASE m # g.m
        BY <2>2, <2>4, <3>1, <3>3, <4>1, <4>2, <4>4 DEF removeAll, addAll
      <4> QED
        BY <4>3, <4>4
    <3> QED
      BY <3>2, <3>3
  <2> QED
    BY <1>7, <2>5, <2>7, <2>8, <2>9, <2>10, <2>11, <2>12 DEF IInv
<1> QED
  BY <1>8, <1>9 DEF SetAccess, writeAccountMeta

-----------------------------------------------------------------------------
(* Start and stop.  A step that leaves the disk and the history alone      *)
(* keeps what the files say of it.                                         *)
LEMMA DiscoverIInv ==
  ASSUME IInv, discover
  PROVE  IInv'
<1>1. /\ daemon = "down" /\ daemon' = "boot"
      /\ budgets' = snapshot
      /\ access' = [a \in DOMAIN snapshot |-> IF a \in DOMAIN meta THEN meta[a] ELSE {}]
      /\ UNCHANGED <<snapshot, meta, cache, osGroups, h, promise, made, half, raced, had>>
  BY DEF discover, readAccountMeta, disk, history
<1>2. \A p \in DOMAIN h : h[p] = Idle /\ h[p].op = "idle"
  BY <1>1 DEF IInv, Typed, SlotsOK, Idle
<1>3. SlotsOK'
  BY <1>1 DEF IInv, Typed, SlotsOK
<1>4. Typed'
  BY <1>1, <1>3 DEF IInv, Typed, TypeOK
<1>5. Creating'
  BY <1>1, <1>2 DEF IInv, Typed, SlotsOK, Creating
<1>6. Mirrors' /\ Configured'
  BY <1>1 DEF IInv, Typed, TypeOK, Mirrors, Configured
<1>7. Files'
  BY <1>1 DEF IInv, Files
<1>8. Attaching'
  BY <1>1, <1>2 DEF IInv, Typed, SlotsOK, Attaching
<1>9. Promised'
  BY <1>1 DEF IInv, Promised, Pending
<1>10. Cached'
  BY <1>1 DEF IInv, Cached
<1> QED
  BY <1>4, <1>5, <1>6, <1>7, <1>8, <1>9, <1>10 DEF IInv

(* The daemon starting to serve keeps the invariant.                       *)
LEMMA ServeIInv ==
  ASSUME IInv, Serve
  PROVE  IInv'
<1>1. /\ daemon = "boot" /\ daemon' = "up" /\ h[Main] = Idle
      /\ had' = osGroups /\ Missing = {}
      /\ UNCHANGED <<snapshot, meta, budgets, access, cache, osGroups, h, promise,
                     made, half, raced>>
  BY DEF Serve, disk, memory, history
<1>2. SlotsOK'
  BY <1>1 DEF IInv, Typed, SlotsOK
<1>3. Typed'
  BY <1>1, <1>2 DEF IInv, Typed, TypeOK
<1>4. Creating'
  BY <1>1 DEF IInv, Creating
<1>5. Mirrors'
  BY <1>1 DEF IInv, Mirrors
<1>6. Configured'
  BY <1>1 DEF Missing, Configured
<1>7. Files'
  BY <1>1 DEF IInv, Files
<1>8. Attaching'
  BY <1>1 DEF IInv, Attaching
<1>9. Promised'
  BY <1>1 DEF IInv, Promised, Pending
<1>10. Cached'
  BY <1>1 DEF IInv, Typed, SlotsOK, Cached
<1> QED
  BY <1>3, <1>4, <1>5, <1>6, <1>7, <1>8, <1>9, <1>10 DEF IInv

(* A kill loses what was in memory and keeps the invariant.                *)
LEMMA KillIInv ==
  ASSUME IInv, Kill
  PROVE  IInv'
<1> DEFINE cut == {h[p].c.Name : p \in {q \in DOMAIN h : h[q].op = "meta"}}
<1>1. /\ daemon' = "down" /\ daemon # "down"
      /\ budgets' = Empty /\ access' = Empty /\ cache' = Empty
      /\ h' = [p \in DOMAIN h |-> Idle]
      /\ UNCHANGED <<snapshot, meta, osGroups, made, raced, had>>
      /\ half' = half \cup cut
      /\ promise' = [a \in Names |-> IF a \in cut THEN [m \in Members |-> "none"]
                                     ELSE promise[a]]
  BY DEF Kill, disk, Cut
<1>2. /\ DOMAIN h = Handlers \cup {Main} /\ Main \notin Handlers
      /\ h \in [Handlers \cup {Main} -> Slot]
  BY AccountsAssumption DEF IInv, Typed, SlotsOK, Main
<1>3. /\ DOMAIN h' = DOMAIN h
      /\ \A p \in DOMAIN h : h'[p] = Idle /\ h'[p].op = "idle"
      /\ h' \in [Handlers \cup {Main} -> Slot]
  BY <1>1, <1>2, SlotIntro DEF Idle
<1>4. \A p \in DOMAIN h : h[p].op = "meta" => h[p].c.Name \in cut
  OBVIOUS
<1>5. cut \subseteq Names
  <2>1. \A p \in DOMAIN h : h[p].op = "meta" => h[p].c.Name \in DOMAIN snapshot
    BY DEF IInv, Creating
  <2> QED
    BY <2>1 DEF IInv, Typed, TypeOK
<1> HIDE DEF cut
<1>6. SlotsOK'
  BY <1>1, <1>2, <1>3 DEF SlotsOK, Empty
<1>7. promise' \in [Names -> [Members -> {"none", "in", "out"}]]
  BY <1>1 DEF IInv, Typed, TypeOK
<1>8. Typed'
  BY <1>1, <1>5, <1>6, <1>7 DEF IInv, Typed, TypeOK, Empty
<1>9. Creating' /\ Attaching'
  BY <1>2, <1>3 DEF Creating, Attaching
<1>10. Mirrors' /\ Configured'
  BY <1>1 DEF Mirrors, Configured
<1>11. Files'
  BY <1>1, <1>4 DEF IInv, Files
<1>12. Promised'
  <2> SUFFICES ASSUME NEW a \in Names \ raced, NEW m \in Members, a \notin cut
               PROVE  /\ promise[a][m] = "out" => a \in DOMAIN meta' /\ m \notin meta'[a]
                      /\ promise[a][m] = "in" =>
                           (a \in DOMAIN meta' /\ m \in meta'[a]) \/ Pending(a, m)'
    BY <1>1 DEF Promised
  <2>1. ASSUME Pending(a, m) PROVE Pending(a, m)'
    BY <1>1, <1>2, <1>4, <2>1 DEF Pending
  <2> QED
    BY <1>1, <2>1 DEF IInv, Promised
<1>13. Cached'
  BY <1>1 DEF IInv, Cached, Empty
<1> QED
  BY <1>8, <1>9, <1>10, <1>11, <1>12, <1>13 DEF IInv

(* A change of groups in the OS keeps the invariant.                       *)
LEMMA GroupChangeIInv ==
  ASSUME IInv, NEW u \in Users, GroupChange(u)
  PROVE  IInv'
<1>1. PICK gs \in SUBSET Groups :
        /\ osGroups' = [osGroups EXCEPT ![u] = gs]
        /\ had' = [had EXCEPT ![u] = @ \cup gs]
  BY DEF GroupChange
<1>2. UNCHANGED <<snapshot, meta, daemon, budgets, access, cache, h, promise, made,
                  half, raced>>
  BY DEF GroupChange, disk, memory, history
<1>3. Typed'
  BY <1>1, <1>2 DEF IInv, Typed, TypeOK, SlotsOK
<1>4. Cached'
  BY <1>1, <1>2 DEF IInv, Typed, TypeOK, Cached
<1>5. Creating'
  BY <1>2 DEF IInv, Creating
<1>6. Mirrors' /\ Configured' /\ Files'
  BY <1>2 DEF IInv, Mirrors, Configured, Files
<1>7. Attaching'
  BY <1>2 DEF IInv, Attaching
<1>8. Promised'
  BY <1>2 DEF IInv, Promised, Pending
<1> QED
  BY <1>3, <1>4, <1>5, <1>6, <1>7, <1>8 DEF IInv

(* A stuttering step keeps the invariant.                                  *)
LEMMA StutterIInv ==
  ASSUME IInv, UNCHANGED vars
  PROVE  IInv'
<1>1. UNCHANGED <<snapshot, meta, daemon, budgets, access, cache, osGroups, h,
                  promise, made, half, raced, had>>
  BY DEF vars, disk, memory, history
<1>2. Typed'
  BY <1>1 DEF IInv, Typed, TypeOK, SlotsOK
<1>3. Creating' /\ Cached'
  BY <1>1 DEF IInv, Creating, Cached
<1>4. Mirrors' /\ Configured' /\ Files'
  BY <1>1 DEF IInv, Mirrors, Configured, Files
<1>5. Attaching'
  BY <1>1 DEF IInv, Attaching
<1>6. Promised'
  BY <1>1 DEF IInv, Promised, Pending
<1> QED
  BY <1>2, <1>3, <1>4, <1>5, <1>6 DEF IInv

-----------------------------------------------------------------------------
(* Every step keeps the invariant.                                         *)
LEMMA NextIInv == IInv /\ [Next]_vars => IInv'
<1> SUFFICES ASSUME IInv, [Next]_vars PROVE IInv'
  OBVIOUS
<1>1. ASSUME NEW p \in Handlers, NEW u \in Users, NEW a \in Names, handleGate(p, u, a)
      PROVE  IInv'
  <2>1. PICK b \in Resolve(a) : dispatch(p, "gate", u, a, b)
    BY <1>1 DEF handleGate
  <2>2. [op |-> "gate", u |-> u, a |-> a, b |-> b] \in Slot
    BY ResolveFacts, SlotIntro
  <2> QED
    BY <2>1, <2>2, DispatchIInv
<1>2. ASSUME NEW p \in Handlers, NEW u \in Users \cup {Remote}, NEW a \in Names,
             handleStatus(p, u, a)
      PROVE  IInv'
  <2>1. PICK b \in Resolve(a) : dispatch(p, "read", u, a, b)
    BY <1>2 DEF handleStatus
  <2>2. [op |-> "read", u |-> u, a |-> a, b |-> b] \in Slot
    BY ResolveFacts, SlotIntro
  <2> QED
    BY <2>1, <2>2, DispatchIInv
<1>3. ASSUME NEW p \in Handlers, NEW u \in Users \cup {Remote}, handleTopUp(p, u)
      PROVE  IInv'
  <2>1. dispatch(p, "admin", u, Default, Default)
    BY <1>3 DEF handleTopUp
  <2>2. u \in Users
    BY <2>1 DEF dispatch, dispatchTransport, isAdminKind
  <2> QED
    BY <2>1, <2>2, SlotIntro, DispatchIInv
<1>4. ASSUME NEW p \in Handlers, NEW u \in Users \cup {Root, Remote},
             NEW c \in CreateReqs, handleCreate(p, u, c)
      PROVE  IInv'
  BY <1>4, CreateIInv
<1>5. ASSUME NEW p \in Handlers, NEW u \in Users \cup {Root, Remote},
             NEW a \in AttachNames, NEW m \in Members, NEW detach \in BOOLEAN,
             handleAttach(p, u, a, m, detach)
      PROVE  IInv'
  BY <1>5, AttachIInv
<1>6. ASSUME NEW p \in Handlers, admit(p) \/ refuse(p)
      PROVE  IInv'
  BY <1>6, CheckIInv DEF admit, refuse
<1>7. ASSUME NEW p \in Handlers, SetAccess(p)
      PROVE  IInv'
  BY <1>7, SetAccessIInv
<1>8. ASSUME NEW p \in DOMAIN h, createMeta(p)
      PROVE  IInv'
  BY <1>8, CreateMetaIInv
<1>9. CASE discover
  BY <1>9, DiscoverIInv
<1>10. CASE bootstrap
  BY <1>10, BootstrapIInv
<1>11. CASE Serve
  BY <1>11, ServeIInv
<1>12. CASE Kill
  BY <1>12, KillIInv
<1>13. ASSUME NEW u \in Users, GroupChange(u)
       PROVE  IInv'
  BY <1>13, GroupChangeIInv
<1>14. CASE UNCHANGED vars
  BY <1>14, StutterIInv
<1> QED
  BY <1>1, <1>2, <1>3, <1>4, <1>5, <1>6, <1>7, <1>8, <1>9, <1>10, <1>11, <1>12,
     <1>13, <1>14 DEF Next

(* The inductive invariant of the account registry.                        *)
LEMMA Invariant == Spec => []IInv
  BY InitIInv, NextIInv, PTL DEF Spec

(* Types; and every account the registry knows has its snapshot.           *)
THEOREM TypeCorrect == Spec => []TypeOK
<1>1. IInv => TypeOK
  BY DEF IInv, Typed
<1> QED
  BY <1>1, Invariant, PTL

(* A creation that was acknowledged is there, with its balance, whenever   *)
(* the daemon serves: over kills, restarts and failed writes at any step   *)
(* (registry.go, create and NewRegistry).                                  *)
THEOREM CreationsKept == Spec => []CreatedKept
<1>1. IInv => CreatedKept
  <2> SUFFICES ASSUME IInv, daemon = "up", NEW a \in DOMAIN made
               PROVE  a \in DOMAIN budgets /\ (a \notin half => budgets[a] = made[a])
    BY DEF CreatedKept
  <2> QED
    BY DEF IInv, Files, Mirrors
<1> QED
  BY <1>1, Invariant, PTL

(* Every list says of every member what the last accepted request or the   *)
(* configuration said (accountmeta.go), where no two attaches overlapped.  *)
THEOREM ListsKept == Spec => []AccessKept
<1>1. IInv => AccessKept
  <2> SUFFICES ASSUME IInv, daemon = "up", NEW a \in Names \ raced, NEW m \in Members
               PROVE  /\ promise[a][m] = "in" => a \in DOMAIN access /\ m \in access[a]
                      /\ (promise[a][m] = "out" /\ a \in DOMAIN access) => m \notin access[a]
    BY DEF AccessKept
  <2>1. ~Pending(a, m)
    BY NothingPending
  <2>2. a \in DOMAIN meta => a \in DOMAIN access /\ access[a] = meta[a]
    BY DEF IInv, Mirrors, Typed, TypeOK
  <2> QED
    BY <2>1, <2>2 DEF IInv, Promised
<1> QED
  BY <1>1, Invariant, PTL

(* What a request resolved to stays registered until it is answered: an    *)
(* account goes only with the daemon, and its requests with it.            *)
Resolved ==
  \A p \in Handlers : h[p].op \in {"gate", "read"} => h[p].b \in DOMAIN access

(* A request taken in hand has resolved to a registered account.           *)
LEMMA ResolvedDispatch ==
  ASSUME IInv, Resolved, NEW p \in Handlers, NEW verb, NEW u, NEW a, NEW b,
         dispatch(p, verb, u, a, b),
         verb \in {"gate", "read"} => b \in DOMAIN access
  PROVE  Resolved'
<1>1. h' = [h EXCEPT ![p] = [op |-> verb, u |-> u, a |-> a, b |-> b]]
      /\ access' = access
  BY DEF dispatch, Busy, memory
<1>2. DOMAIN h = Handlers \cup {Main}
  BY DEF IInv, Typed, SlotsOK
<1>3. ASSUME NEW q \in Handlers, h'[q].op \in {"gate", "read"}
      PROVE  h'[q].b \in DOMAIN access
  BY <1>1, <1>2, <1>3 DEF Resolved
<1> QED
  BY <1>1, <1>3 DEF Resolved

(* So does every step that takes no request in hand and drops no account.  *)
LEMMA ResolvedStay ==
  ASSUME IInv, Resolved, NEW p \in DOMAIN h, NEW g,
         g.op \notin {"gate", "read"}, h' = [h EXCEPT ![p] = g],
         DOMAIN access \subseteq DOMAIN access'
  PROVE  Resolved'
<1>1. DOMAIN h = Handlers \cup {Main}
  BY DEF IInv, Typed, SlotsOK
<1>2. ASSUME NEW q \in Handlers, h'[q].op \in {"gate", "read"}
      PROVE  h'[q].b \in DOMAIN access
  BY <1>1, <1>2 DEF Resolved
<1> QED
  BY <1>2 DEF Resolved

(* Every step keeps it.                                                    *)
LEMMA ResolvedNext == IInv /\ Resolved /\ [Next]_vars => Resolved'
<1> SUFFICES ASSUME IInv, Resolved, [Next]_vars PROVE Resolved'
  OBVIOUS
<1> USE DEF memory
<1>0. /\ Idle.op = "idle" /\ DOMAIN h = Handlers \cup {Main}
      /\ h \in [Handlers \cup {Main} -> Slot]
  BY DEF Idle, IInv, Typed, SlotsOK
<1>1. ASSUME NEW p \in Handlers, NEW u, NEW a, handleGate(p, u, a)
      PROVE  Resolved'
  BY <1>1, ResolveFacts, ResolvedDispatch DEF handleGate
<1>2. ASSUME NEW p \in Handlers, NEW u, NEW a, handleStatus(p, u, a)
      PROVE  Resolved'
  BY <1>2, ResolveFacts, ResolvedDispatch DEF handleStatus
<1>3. ASSUME NEW p \in Handlers, NEW u, handleTopUp(p, u)
      PROVE  Resolved'
  BY <1>3, ResolvedDispatch DEF handleTopUp
<1>4. ASSUME NEW p \in DOMAIN h, NEW c, openOrNew(p, c), access' = access
      PROVE  Resolved'
  <2>1. ASSUME NEW n, h' = [h EXCEPT ![p] = [op |-> "meta", c |-> c, bal |-> n]]
        PROVE  Resolved'
    BY <1>4, <2>1, ResolvedStay
  <2>2. CASE h' = [h EXCEPT ![p] = Idle]
    BY <1>0, <1>4, <2>2, ResolvedStay
  <2> QED
    BY <1>4, <2>1, <2>2 DEF openOrNew, Busy
<1>5. ASSUME NEW p \in Handlers, NEW u, NEW c, handleCreate(p, u, c)
      PROVE  Resolved'
  <2>1. access' = access /\ (openOrNew(p, c) \/ h' = h)
    BY <1>5 DEF handleCreate
  <2> QED
    BY <1>0, <1>4, <2>1 DEF Resolved
<1>6. ASSUME NEW p \in Handlers, NEW u, NEW a, NEW m, NEW detach,
             handleAttach(p, u, a, m, detach)
      PROVE  Resolved'
  <2>1. access' = access
    BY <1>6 DEF handleAttach
  <2>2. \/ h' = h
        \/ \E l : h' = [h EXCEPT ![p] = [op |-> "set", a |-> a, m |-> m,
                                         detach |-> detach, list |-> l]]
    BY <1>6 DEF handleAttach, Busy
  <2>3. ASSUME NEW l, h' = [h EXCEPT ![p] = [op |-> "set", a |-> a, m |-> m,
                                             detach |-> detach, list |-> l]]
        PROVE  Resolved'
    BY <1>0, <2>1, <2>3, ResolvedStay
  <2> QED
    BY <2>1, <2>2, <2>3 DEF Resolved
<1>7. ASSUME NEW p \in Handlers, admit(p) \/ refuse(p)
      PROVE  Resolved'
  <2>1. h' = [h EXCEPT ![p] = Idle] /\ access' = access
    BY <1>7 DEF admit, refuse, check, Busy
  <2> QED
    BY <1>0, <2>1, ResolvedStay
<1>8. ASSUME NEW p \in Handlers, SetAccess(p)
      PROVE  Resolved'
  <2>1. h' = [h EXCEPT ![p] = Idle] /\ DOMAIN access' = DOMAIN access
    BY <1>8 DEF SetAccess, Busy, IInv, Typed, TypeOK
  <2> QED
    BY <1>0, <2>1, ResolvedStay
<1>9. ASSUME NEW p \in DOMAIN h, createMeta(p)
      PROVE  Resolved'
  <2>1. h' = [h EXCEPT ![p] = Idle] /\ DOMAIN access \subseteq DOMAIN access'
    BY <1>9 DEF createMeta, Busy, Put
  <2> QED
    BY <1>0, <2>1, ResolvedStay
<1>10. CASE discover
  BY <1>0, <1>10 DEF discover, IInv, Typed, SlotsOK, Resolved
<1>11. CASE bootstrap
  BY <1>0, <1>4, <1>11 DEF bootstrap
<1>12. CASE Serve \/ \E u \in Users : GroupChange(u)
  BY <1>12 DEF Serve, GroupChange, Resolved
<1>13. CASE Kill
  BY <1>0, <1>13 DEF Kill, Resolved
<1>14. CASE UNCHANGED vars
  BY <1>14 DEF vars, Resolved
<1> QED
  BY <1>1, <1>2, <1>3, <1>5, <1>6, <1>7, <1>8, <1>9, <1>10, <1>11, <1>12, <1>13,
     <1>14 DEF Next

(* A gate or a read of a budget by its own name, or a change of a budget,  *)
(* is admitted only for whom that budget's list, the admins and the groups *)
(* of this life allow (access.go, authorize, canRead, requireAdmin),       *)
(* whatever the cache holds and however the identity lookup ends.          *)
THEOREM AccessAdmitted == Spec => AccessHonoured
<1> DEFINE list(p) == access[h[p].b]
           had_u(p) == IF h[p].u = Remote THEN {} ELSE had[h[p].u]
           admin(p) == \/ Admins = {} \/ h[p].u \in Admins
                       \/ had_u(p) \cap Admins # {}
           Honoured(p) ==
             \/ h[p].op # "admin" /\ list(p) = {}
             \/ h[p].op # "gate" /\ admin(p)
             \/ h[p].op # "admin" /\ had_u(p) \cap list(p) # {}
             \/ /\ h[p].op # "admin" /\ h[p].u \in list(p)
                /\ h[p].b \notin raced => promise[h[p].b][h[p].u] # "out"
<1>1. ASSUME IInv, Resolved, NEW p \in Handlers, admit(p), h[p].a = h[p].b
      PROVE  Honoured(p)
  <2>1. h[p] \in Slot
    BY <1>1 DEF IInv, Typed, SlotsOK
  <2>2. PICK ok \in Lookups :
          TRUE = (CASE h[p].op = "gate"  -> authorize(h[p].a, h[p].u, ok)
                    [] h[p].op = "read"  -> canRead(h[p].a, h[p].u, ok)
                    [] h[p].op = "admin" -> requireAdmin(h[p].u, ok)).allow
    BY <1>1 DEF admit, check
  <2>3. h[p].op \in {"gate", "read", "admin"}
    BY <1>1 DEF admit, check
  <2>4. daemon = "up"
    BY <1>1, <2>3 DEF IInv, Typed, SlotsOK, Idle
  <2>5. \A u \in Users : Known(u) \subseteq had[u]
    BY <1>1, KnownHad
  <2>6. Remote \notin Users /\ Root \notin Users \cup {Remote}
    BY AccountsAssumption
  <2>7. h[p].op # "admin" /\ h[p].u \in Users /\ h[p].u \in list(p) =>
          (h[p].b \notin raced => promise[h[p].b][h[p].u] # "out")
    <3> SUFFICES ASSUME h[p].op # "admin", h[p].u \in Users, h[p].u \in list(p),
                        h[p].b \notin raced, promise[h[p].b][h[p].u] = "out"
                 PROVE  FALSE
      OBVIOUS
    <3>1. h[p].b \in Names /\ h[p].u \in Members
      BY <2>1, <2>3, SlotFacts DEF Members
    <3>2. h[p].b \in DOMAIN meta /\ h[p].u \notin meta[h[p].b]
      BY <1>1, <3>1 DEF IInv, Promised
    <3>3. h[p].b \in DOMAIN access /\ access[h[p].b] = meta[h[p].b]
      BY <1>1, <2>4, <3>2 DEF IInv, Mirrors, Typed, TypeOK
    <3> QED
      BY <3>2, <3>3
  <2>8. CASE h[p].op = "gate"
    <3>1. h[p].u \in Users
      BY <2>1, <2>8, SlotFacts
    <3>2. authorize(h[p].a, h[p].u, ok).allow = TRUE
      BY <2>2, <2>8
    <3>3. list(p) = {} \/ Listed(list(p), h[p].u)
      BY <1>1, <2>8, <3>2 DEF authorize, restricted, Resolved
    <3> QED
      BY <2>5, <2>6, <2>7, <2>8, <3>1, <3>3 DEF Listed
  <2>9. CASE h[p].op = "read"
    <3>1. h[p].u \in Users \cup {Remote}
      BY <2>1, <2>9, SlotFacts
    <3>2. canRead(h[p].a, h[p].u, ok).allow = TRUE
      BY <2>2, <2>9
    <3>3. \/ Admins = {} \/ list(p) = {}
          \/ h[p].u # Remote /\ Listed(Admins, h[p].u)
          \/ h[p].u # Remote /\ Listed(list(p), h[p].u)
      BY <1>1, <2>6, <2>9, <3>1, <3>2 DEF canRead, requireAdmin, restricted, Resolved
    <3> QED
      BY <2>5, <2>6, <2>7, <2>9, <3>1, <3>3 DEF Listed
  <2>10. CASE h[p].op = "admin"
    <3>1. h[p].u \in Users
      BY <2>1, <2>10, SlotFacts
    <3>2. requireAdmin(h[p].u, ok).allow = TRUE
      BY <2>2, <2>10
    <3>3. Admins = {} \/ Listed(Admins, h[p].u)
      BY <2>6, <3>1, <3>2 DEF requireAdmin
    <3> QED
      BY <2>5, <2>6, <2>10, <3>1, <3>3 DEF Listed
  <2> QED
    BY <2>3, <2>8, <2>9, <2>10
<1>2. IInv /\ Resolved /\ [Next]_vars =>
        [\A p \in Handlers :
           LET g1    == h[p]
               list1 == access[g1.b]
               had_1 == IF g1.u = Remote THEN {} ELSE had[g1.u]
               adm1  == Admins = {} \/ g1.u \in Admins \/ had_1 \cap Admins # {}
           IN  admit(p) /\ g1.a = g1.b =>
                 \/ g1.op # "admin" /\ list1 = {}
                 \/ g1.op # "gate" /\ adm1
                 \/ g1.op # "admin" /\ had_1 \cap list1 # {}
                 \/ /\ g1.op # "admin" /\ g1.u \in list1
                    /\ g1.b \notin raced => promise[g1.b][g1.u] # "out"]_vars
  BY <1>1
<1>3. Init => Resolved
  BY DEF Init, Idle, Resolved
<1> QED
  BY <1>2, <1>3, Invariant, ResolvedNext, PTL DEF Spec, AccessHonoured
=============================================================================
