------------------------------ MODULE Accounts ------------------------------
(***************************************************************************)
(* The account registry and the checks in front of the handlers            *)
(* (registry.go, accountmeta.go, access.go, and server.go's CREATE, ATTACH *)
(* and the checks of its other verbs): which accounts exist, who may use   *)
(* them, and what of both survives a kill or a failed write.               *)
(*                                                                         *)
(* An account is a directory: its budget's snapshot, of which only the     *)
(* opening balance matters here, and account.json with its allow-list.     *)
(* The registry mirrors both in memory under r.mu.  A step is a critical   *)
(* section of r.mu or a lookup; a handler's slot keeps what it has read.   *)
(* A list is a set of users and groups.  Requests are well formed: Create  *)
(* and the configuration's validate (which also refuses an account named   *)
(* twice) refuse the others without a trace.                               *)
(* Opening a budget that is on disk succeeds (Durable).                    *)
(***************************************************************************)
EXTENDS Naturals, Sequences, Functions

CONSTANTS
  Users, Groups,
  Memberships,    \* groups of the users at the start: user -> set of groups
  Root,           \* uid 0, an admin by rule; not one of Users
  Remote,         \* a TCP client with the bearer token and no identity
  Names,          \* account names
  Default,        \* the name of the catch-all account
  Config,         \* the configuration's accounts: <<[Name, Balance, allow]>>
  Admins,         \* admin_users and admin_groups
  CreateReqs,     \* accounts CREATE may ask for
  AttachNames,    \* accounts ATTACH may name
  Handlers,
  IOOutcomes,     \* may a write succeed (TRUE), fail (FALSE)?
  Lookups,        \* may the OS answer a lookup (TRUE), fail (FALSE)?
  MaxRequests,    \* bound on CREATE and ATTACH requests
  MaxKills, MaxChanges

Members == Users \cup Groups

AccountConfig == [Name : Names, Balance : Nat, allow : SUBSET Members]

ASSUME AccountsAssumption ==
  /\ Memberships \subseteq [Users -> SUBSET Groups]
  /\ {Root, Remote} \cap Users = {} /\ Root # Remote
  /\ Config \in Seq(AccountConfig)
  /\ \A i, j \in 1 .. Len(Config) : Config[i].Name = Config[j].Name => i = j
  /\ "main" \notin Handlers
  /\ CreateReqs \subseteq AccountConfig /\ Admins \subseteq Members

VARIABLES
  snapshot,   \* disk: account -> opening balance
  meta,       \* disk: account -> allow-list, where account.json exists
  daemon,     \* "down", "boot", "up"
  budgets,    \* memory: account -> opening balance
  access,     \* memory: account -> allow-list
  cache,      \* osIdentity's cache: uid -> groups
  osGroups,   \* environment: the groups the OS gives a user
  h,          \* handler slot, or main while it boots -> what it is doing
  asked,      \* requests so far
  promise,    \* history: account -> member -> last answer: "in", "out"
  made,       \* history: account -> the creation that was acknowledged
  half,       \* history: creations stopped between their two files
  raced,      \* history: accounts on which two attaches overlapped
  had,        \* history: groups a user has had since the daemon started
  kills, changes

disk == <<snapshot, meta>>
memory == <<budgets, access>>
history == <<promise, made, half, raced>>
vars == <<disk, daemon, memory, cache, osGroups, h, asked, history, had, kills,
          changes>>

Main == "main"
Idle == [op |-> "idle"]
Empty == [x \in {} |-> 0]
Put(f, k, v) == [x \in DOMAIN f \cup {k} |-> IF x = k THEN v ELSE f[x]]

(* Before the first start the disk is empty; the configuration has said    *)
(* who may use its accounts.                                               *)
Init ==
  /\ snapshot = Empty /\ meta = Empty /\ daemon = "down"
  /\ budgets = Empty /\ access = Empty /\ cache = Empty
  /\ osGroups \in Memberships /\ had = osGroups
  /\ h = [p \in Handlers \cup {Main} |-> Idle]
  /\ asked = 0 /\ kills = 0 /\ changes = 0
  /\ promise = [a \in Names |-> [m \in Members |->
       IF \E i \in 1 .. Len(Config) : Config[i].Name = a /\ m \in Config[i].allow
       THEN "in" ELSE "none"]]
  /\ made = Empty /\ half = {} /\ raced = {}

(* r.mu: only Create holds it over more than one step.                     *)
Unlocked == \A p \in DOMAIN h : h[p].op # "meta"

Busy(p, g) == h' = [h EXCEPT ![p] = g]

(* account.json is replaced as a whole; an account without one is open.    *)
writeAccountMeta(a, list) == meta' = Put(meta, a, list)
readAccountMeta(a) == IF a \in DOMAIN meta THEN meta[a] ELSE {}

-----------------------------------------------------------------------------
(* Identity and authorisation (access.go).                                 *)

(* osIdentity.lookup: the cached groups, else the OS's, then cached.       *)
Known(u) == IF u \in DOMAIN cache THEN cache[u] ELSE osGroups[u]

lookup(u, ok, looked) ==
  /\ (looked /\ u \in DOMAIN cache) => ok
  /\ cache' = IF looked /\ ok THEN Put(cache, u, Known(u)) ELSE cache

Listed(list, u) == u \in list \/ Known(u) \cap list # {}

restricted(list) == list # {}

(* dispatchTransport: no verb that changes a budget, an account or a list  *)
(* comes in over TCP.  A gate does: it carries the submitter's uid.        *)
isAdminKind(verb) == verb \in {"admin", "create", "attach"}

dispatchTransport(u, verb) == u = Remote => ~isAdminKind(verb)

(* requireAdmin: everyone while no admin is configured, root always, and   *)
(* the listed; who has no identity, or one that cannot be resolved, is     *)
(* refused.  `looked' tells whether the identity was looked up.            *)
requireAdmin(u, ok) ==
  IF Admins = {} \/ u = Root THEN [allow |-> TRUE, looked |-> FALSE]
  ELSE IF u = Remote THEN [allow |-> FALSE, looked |-> FALSE]
  ELSE [allow |-> ok /\ Listed(Admins, u), looked |-> TRUE]

(* Mutant: an identity that cannot be resolved is let through.             *)
AuthorizeOpen(a, u, ok) ==
  IF a \notin DOMAIN access \/ ~restricted(access[a])
  THEN [allow |-> TRUE, looked |-> FALSE]
  ELSE [allow |-> ~ok \/ Listed(access[a], u), looked |-> TRUE]

(* authorize: an unknown or unrestricted account is open; an identity that *)
(* cannot be resolved is refused.                                          *)
authorize(a, u, ok) ==
  IF a \notin DOMAIN access \/ ~restricted(access[a])
  THEN [allow |-> TRUE, looked |-> FALSE]
  ELSE [allow |-> ok /\ Listed(access[a], u), looked |-> TRUE]

(* canRead: admins read everything, others what they may use; everyone     *)
(* while no admin is configured.  The code looks the identity up for each  *)
(* half; one answer stands for both.                                       *)
canRead(a, u, ok) ==
  LET admin  == requireAdmin(u, ok)
      open   == a \in DOMAIN access /\ ~restricted(access[a])
      member == /\ a \in DOMAIN access /\ u # Remote
                /\ ok /\ Listed(access[a], u)
  IN  [allow |-> admin.allow \/ open \/ member, looked |-> admin.looked]

(* Resolve: an exact match, or the one account there is if it is the       *)
(* catch-all.  The account whose budget a request that names a will use.   *)
Resolve(a) ==
  {b \in DOMAIN budgets : \/ b = a
                          \/ a \notin DOMAIN budgets /\ DOMAIN budgets = {Default}}

-----------------------------------------------------------------------------
(* A request comes in.  GATE up to its escrow, and the read verbs (STATUS, *)
(* LOG, SIMULATE, DISPATCH), resolve the account they name (a) to a budget *)
(* (b), then check the name; TOPUP and the other verbs that change a       *)
(* budget check first, whatever account they name.  What they do once      *)
(* admitted is Kernel's.                                                   *)
dispatch(p, verb, u, a, b) ==
  /\ daemon = "up" /\ h[p] = Idle /\ Unlocked
  /\ dispatchTransport(u, verb)
  /\ Busy(p, [op |-> verb, u |-> u, a |-> a, b |-> b])
  /\ UNCHANGED <<disk, daemon, memory, cache, osGroups, asked, history, had,
                 kills, changes>>

handleGate(p, u, a)   == \E b \in Resolve(a) : dispatch(p, "gate", u, a, b)
handleStatus(p, u, a) == \E b \in Resolve(a) : dispatch(p, "read", u, a, b)
handleTopUp(p, u)     == dispatch(p, "admin", u, Default, Default)

check(p, allow) ==
  /\ h[p].op \in {"gate", "read", "admin"} /\ Unlocked
  /\ \E ok \in Lookups :
       LET r == CASE h[p].op = "gate"  -> authorize(h[p].a, h[p].u, ok)
                  [] h[p].op = "read"  -> canRead(h[p].a, h[p].u, ok)
                  [] h[p].op = "admin" -> requireAdmin(h[p].u, ok)
       IN  r.allow = allow /\ lookup(h[p].u, ok, r.looked)
  /\ Busy(p, Idle)
  /\ UNCHANGED <<disk, daemon, memory, osGroups, asked, history, had, kills,
                 changes>>

admit(p)  == check(p, TRUE)
refuse(p) == check(p, FALSE)

-----------------------------------------------------------------------------
(* CREATE (handleCreate, Registry.Create, create).  Under the lock: open   *)
(* the budget that is on disk or make one, write account.json, register.   *)
(* Mutant: the new budget's snapshot is not saved.                         *)
OpenOrNewVolatile(p, c) ==
  /\ Busy(p, [op |-> "meta", c |-> c, bal |-> c.Balance])
  /\ UNCHANGED snapshot

openOrNew(p, c) ==
  \/ /\ c.Name \in DOMAIN snapshot
     /\ Busy(p, [op |-> "meta", c |-> c, bal |-> snapshot[c.Name]])
     /\ UNCHANGED snapshot
  \/ /\ c.Name \notin DOMAIN snapshot
     /\ \E ok \in IOOutcomes :
          /\ snapshot' = IF ok THEN Put(snapshot, c.Name, c.Balance) ELSE snapshot
          /\ Busy(p, IF ok THEN [op |-> "meta", c |-> c, bal |-> c.Balance]
                     ELSE Idle)

handleCreate(p, u, c) ==
  /\ daemon = "up" /\ h[p] = Idle /\ Unlocked
  /\ dispatchTransport(u, "create")
  /\ asked < MaxRequests /\ asked' = asked + 1
  /\ \E ok \in Lookups :
       LET r == requireAdmin(u, ok)
       IN  /\ lookup(u, ok, r.looked)
           /\ IF r.allow /\ c.Name \notin DOMAIN budgets THEN openOrNew(p, c)
              ELSE UNCHANGED <<snapshot, h>>
  /\ UNCHANGED <<meta, daemon, memory, osGroups, history, had, kills, changes>>

(* Creations by ps end between their two files: nobody was told of these   *)
(* accounts, and the configuration's word on them is void.                 *)
Cut(ps) ==
  LET cut == {h[p].c.Name : p \in {q \in ps : h[q].op = "meta"}}
  IN  /\ half' = half \cup cut
      /\ promise' = [a \in Names |-> IF a \in cut THEN [m \in Members |-> "none"]
                                     ELSE promise[a]]

(* writeAccountMeta replaces the file or fails and leaves it.  A failed    *)
(* CREATE is refused, a failed start ends main.                            *)
createMeta(p) ==
  LET c == h[p].c
  IN  /\ h[p].op = "meta"
      /\ \E ok \in IOOutcomes :
           IF ok
           THEN /\ writeAccountMeta(c.Name, c.allow)
                /\ budgets' = Put(budgets, c.Name, h[p].bal)
                /\ access' = Put(access, c.Name, c.allow)
                /\ promise' = [promise EXCEPT ![c.Name] = [m \in Members |->
                     IF m \in c.allow THEN "in" ELSE "none"]]
                /\ made' = Put(made, c.Name, c.Balance)
                /\ UNCHANGED <<daemon, half>>
           ELSE /\ Cut({p})
                /\ daemon' = IF p = Main THEN "down" ELSE daemon
                /\ UNCHANGED <<meta, memory, made>>
      /\ Busy(p, Idle)
      /\ UNCHANGED <<snapshot, cache, osGroups, asked, raced, had, kills, changes>>

(* ATTACH (handleAttach): read the list, change the copy ...               *)
addAll(set, add) == set \cup add
removeAll(set, rm) == set \ rm

handleAttach(p, u, a, m, detach) ==
  /\ daemon = "up" /\ h[p] = Idle /\ Unlocked
  /\ dispatchTransport(u, "attach")
  /\ asked < MaxRequests /\ asked' = asked + 1
  /\ \E ok \in Lookups :
       LET r == requireAdmin(u, ok)
       IN  /\ lookup(u, ok, r.looked)
           /\ IF r.allow /\ a \in DOMAIN access
              THEN /\ Busy(p, [op |-> "set", a |-> a, m |-> m, detach |-> detach,
                               list |-> IF detach THEN removeAll(access[a], {m})
                                        ELSE addAll(access[a], {m})])
                   /\ raced' = IF \E q \in Handlers : h[q].op = "set" /\ h[q].a = a
                               THEN raced \cup {a} ELSE raced
              ELSE UNCHANGED <<h, raced>>
  /\ UNCHANGED <<disk, daemon, memory, osGroups, promise, made, half, had, kills,
                 changes>>

(* Mutant: the file is not written.                                        *)
SetAccessInMemory(p) ==
  LET g == h[p]
  IN  /\ g.op = "set" /\ Unlocked
      /\ access' = [access EXCEPT ![g.a] = g.list]
      /\ promise' = [promise EXCEPT ![g.a][g.m] =
                       IF g.detach THEN "out" ELSE "in"]
      /\ Busy(p, Idle)
      /\ UNCHANGED <<disk, daemon, budgets, cache, osGroups, asked, made, half,
                     raced, had, kills, changes>>

(* ... and SetAccess puts it in place: the file first, then memory.        *)
SetAccess(p) ==
  LET g == h[p]
  IN  /\ g.op = "set" /\ Unlocked
      /\ \E ok \in IOOutcomes :
           IF ok
           THEN /\ writeAccountMeta(g.a, g.list)
                /\ access' = [access EXCEPT ![g.a] = g.list]
                /\ promise' = [promise EXCEPT ![g.a][g.m] =
                                 IF g.detach THEN "out" ELSE "in"]
           ELSE UNCHANGED <<meta, access, promise>>
      /\ Busy(p, Idle)
      /\ UNCHANGED <<snapshot, daemon, budgets, cache, osGroups, asked, made, half,
                     raced, had, kills, changes>>

-----------------------------------------------------------------------------
(* Start and stop.                                                         *)

(* Mutant: only the configuration's accounts are looked for.               *)
DiscoverConfigured ==
  /\ daemon = "down" /\ daemon' = "boot"
  /\ budgets' = Restrict(snapshot, {a \in DOMAIN snapshot :
                            \E i \in 1 .. Len(Config) : Config[i].Name = a})
  /\ access' = [a \in DOMAIN budgets' |-> readAccountMeta(a)]
  /\ UNCHANGED <<disk, cache, osGroups, h, asked, history, had, kills, changes>>

(* discover: every directory with a snapshot is an account; one without    *)
(* account.json has no list.                                               *)
discover ==
  /\ daemon = "down" /\ daemon' = "boot"
  /\ budgets' = snapshot
  /\ access' = [a \in DOMAIN snapshot |-> readAccountMeta(a)]
  /\ UNCHANGED <<disk, cache, osGroups, h, asked, history, had, kills, changes>>

Missing == {i \in 1 .. Len(Config) : Config[i].Name \notin DOMAIN budgets}

(* NewRegistry then creates the accounts only the configuration names ...  *)
bootstrap ==
  /\ daemon = "boot" /\ h[Main] = Idle
  /\ \E i \in Missing : /\ \A j \in Missing : i <= j
                         /\ openOrNew(Main, Config[i])
  /\ daemon' = IF h'[Main] = Idle THEN "down" ELSE daemon
  /\ UNCHANGED <<meta, memory, cache, osGroups, asked, history, had, kills,
                 changes>>

(* ... and main serves.                                                    *)
Serve ==
  /\ daemon = "boot" /\ h[Main] = Idle /\ Missing = {}
  /\ daemon' = "up" /\ had' = osGroups
  /\ UNCHANGED <<disk, memory, cache, osGroups, h, asked, history, kills, changes>>

(* A kill, or a shutdown, which waits for no handler.                      *)
Kill ==
  /\ daemon # "down" /\ kills < MaxKills /\ kills' = kills + 1
  /\ daemon' = "down"
  /\ budgets' = Empty /\ access' = Empty /\ cache' = Empty
  /\ h' = [p \in DOMAIN h |-> Idle] /\ Cut(DOMAIN h)
  /\ UNCHANGED <<disk, osGroups, asked, made, raced, had, changes>>

(* The site's directory service moves a user between groups.               *)
GroupChange(u) ==
  /\ changes < MaxChanges /\ changes' = changes + 1
  /\ \E gs \in SUBSET Groups :
       /\ osGroups' = [osGroups EXCEPT ![u] = gs]
       /\ had' = [had EXCEPT ![u] = @ \cup gs]
  /\ UNCHANGED <<disk, daemon, memory, cache, h, asked, history, kills>>

-----------------------------------------------------------------------------
Next ==
  \/ \E p \in Handlers :
       \/ \E u \in Users, a \in Names : handleGate(p, u, a)
       \/ \E u \in Users \cup {Remote} :
            (\E a \in Names : handleStatus(p, u, a)) \/ handleTopUp(p, u)
       \/ \E u \in Users \cup {Root, Remote} :
            \/ \E c \in CreateReqs : handleCreate(p, u, c)
            \/ \E a \in AttachNames, m \in Members, detach \in BOOLEAN :
                 handleAttach(p, u, a, m, detach)
       \/ admit(p) \/ refuse(p) \/ SetAccess(p)
  \/ \E p \in DOMAIN h : createMeta(p)
  \/ discover \/ bootstrap \/ Serve \/ Kill
  \/ \E u \in Users : GroupChange(u)

Spec == Init /\ [][Next]_vars

-----------------------------------------------------------------------------
(* Types.  What is registered is on disk.                                  *)
TypeOK ==
  /\ snapshot \in [DOMAIN snapshot -> Nat] /\ DOMAIN snapshot \subseteq Names
  /\ meta \in [DOMAIN meta -> SUBSET Members]
  /\ DOMAIN meta \subseteq DOMAIN snapshot
  /\ daemon \in {"down", "boot", "up"}
  /\ DOMAIN budgets = DOMAIN access /\ DOMAIN budgets \subseteq DOMAIN snapshot
  /\ access \in [DOMAIN access -> SUBSET Members]
  /\ osGroups \in [Users -> SUBSET Groups]
  /\ promise \in [Names -> [Members -> {"none", "in", "out"}]]
  /\ half \cup raced \cup DOMAIN made \subseteq Names

(* Runtime changes are durable and restart-safe (accountmeta.go): while    *)
(* the daemon serves, every list says of every member what the last        *)
(* request or configuration to be accepted said, over refused requests,    *)
(* failed writes, kills and restarts with the old configuration; if no two *)
(* attach requests on the account overlapped.                              *)
AccessKept ==
  daemon = "up" =>
    \A a \in Names \ raced, m \in Members :
      /\ promise[a][m] = "in" => a \in DOMAIN access /\ m \in access[a]
      /\ (promise[a][m] = "out" /\ a \in DOMAIN access) => m \notin access[a]

(* A created account stays (registry.go, NewRegistry): it is there at      *)
(* every later start, with the balance it was created with; a creation     *)
(* that finds a directory left by one that was cut off keeps the first     *)
(* balance.                                                                *)
CreatedKept ==
  daemon = "up" =>
    \A a \in DOMAIN made :
      a \in DOMAIN budgets /\ (a \notin half => budgets[a] = made[a])

(* Money must not leak on an identity error (access.go, authorize): a gate *)
(* or a read of a budget whose list is not empty, made by its own name,    *)
(* goes through only for a user that is on the list, or was in a group on  *)
(* it since the daemon started, whatever the cache holds and however the   *)
(* lookup ends; never for a user the last accepted request took off the    *)
(* list, unless by group.  A verb that changes a budget goes through only  *)
(* for an admin, and nothing does for want of an identity.  A request that *)
(* reaches the catch-all by another name is OnlyListedFund's.              *)
AccessHonoured ==
  [][\A p \in Handlers :
       LET g     == h[p]
           list  == access[g.b]
           had_u == IF g.u = Remote THEN {} ELSE had[g.u]
           admin == Admins = {} \/ g.u \in Admins \/ had_u \cap Admins # {}
       IN  admit(p) /\ g.a = g.b =>
             \/ g.op # "admin" /\ list = {}
             \/ g.op # "gate" /\ admin
             \/ g.op # "admin" /\ had_u \cap list # {}
             \/ /\ g.op # "admin" /\ g.u \in list
                /\ g.b \notin raced => promise[g.b][g.u] # "out"]_vars

(* "Only these users may fund jobs from this account"                      *)
(* (docs/configuration.md): a gate on a budget whose list is not empty     *)
(* goes through only for a user on that list, by name or by a group of     *)
(* this life, whatever account the job named.  The code checks the list of *)
(* the account named, and an unknown one has none (access.go, authorize),  *)
(* while Resolve sends it to the catch-all (registry.go).                  *)
OnlyListedFund ==
  [][\A p \in Handlers :
       LET g == h[p]
       IN  admit(p) /\ g.op = "gate" =>
             \/ access[g.b] = {} \/ g.u \in access[g.b]
             \/ had[g.u] \cap access[g.b] # {}]_vars
=============================================================================
