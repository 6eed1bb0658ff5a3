---------------------------- MODULE Tools_proofs ----------------------------
(***************************************************************************)
(* What the parts without interleaving compute, for every committee, blob, *)
(* wallet and answer of the chain.  Each property follows from lemmas about *)
(* the operators and an invariant that only says what the input is:        *)
(*  - the thresholds suffice, and writers and readers agree on the geometry, *)
(*    from the arithmetic of Certification_proofs;                         *)
(*  - a verdict is earned: the candidates for it have more weight than f, so *)
(*    one honest node is behind it, and the honest nodes are a quorum;     *)
(*  - a committee is whole: the check of the shards leaves one holder of each, *)
(*    and of the entries of a field the newest is kept, wherever it is listed; *)
(*  - a payment is exact: the coins taken are a prefix of the sorted wallet, *)
(*    and an exchange argument shows that no other coins, if they are no more, *)
(*    are worth more.                                                      *)
(*                                                                         *)
(* And the one part with a state, the configuration, through any number of *)
(* edits, saves, torn saves and restarts, for any sets of user-defined     *)
(* networks, groups, profiles, relays and paths, any networks added and    *)
(* any overrides given.  That the active relay is there, that the cache is *)
(* current and that the file loads are not inductive one by one: a session *)
(* takes its model from the file, and the file its content from the        *)
(* session.  SessionInv(K) therefore says of both that they are absent, or *)
(* torn, or well formed: the right shape, with the reserved networks, and  *)
(* every active relay among the relays, except in the networks of K.  With *)
(* all user-defined networks for K it is an invariant; with those that     *)
(* stray before a step, it shows that only add_network makes more.         *)
(***************************************************************************)
EXTENDS Tools, Certification_proofs

-----------------------------------------------------------------------------
(* Configuration: what every model that a session holds or a file keeps is. *)

Reserved == Session!_RESERVED_NETWORKS
Mysten   == Session!_MYSTEN_RELAY_NAME
Urls     == {"https", "plain"}
Names    == Custom \cup Reserved
RelayNames == Relays \cup {Mysten}

Networks ==
  [group : Groups \cup {Session!_DEFAULT_GROUP}, profile : Profiles \cup Reserved,
   relays : UNION {[R -> Urls] : R \in SUBSET RelayNames},
   active_relay : RelayNames \cup {Session!Nothing}]

Models ==
  [version : {1, 2}, path : Paths \cup {Session!_DEFAULT_PATH}, active_network : Names,
   networks : UNION {[S -> Networks] : S \in SUBSET Names}]

ActiveIsThere(net) == net.active_relay \in DOMAIN net.relays \cup {Session!Nothing}

(* All networks but those of K have their active relay. *)
WellFormed(m, K) ==
  /\ m \in Models
  /\ Reserved \subseteq DOMAIN m.networks
  /\ \A n \in DOMAIN m.networks \ K : ActiveIsThere(m.networks[n])

SessionInv(K) ==
  /\ model = Session!NoModel \/ WellFormed(model, K)
  /\ file \in {Session!NoModel, Session!Torn} \/ WellFormed(file, K)
  /\ Session!CacheIsCurrent

(* A well-formed model is a record of these fields, its networks a function. *)
LEMMA ModelShape ==
  ASSUME NEW K, NEW m, WellFormed(m, K)
  PROVE  /\ m = [version |-> m.version, path |-> m.path,
                 active_network |-> m.active_network, networks |-> m.networks]
         /\ m.networks \in [DOMAIN m.networks -> Networks]
         /\ DOMAIN m.networks \in SUBSET Names
<1>1. m \in Models
  BY DEF WellFormed
<1>2. m.networks \in UNION {[S -> Networks] : S \in SUBSET Names}
  BY <1>1 DEF Models
<1>3. PICK S \in SUBSET Names : m.networks \in [S -> Networks]
  BY <1>2
<1> QED
  BY <1>1, <1>3 DEF Models

LEMMA ModelIsThere ==
  ASSUME NEW K, NEW m, WellFormed(m, K)
  PROVE  m \notin {Session!NoModel, Session!Torn}
<1>1. DOMAIN m = {"version", "path", "active_network", "networks"}
  BY DEF WellFormed, Models
<1>2. DOMAIN Session!NoModel = {"absent"} /\ DOMAIN Session!Torn = {"torn"}
  BY DEF Session!NoModel, Session!Torn
<1> QED
  BY <1>1, <1>2

(* Replacing the networks as a whole. *)
LEMMA WithNetworks ==
  ASSUME NEW K, NEW m, WellFormed(m, K), NEW S \in SUBSET Names, Reserved \subseteq S,
         NEW nets \in [S -> Networks], \A n \in S \ K : ActiveIsThere(nets[n])
  PROVE  WellFormed([m EXCEPT !.networks = nets], K)
<1>1. m \in Models
  BY DEF WellFormed
<1>2. nets \in UNION {[T -> Networks] : T \in SUBSET Names}
  OBVIOUS
<1>3. [m EXCEPT !.networks = nets] \in Models
  BY <1>1, <1>2 DEF Models
<1>4. [m EXCEPT !.networks = nets].networks = nets
  BY <1>1 DEF Models
<1> QED
  BY <1>3, <1>4 DEF WellFormed

(* Replacing one of the other fields. *)
LEMMA WithActive ==
  ASSUME NEW K, NEW m, WellFormed(m, K), NEW n \in Names
  PROVE  WellFormed([m EXCEPT !.active_network = n], K)
<1>1. m \in Models
  BY DEF WellFormed
<1>2. [m EXCEPT !.active_network = n] \in Models
  BY <1>1 DEF Models
<1>3. [m EXCEPT !.active_network = n].networks = m.networks
  BY <1>1 DEF Models
<1> QED
  BY <1>2, <1>3 DEF WellFormed

LEMMA WithPath ==
  ASSUME NEW K, NEW m, WellFormed(m, K), NEW p \in Paths
  PROVE  WellFormed([m EXCEPT !.path = p], K)
<1>1. m \in Models
  BY DEF WellFormed
<1>2. [m EXCEPT !.path = p] \in Models
  BY <1>1 DEF Models
<1>3. [m EXCEPT !.path = p].networks = m.networks
  BY <1>1 DEF Models
<1> QED
  BY <1>2, <1>3 DEF WellFormed

LEMMA WithVersion ==
  ASSUME NEW K, NEW m, WellFormed(m, K)
  PROVE  WellFormed([m EXCEPT !.version = 2], K)
<1>1. m \in Models
  BY DEF WellFormed
<1>2. [m EXCEPT !.version = 2] \in Models
  BY <1>1 DEF Models
<1>3. [m EXCEPT !.version = 2].networks = m.networks
  BY <1>1 DEF Models
<1> QED
  BY <1>2, <1>3 DEF WellFormed

(* A network, and the edits of its relays. *)
LEMMA NetworkShape ==
  ASSUME NEW net \in Networks
  PROVE  /\ net.relays \in [DOMAIN net.relays -> Urls]
         /\ DOMAIN net.relays \in SUBSET RelayNames
         /\ net.active_relay \in RelayNames \cup {Session!Nothing}
<1>1. net.relays \in UNION {[R -> Urls] : R \in SUBSET RelayNames}
  BY DEF Networks
<1>2. PICK R \in SUBSET RelayNames : net.relays \in [R -> Urls]
  BY <1>1
<1> QED
  BY <1>2 DEF Networks

(* A built-in network starts with no relays and no active one; what add_network is
   given is a network, whose active relay may be missing. *)
LEMMA AddedNetwork == Added \subseteq Networks
<1> SUFFICES ASSUME NEW net \in Added PROVE net \in Networks
  OBVIOUS
<1>1. /\ net \in [group : Groups, profile : Profiles,
                  relays : UNION {[R -> {"https"}] : R \in SUBSET RelayNames},
                  active_relay : RelayNames \cup {Session!Nothing}]
  BY SessionAssumption DEF Session!CallersNetworks, RelayNames, Mysten
<1>2. PICK R \in SUBSET RelayNames : net.relays \in [R -> {"https"}]
  BY <1>1
<1>3. net.relays \in [R -> Urls]
  BY <1>2 DEF Urls
<1>4. net.relays \in UNION {[T -> Urls] : T \in SUBSET RelayNames}
  BY <1>3
<1> QED
  BY <1>1, <1>4 DEF Networks

LEMMA NewNetwork ==
  ASSUME NEW p \in Profiles \cup Reserved
  PROVE  Session!Network(p) \in Networks /\ ActiveIsThere(Session!Network(p))
<1> DEFINE none == [r \in {} |-> "https"]
<1>1. none \in [{} -> Urls] /\ {} \in SUBSET RelayNames
  OBVIOUS
<1>2. none \in UNION {[R -> Urls] : R \in SUBSET RelayNames}
  BY <1>1
<1>3. Session!Network(p) = [group |-> Session!_DEFAULT_GROUP, profile |-> p,
                           relays |-> none, active_relay |-> Session!Nothing]
  BY DEF Session!Network
<1> HIDE DEF none
<1> QED
  BY <1>2, <1>3 DEF Networks, ActiveIsThere

(* The names and the active one of a network are replaced together. *)
Replaced(net, relays, active) == [net EXCEPT !.relays = relays, !.active_relay = active]

LEMMA WithRelays ==
  ASSUME NEW net \in Networks, NEW R \in SUBSET RelayNames, NEW relays \in [R -> Urls],
         NEW active \in RelayNames \cup {Session!Nothing}
  PROVE  /\ Replaced(net, relays, active) \in Networks
         /\ active \in R \cup {Session!Nothing} => ActiveIsThere(Replaced(net, relays, active))
         /\ Replaced(net, relays, active).group = net.group
         /\ Replaced(net, relays, active).profile = net.profile
<1> DEFINE new == Replaced(net, relays, active)
<1>1. relays \in UNION {[S -> Urls] : S \in SUBSET RelayNames}
  OBVIOUS
<1>2. new \in Networks /\ new.relays = relays /\ new.active_relay = active
      /\ new.group = net.group /\ new.profile = net.profile
  BY <1>1 DEF Networks, Replaced
<1> QED
  BY <1>2 DEF ActiveIsThere

(* The relay that every reserved network gets, unless it has it. *)
LEMMA SeededNetwork ==
  ASSUME NEW net \in Networks, ActiveIsThere(net)
  PROVE  Session!seeded(net) \in Networks /\ ActiveIsThere(Session!seeded(net))
<1> DEFINE R == DOMAIN net.relays \cup {Mysten}
           relays == IF Mysten \in DOMAIN net.relays THEN net.relays
                     ELSE [r \in R |-> IF r \in DOMAIN net.relays THEN net.relays[r] ELSE "https"]
           active == IF net.active_relay = Session!Nothing THEN Mysten ELSE net.active_relay
<1>1. net.relays \in [DOMAIN net.relays -> Urls] /\ R \in SUBSET RelayNames
  BY NetworkShape DEF RelayNames
<1>2. relays \in [R -> Urls]
  <2>1. CASE Mysten \in DOMAIN net.relays
    <3>1. R = DOMAIN net.relays
      BY <2>1
    <3> QED
      BY <1>1, <2>1, <3>1
  <2>2. CASE Mysten \notin DOMAIN net.relays
    BY <1>1, <2>2 DEF Urls
  <2> QED
    BY <2>1, <2>2
<1>3. active \in R \cup {Session!Nothing}
  BY DEF ActiveIsThere
<1>4. Session!seeded(net) = Replaced(net, relays, active)
  BY DEF Session!seeded, Mysten, Networks, Replaced
<1> HIDE DEF R, relays, active
<1>5. R \in SUBSET RelayNames /\ active \in RelayNames \cup {Session!Nothing}
  BY <1>1, <1>3
<1> QED
  BY <1>2, <1>3, <1>4, <1>5, WithRelays

(* What the constructor makes of no file, of an old file and of a new one. *)
LEMMA SeededModel ==
  ASSUME NEW K, K \cap Reserved = {}, NEW m, WellFormed(m, K)
  PROVE  WellFormed(Session!seed_default_relays(m), K)
<1> DEFINE S == DOMAIN m.networks
           nets == [n \in S |-> IF n \in Reserved THEN Session!seeded(m.networks[n]) ELSE m.networks[n]]
<1>1. S \in SUBSET Names /\ Reserved \subseteq S /\ m.networks \in [S -> Networks]
      /\ \A n \in S \ K : ActiveIsThere(m.networks[n])
  BY ModelShape DEF WellFormed
<1>2. nets \in [S -> Networks] /\ \A n \in S \ K : ActiveIsThere(nets[n])
  <2>1. \A n \in S : nets[n] \in Networks /\ (n \notin K => ActiveIsThere(nets[n]))
    BY <1>1, SeededNetwork
  <2> QED
    BY <2>1
<1>3. Session!seed_default_relays(m) = [m EXCEPT !.networks = nets]
  BY DEF Session!seed_default_relays, Reserved
<1> HIDE DEF S, nets
<1> QED
  BY <1>1, <1>2, <1>3, WithNetworks

LEMMA UnseededModel ==
  ASSUME NEW K, NEW version \in {1, 2}
  PROVE  WellFormed(Session!Unseeded(version), K)
<1> DEFINE nets == [n \in Reserved |-> Session!Network(n)]
           m == [version |-> version, path |-> Session!_DEFAULT_PATH,
                 active_network |-> "testnet", networks |-> nets]
<1>1. nets \in [Reserved -> Networks] /\ \A n \in Reserved : ActiveIsThere(nets[n])
  BY NewNetwork
<1>2. Reserved \in SUBSET Names /\ "testnet" \in Names
  BY DEF Names, Reserved, Session!_RESERVED_NETWORKS
<1>3. nets \in UNION {[S -> Networks] : S \in SUBSET Names}
  BY <1>1, <1>2
<1>4. Session!Unseeded(version) = m
  BY DEF Session!Unseeded, Reserved
<1>5. DOMAIN nets = Reserved
  OBVIOUS
<1> HIDE DEF nets
<1>6. m \in Models /\ m.networks = nets
  BY <1>2, <1>3 DEF Models
<1> HIDE DEF m
<1> QED
  BY <1>1, <1>4, <1>5, <1>6 DEF WellFormed

LEMMA DefaultModel ==
  ASSUME NEW K, K \cap Reserved = {}
  PROVE  WellFormed(Session!default_model, K)
BY UnseededModel, SeededModel DEF Session!default_model, Session!_CONFIG_VERSION

LEMMA MigratedModel ==
  ASSUME NEW K, K \cap Reserved = {}, NEW m, WellFormed(m, K)
  PROVE  WellFormed(Session!migrate_model(m), K)
BY SeededModel, WithVersion DEF Session!migrate_model, Session!_CONFIG_VERSION

-----------------------------------------------------------------------------
(* Configuration: what an operation leaves. *)

(* To the cache two models are the same that name the same path, the same active
   network and the same groups and profiles. *)
Agrees(m) ==
  /\ m.path = model.path
  /\ m.active_network = model.active_network
  /\ \A n \in DOMAIN m.networks :
       /\ n \in DOMAIN model.networks
       /\ m.networks[n].group = model.networks[n].group
       /\ m.networks[n].profile = model.networks[n].profile

(* Whatever becomes of a write, session and file are well formed if the new model is. *)
LEMMA SetKeeps ==
  ASSUME NEW K, SessionInv(K), NEW m, WellFormed(m, K), Session!Set(m)
  PROVE  /\ model' = Session!NoModel \/ WellFormed(model, K)'
         /\ file' \in {Session!NoModel, Session!Torn} \/ WellFormed(file, K)'
<1>1. (model' = m /\ file' = file) \/ (model' = m /\ file' = m)
      \/ (model' = Session!NoModel /\ file' = Session!Torn)
  BY DEF Session!Set, Session!Write
<1>2. file' = file => file' \in {Session!NoModel, Session!Torn} \/ WellFormed(file, K)'
  BY DEF SessionInv, WellFormed
<1>3. file' = m => WellFormed(file, K)'
  BY DEF WellFormed
<1>4. model' = m => WellFormed(model, K)'
  BY DEF WellFormed
<1> QED
  BY <1>1, <1>2, <1>3, <1>4

(* An operation that drops the cache may change anything else. *)
LEMMA ResetKeeps ==
  ASSUME NEW K, SessionInv(K), NEW m, WellFormed(m, K), Session!Set(m), Session!CacheReset
  PROVE  SessionInv(K)'
<1>1. cached' = Session!Nothing
  BY DEF Session!CacheReset, Session!Ends
<1>2. Session!CacheIsCurrent'
  BY <1>1 DEF Session!CacheIsCurrent
<1> QED
  BY <1>2, SetKeeps DEF SessionInv

(* One that keeps the cache must agree with it. *)
LEMMA CacheStays ==
  ASSUME NEW K, SessionInv(K), NEW m, WellFormed(m, K), Agrees(m), Session!Open,
         Session!Set(m), Session!CacheKept
  PROVE  SessionInv(K)'
<1>1. Session!CacheIsCurrent'
  <2>1. SUFFICES ASSUME Session!Open', (cached # Session!Nothing)', Session!Resolves'
                 PROVE  (cached = <<Session!Path, Session!Group, Session!Profile>>)'
    BY DEF Session!CacheIsCurrent
  <2>2. model' = m /\ cached' = cached /\ override' = override
    BY <2>1 DEF Session!Open, Session!Set, Session!Write, Session!CacheKept
  <2>3. \/ m.active_network \in DOMAIN m.networks
        \/ Session!Nothing \notin {override.group, override.profile}
    BY <2>1, <2>2 DEF Session!Resolves
  <2>4. cached = <<Session!Path, Session!Group, Session!Profile>>
    BY <2>1, <2>2, <2>3 DEF SessionInv, Session!CacheIsCurrent, Session!Resolves, Agrees
  <2>5. m.active_network \in DOMAIN m.networks =>
          /\ Session!Active'.group = Session!Active.group
          /\ Session!Active'.profile = Session!Active.profile
    BY <2>2 DEF Session!Active, Agrees
  <2>6. Session!Path' = Session!Path
    BY <2>2 DEF Session!Path, Agrees
  <2>7. Session!Group' = Session!Group /\ Session!Profile' = Session!Profile
    BY <2>2, <2>3, <2>5 DEF Session!Group, Session!Profile
  <2> QED
    BY <2>2, <2>4, <2>6, <2>7
<1> QED
  BY <1>1, SetKeeps DEF SessionInv

(* The edit of one network's relays. *)
LEMMA EditedRelays ==
  ASSUME NEW K, WellFormed(model, K), NEW n \in DOMAIN model.networks,
         NEW R \in SUBSET RelayNames, NEW relays \in [R -> Urls],
         NEW active \in RelayNames \cup {Session!Nothing},
         n \notin K => active \in R \cup {Session!Nothing}
  PROVE  /\ WellFormed(Session!With(n, relays, active), K)
         /\ Agrees(Session!With(n, relays, active))
<1> DEFINE S == DOMAIN model.networks
           nets == [x \in S |-> IF x = n THEN Replaced(model.networks[n], relays, active)
                                ELSE model.networks[x]]
           m == [model EXCEPT !.networks = nets]
<1>1. /\ model.networks \in [S -> Networks] /\ S \in SUBSET Names /\ Reserved \subseteq S
      /\ \A x \in S \ K : ActiveIsThere(model.networks[x])
  BY ModelShape DEF WellFormed
<1>2. /\ Replaced(model.networks[n], relays, active) \in Networks
      /\ n \notin K => ActiveIsThere(Replaced(model.networks[n], relays, active))
      /\ Replaced(model.networks[n], relays, active).group = model.networks[n].group
      /\ Replaced(model.networks[n], relays, active).profile = model.networks[n].profile
  BY <1>1, WithRelays
<1>3. /\ nets \in [S -> Networks] /\ \A x \in S \ K : ActiveIsThere(nets[x])
      /\ \A x \in S : /\ nets[x].group = model.networks[x].group
                      /\ nets[x].profile = model.networks[x].profile
  BY <1>1, <1>2
<1>4. Session!With(n, relays, active) = m
  <2>1. model \in Models
    BY DEF WellFormed
  <2>2. model.networks = [x \in S |-> model.networks[x]]
    BY <1>1
  <2> QED
    BY <2>1, <2>2 DEF Session!With, Replaced, Models
<1>5. m.path = model.path /\ m.active_network = model.active_network /\ m.networks = nets
  BY DEF WellFormed, Models
<1>6. DOMAIN nets = S
  OBVIOUS
<1> HIDE DEF nets
<1>7. WellFormed(m, K)
  BY <1>1, <1>3, WithNetworks
<1> HIDE DEF m
<1> QED
  BY <1>3, <1>4, <1>5, <1>6, <1>7 DEF Agrees

-----------------------------------------------------------------------------
(* Configuration: each operation keeps the invariant. *)

LEMMA SessionInitInv ==
  ASSUME NEW K, K \cap Reserved = {}, Session!Init
  PROVE  SessionInv(K)
BY UnseededModel, DefaultModel
   DEF Session!Init, SessionInv, Session!CacheIsCurrent, Session!Open

(* The constructor, which drops the cache whatever it loads. *)
LEMMA ConstructInv ==
  ASSUME NEW K, K \cap Reserved = {}, SessionInv(K), Session!Construct
  PROVE  SessionInv(K)'
<1> DEFINE loaded == IF file = Session!NoModel THEN Session!default_model
                     ELSE Session!migrate_model(file)
<1>1. file = Session!NoModel \/ WellFormed(file, K)
  BY DEF SessionInv, Session!Construct, Session!Loadable, Session!from_json
<1>2. WellFormed(loaded, K)
  BY <1>1, DefaultModel, MigratedModel
<1>3. PICK network \in DOMAIN loaded.networks \cup {Session!Nothing},
           given \in Overrides :
        LET m == IF network = Session!Nothing THEN loaded
                 ELSE [loaded EXCEPT !.active_network = network]
        IN  /\ cached' = Session!Nothing
            /\ \/ /\ model' = m /\ override' = given
                  /\ \/ file' = m \/ file' = loaded \/ file' = file
               \/ file' = Session!Torn /\ model' = Session!NoModel
  BY DEF Session!Construct
<1> HIDE DEF loaded
<1> DEFINE m == IF network = Session!Nothing THEN loaded
                ELSE [loaded EXCEPT !.active_network = network]
<1>4. WellFormed(m, K)
  <2>1. CASE network = Session!Nothing
    BY <1>2, <2>1
  <2>2. CASE network # Session!Nothing
    <3>1. network \in Names
      BY <1>2, <2>2, ModelShape
    <3> QED
      BY <1>2, <2>2, <3>1, WithActive
  <2> QED
    BY <2>1, <2>2
<1>5. /\ cached' = Session!Nothing
      /\ model' \in {m, Session!NoModel}
      /\ file' \in {m, loaded, file, Session!Torn}
  BY <1>3
<1> HIDE DEF m
<1>6. Session!CacheIsCurrent'
  BY <1>5 DEF Session!CacheIsCurrent
<1>7. model' = Session!NoModel \/ WellFormed(model, K)'
  BY <1>4, <1>5 DEF WellFormed
<1>8. file' \in {Session!NoModel, Session!Torn} \/ WellFormed(file, K)'
  BY <1>1, <1>2, <1>4, <1>5 DEF WellFormed
<1> QED
  BY <1>6, <1>7, <1>8 DEF SessionInv

(* A session ends; a file that does not load is put away. *)
LEMMA SessionEdgesInv ==
  ASSUME NEW K, SessionInv(K), Session!SessionEnds \/ Session!FileRemoved
  PROVE  SessionInv(K)'
BY DEF SessionInv, WellFormed, Session!SessionEnds, Session!FileRemoved, Session!Ends,
       Session!CacheIsCurrent, Session!Open, Session!Resolves, Session!Path, Session!Group,
       Session!Profile, Session!Active

(* The cache is filled from the active network. *)
LEMMA CachingInv ==
  ASSUME NEW K, SessionInv(K), Session!pysui_configuration
  PROVE  SessionInv(K)'
BY DEF SessionInv, WellFormed, Session!pysui_configuration,
       Session!CacheIsCurrent, Session!Open, Session!Resolves, Session!Path, Session!Group,
       Session!Profile, Session!Active

(* Those that change the path, the active network or a network it might be reset the
   cache; remove_network keeps it, and what it caches. *)
LEMMA NetworkOperationsInv ==
  ASSUME NEW K, SessionInv(K),
         \/ Session!set_active_network \/ Session!remove_network
         \/ Session!set_pysui_config_path \/ Session!set_other_field
         \/ Session!add_network /\ Names \ Reserved \subseteq K
  PROVE  SessionInv(K)'
<1>0. Session!Open
  BY DEF Session!set_active_network, Session!add_network, Session!remove_network,
         Session!set_pysui_config_path, Session!set_other_field
<1> DEFINE S == DOMAIN model.networks
<1>1. WellFormed(model, K)
  BY <1>0 DEF SessionInv, Session!Open
<1>2. /\ model.networks \in [S -> Networks] /\ S \in SUBSET Names /\ Reserved \subseteq S
      /\ \A n \in S \ K : ActiveIsThere(model.networks[n])
  BY <1>1, ModelShape DEF WellFormed
<1>3. CASE Session!set_active_network
  BY <1>1, <1>2, <1>3, WithActive, ResetKeeps DEF Session!set_active_network
<1>4. CASE Session!add_network /\ Names \ Reserved \subseteq K
  <2>1. PICK n \in Custom \ Reserved, net \in Added :
          Session!Set([model EXCEPT !.networks =
            [name \in S \cup {n} |-> IF name = n THEN net ELSE @[name]]])
    BY <1>4 DEF Session!add_network, Reserved
  <2> DEFINE nets == [name \in S \cup {n} |-> IF name = n THEN net ELSE model.networks[name]]
  <2>2. /\ nets \in [S \cup {n} -> Networks]
        /\ \A name \in (S \cup {n}) \ K : ActiveIsThere(nets[name])
    <3>1. net \in Networks /\ n \in K
      BY <1>4, AddedNetwork DEF Names
    <3> QED
      BY <1>2, <3>1
  <2>3. S \cup {n} \in SUBSET Names /\ Reserved \subseteq S \cup {n}
    BY <1>2 DEF Names
  <2>4. WellFormed([model EXCEPT !.networks = nets], K)
    <3> HIDE DEF nets
    <3> QED
      BY <1>1, <2>2, <2>3, WithNetworks
  <2> QED
    BY <1>4, <2>1, <2>4, ResetKeeps DEF Session!add_network
<1>5. CASE Session!remove_network
  <2>1. PICK n \in S \ Reserved :
          Session!Set([model EXCEPT !.networks = [x \in S \ {n} |-> model.networks[x]]])
    BY <1>5 DEF Session!remove_network, Session!Restrict, Reserved
  <2> DEFINE nets == [x \in S \ {n} |-> model.networks[x]]
             m == [model EXCEPT !.networks = nets]
  <2>2. /\ nets \in [S \ {n} -> Networks] /\ \A x \in (S \ {n}) \ K : ActiveIsThere(nets[x])
        /\ S \ {n} \in SUBSET Names /\ Reserved \subseteq S \ {n}
    BY <1>2
  <2>3. WellFormed(m, K)
    <3> HIDE DEF nets
    <3> QED
      BY <1>1, <2>2, WithNetworks
  <2>4. m.path = model.path /\ m.active_network = model.active_network /\ m.networks = nets
    BY <1>1 DEF WellFormed, Models
  <2>5. Agrees(m)
    BY <2>4 DEF Agrees
  <2> HIDE DEF m
  <2> QED
    BY <1>0, <1>5, <2>1, <2>3, <2>5, CacheStays DEF Session!remove_network, m
<1>6. CASE Session!set_pysui_config_path
  BY <1>1, <1>6, WithPath, ResetKeeps DEF Session!set_pysui_config_path
<1>7. CASE Session!set_other_field
  BY <1>0, <1>1, <1>7, CacheStays DEF Session!set_other_field, Agrees
<1> QED
  BY <1>3, <1>4, <1>5, <1>6, <1>7

(* Relays are no part of what is cached; removing the active one clears it. *)
LEMMA RelayOperationsInv ==
  ASSUME NEW K, SessionInv(K),
         Session!add_relay \/ Session!update_relay \/ Session!remove_relay
  PROVE  SessionInv(K)'
<1>0. Session!Open /\ Session!CacheKept
  BY DEF Session!add_relay, Session!update_relay, Session!remove_relay
<1>1. WellFormed(model, K)
  BY <1>0 DEF SessionInv, Session!Open
<1> DEFINE Names_(n) == DOMAIN model.networks[n].relays
           Active_(n) == model.networks[n].active_relay
<1>2. \A n \in Session!Edited :
        /\ n \in DOMAIN model.networks
        /\ model.networks[n].relays \in [Names_(n) -> Urls]
        /\ Names_(n) \in SUBSET RelayNames
        /\ Active_(n) \in RelayNames \cup {Session!Nothing}
        /\ n \notin K => Active_(n) \in Names_(n) \cup {Session!Nothing}
  BY <1>1, ModelShape, NetworkShape DEF Session!Edited, WellFormed, ActiveIsThere
<1>3. ASSUME NEW n \in Session!Edited, NEW R \in SUBSET RelayNames, NEW relays \in [R -> Urls],
             NEW active \in RelayNames \cup {Session!Nothing},
             n \notin K => active \in R \cup {Session!Nothing},
             Session!Set(Session!With(n, relays, active))
      PROVE  SessionInv(K)'
  BY <1>0, <1>1, <1>2, <1>3, EditedRelays, CacheStays
<1>4. CASE Session!add_relay
  <2>1. PICK n \in Session!Edited : \E r \in Relays \ Names_(n) :
               \E active \in Session!MadeActive(n, r) :
          Session!Set(Session!With(n, [x \in Names_(n) \cup {r} |->
                        IF x = r THEN "https" ELSE model.networks[n].relays[x]], active))
    BY <1>4 DEF Session!add_relay
  <2>5. PICK r \in Relays \ Names_(n) : \E active \in Session!MadeActive(n, r) :
          Session!Set(Session!With(n, [x \in Names_(n) \cup {r} |->
                        IF x = r THEN "https" ELSE model.networks[n].relays[x]], active))
    BY <2>1
  <2>2. PICK active \in Session!MadeActive(n, r) :
          Session!Set(Session!With(n, [x \in Names_(n) \cup {r} |->
                        IF x = r THEN "https" ELSE model.networks[n].relays[x]], active))
    BY <2>5
  <2> DEFINE R == Names_(n) \cup {r}
             relays == [x \in R |-> IF x = r THEN "https" ELSE model.networks[n].relays[x]]
  <2>3. /\ R \in SUBSET RelayNames /\ relays \in [R -> Urls]
        /\ active \in RelayNames \cup {Session!Nothing}
        /\ n \notin K => active \in R \cup {Session!Nothing}
    BY <1>2 DEF Session!MadeActive, RelayNames, Urls
  <2> HIDE DEF R
  <2>4. Session!Set(Session!With(n, relays, active))
    BY <2>2 DEF R
  <2> HIDE DEF relays
  <2> QED
    BY <1>3, <2>3, <2>4
<1>5. CASE Session!update_relay
  <2>1. PICK n \in Session!Edited : \E r \in Names_(n) :
          \E active \in Session!MadeActive(n, r), url \in {"https", "plain"} :
          Session!Set(Session!With(n, [model.networks[n].relays EXCEPT ![r] = url], active))
    BY <1>5 DEF Session!update_relay
  <2>4. PICK r \in Names_(n) :
          \E active \in Session!MadeActive(n, r), url \in {"https", "plain"} :
          Session!Set(Session!With(n, [model.networks[n].relays EXCEPT ![r] = url], active))
    BY <2>1
  <2>2. PICK active \in Session!MadeActive(n, r), url \in {"https", "plain"} :
          Session!Set(Session!With(n, [model.networks[n].relays EXCEPT ![r] = url], active))
    BY <2>4
  <2> DEFINE R == Names_(n)
             relays == [model.networks[n].relays EXCEPT ![r] = url]
  <2>3. /\ R \in SUBSET RelayNames /\ relays \in [R -> Urls]
        /\ active \in RelayNames \cup {Session!Nothing}
        /\ n \notin K => active \in R \cup {Session!Nothing}
    BY <1>2 DEF Session!MadeActive, Urls
  <2> HIDE DEF R, relays
  <2> QED
    BY <1>3, <2>2, <2>3 DEF relays
<1>6. CASE Session!remove_relay
  <2>1. PICK n \in Session!Edited : \E r \in Names_(n) :
          Session!Set(Session!With(n, [x \in Names_(n) \ {r} |-> model.networks[n].relays[x]],
            IF model.networks[n].active_relay = r THEN Session!Nothing
            ELSE model.networks[n].active_relay))
    BY <1>6 DEF Session!remove_relay, Session!Restrict
  <2>2. PICK r \in Names_(n) :
          Session!Set(Session!With(n, [x \in Names_(n) \ {r} |-> model.networks[n].relays[x]],
            IF model.networks[n].active_relay = r THEN Session!Nothing
            ELSE model.networks[n].active_relay))
    BY <2>1
  <2> DEFINE R == Names_(n) \ {r}
             relays == [x \in R |-> model.networks[n].relays[x]]
             active == IF model.networks[n].active_relay = r THEN Session!Nothing
                       ELSE model.networks[n].active_relay
  <2>3. /\ R \in SUBSET RelayNames /\ relays \in [R -> Urls]
        /\ active \in RelayNames \cup {Session!Nothing}
        /\ n \notin K => active \in R \cup {Session!Nothing}
    BY <1>2
  <2>4. Session!Set(Session!With(n, relays, active))
    BY <2>2
  <2> HIDE DEF R, relays, active
  <2> QED
    BY <1>3, <2>3, <2>4
<1> QED
  BY <1>4, <1>5, <1>6

LEMMA SessionNextInv ==
  ASSUME NEW K, K \cap Reserved = {}, SessionInv(K), Session!Next,
         Session!add_network => Names \ Reserved \subseteq K
  PROVE  SessionInv(K)'
BY ConstructInv, SessionEdgesInv, CachingInv, NetworkOperationsInv, RelayOperationsInv
   DEF Session!Next

(* What the invariant says of a session. *)
LEMMA SessionInvSuffices ==
  ASSUME NEW K, K \cap Reserved = {}, SessionInv(K)
  PROVE  Session!ActiveRelayIsThere /\ Session!CacheIsCurrent /\ Session!SavedFileLoads
<1>1. \A m \in {model, file} \ {Session!NoModel, Session!Torn} : WellFormed(m, K)
  BY DEF SessionInv
<1>2. Session!ActiveRelayIsThere
  <2> SUFFICES ASSUME NEW m \in {model, file} \ {Session!NoModel, Session!Torn},
                      NEW n \in DOMAIN m.networks \cap Reserved,
                      m.networks[n].active_relay # Session!Nothing
               PROVE  Session!relay_url_for(m, n, Session!Nothing) # <<>>
    BY DEF Session!ActiveRelayIsThere, Session!Kept, Session!Networks, Reserved
  <2>1. m.networks[n].active_relay \in DOMAIN m.networks[n].relays
    BY <1>1 DEF WellFormed, ActiveIsThere
  <2> QED
    BY <2>1 DEF Session!relay_url_for
<1>3. Session!SavedFileLoads
  <2> SUFFICES ASSUME file \notin {Session!NoModel, Session!Torn}, ~ Session!Loadable(file)
               PROVE  \E n \in DOMAIN file.networks :
                        "plain" \in Session!Range(file.networks[n].relays)
    BY DEF Session!SavedFileLoads, Session!Networks, Session!Range
  <2>1. WellFormed(file, K)
    BY <1>1
  <2>2. PICK n \in DOMAIN file.networks : \E r \in DOMAIN file.networks[n].relays :
          file.networks[n].relays[r] # "https"
    BY <2>1 DEF WellFormed, Session!Loadable, Session!from_json, Session!valid_relay_url, Reserved
  <2>3. PICK r \in DOMAIN file.networks[n].relays : file.networks[n].relays[r] # "https"
    BY <2>2
  <2>4. file.networks[n].relays \in [DOMAIN file.networks[n].relays -> Urls]
    BY <2>1, ModelShape, NetworkShape
  <2>5. file.networks[n].relays[r] = "plain"
    BY <2>3, <2>4 DEF Urls
  <2> QED
    BY <2>3, <2>5 DEF Session!Range, Session!Networks
<1> QED
  BY <1>2, <1>3 DEF SessionInv

-----------------------------------------------------------------------------
(* Orders: the least and the first of a set. *)

(* The least of a set by a measure. *)
LEMMA LeastExists ==
  ASSUME NEW S, S # {}, NEW f, \A x \in S : f[x] \in Nat
  PROVE  \E x \in S : \A y \in S : f[x] <= f[y]
<1> SUFFICES ASSUME \A x \in S : \E y \in S : f[y] < f[x] PROVE FALSE
  <2>1. \A x, y \in S : f[x] <= f[y] <=> ~ f[y] < f[x]
    OBVIOUS
  <2> QED
    BY <2>1
<1> DEFINE T == {n \in Nat : \A x \in S : f[x] >= n}
<1>1. 0 \in T
  OBVIOUS
<1>2. ASSUME NEW n \in Nat, n \in T PROVE n + 1 \in T
  <2>1. ASSUME NEW x \in S PROVE f[x] >= n + 1
    <3>1. PICK y \in S : f[y] < f[x]
      OBVIOUS
    <3> QED
      BY <1>2, <3>1
  <2> QED
    BY <2>1
<1> HIDE DEF T
<1>3. Nat \subseteq T
  BY <1>1, <1>2, SetInduction
<1>4. PICK x \in S : TRUE
  OBVIOUS
<1>5. f[x] + 1 \in T
  BY <1>3, <1>4
<1> QED
  BY <1>4, <1>5 DEF T

(* Of a finite set in a strict order, something has nothing before it. *)
LEMMA TopExists ==
  ASSUME NEW S, S # {}, IsFiniteSet(S), NEW before \in [S -> SUBSET S],
         \A x \in S : \A y \in before[x] : y \notin before[y] /\ before[y] \subseteq before[x]
  PROVE  \E x \in S : before[x] = {}
<1> DEFINE f == [x \in S |-> Cardinality(before[x])]
<1>1. \A x \in S : IsFiniteSet(before[x]) /\ f[x] \in Nat
  <2> TAKE x \in S
  <2>1. IsFiniteSet(before[x])
    BY FS_Subset
  <2> QED
    BY <2>1, FS_CardinalityType
<1>2. PICK x \in S : \A y \in S : f[x] <= f[y]
  <2> HIDE DEF f
  <2> QED
    BY <1>1, LeastExists
<1>3. ASSUME NEW y \in before[x] PROVE FALSE
  <2>1. y \in S /\ before[y] \in SUBSET before[x] /\ before[y] # before[x]
    BY <1>3
  <2>2. f[y] <= f[x] /\ f[y] # f[x]
    BY <1>1, <2>1, FS_Subset
  <2> HIDE DEF f
  <2> QED
    BY <1>1, <1>2, <2>1, <2>2
<1> QED
  BY <1>3

LEMMA MinIsLeast ==
  ASSUME NEW S, S # {}, S \subseteq Nat
  PROVE  Min(S) \in S /\ \A y \in S : Min(S) <= y
<1> DEFINE f == [x \in S |-> x]
<1>1. PICK x \in S : \A y \in S : f[x] <= f[y]
  <2>1. \A x \in S : f[x] \in Nat
    OBVIOUS
  <2> QED
    BY <2>1, LeastExists
<1>2. \E z \in S : \A y \in S : z <= y
  BY <1>1
<1> QED
  BY <1>2 DEF Min

LEMMA MaxOfOne ==
  ASSUME NEW n \in Nat
  PROVE  Max({n}) = n
BY DEF Max

-----------------------------------------------------------------------------
(* Blob status: who said what, what the verdict is and whom the report blames. *)

(* What is heard of a committee: each member at most once. *)
Hearing(H, order, said) ==
  /\ order \in Orders /\ said \in [DOMAIN order -> Answers]
  /\ H = Heard(order, said)

(* What a member can say of a blob; only a failed call says nothing. *)
Sayings == {Answer(a) : a \in Answers}

LEMMA SayingsShape ==
  /\ Unresolved \notin Sayings
  /\ \A s \in Sayings : s # Failed => certainty_rank(s) \in Nat
BY DEF Sayings, Answers, Answer, Unresolved, Failed, certainty_rank

LEMMA HeardFacts ==
  ASSUME NEW H, NEW order, NEW said, Hearing(H, order, said)
  PROVE  \E N \in Nat :
           /\ DOMAIN order = 1 .. N /\ DOMAIN H = 1 .. N
           /\ \A i \in 1 .. N : /\ order[i] \in Members /\ H[i] = <<order[i], H[i][2]>>
                                /\ H[i][1] = order[i] /\ H[i][2] \in Sayings
           /\ \A i, j \in 1 .. N : order[i] = order[j] => i = j
<1>1. order \in Seq(Members) /\ IsInjective(order)
  BY CommitteeAssumption DEF Hearing, Members
<1>2. PICK N \in Nat : DOMAIN order = 1 .. N /\ order \in [1 .. N -> Members]
  <2>1. Len(order) \in Nat /\ DOMAIN order = 1 .. Len(order)
        /\ order \in [1 .. Len(order) -> Members]
    BY <1>1
  <2> QED
    BY <2>1
<1>3. H = [i \in DOMAIN order |-> <<order[i], Answer(said[i])>>]
  BY DEF Hearing, Heard
<1>4. \A i \in 1 .. N : said[i] \in Answers
  BY <1>2 DEF Hearing
<1>5. \A i \in 1 .. N : Answer(said[i]) \in Sayings
  BY <1>4 DEF Sayings
<1>6. \A i, j \in 1 .. N : order[i] = order[j] => i = j
  BY <1>1, <1>2 DEF IsInjective
<1>7. \A i \in 1 .. N : H[i] = <<order[i], Answer(said[i])>>
  BY <1>2, <1>3
<1>8. DOMAIN H = 1 .. N
  BY <1>2, <1>3
<1> QED
  BY <1>2, <1>5, <1>6, <1>7, <1>8

(* The nodes behind a saying, and what a member said. *)
LEMMA Backers ==
  ASSUME NEW H, NEW order, NEW said, Hearing(H, order, said), NEW s
  PROVE  /\ nodes_by_status(H, s) \subseteq Members
         /\ \A n : n \in nodes_by_status(H, s)
                     <=> \E i \in DOMAIN H : H[i][1] = n /\ H[i][2] = s
<1>1. ToSet(H) = {H[i] : i \in DOMAIN H}
  BY DEF ToSet
<1>2. \A n : n \in nodes_by_status(H, s)
               <=> \E i \in DOMAIN H : H[i][1] = n /\ H[i][2] = s
  <2>1. nodes_by_status(H, s) = {h[1] : h \in {g \in {H[i] : i \in DOMAIN H} : g[2] = s}}
    BY <1>1 DEF nodes_by_status
  <2> QED
    BY <2>1
<1>3. \A i \in DOMAIN H : H[i][1] \in Members
  BY HeardFacts
<1> QED
  BY <1>2, <1>3

LEMMA OneSaying ==
  ASSUME NEW H, NEW order, NEW said, Hearing(H, order, said),
         NEW s, NEW t, NEW n, n \in nodes_by_status(H, s), n \in nodes_by_status(H, t)
  PROVE  s = t
BY HeardFacts, Backers

LEMMA StatusesHeard ==
  ASSUME NEW H, NEW order, NEW said, Hearing(H, order, said)
  PROVE  /\ \A s : s \in Statuses(H)
                     <=> s # Failed /\ \E i \in DOMAIN H : H[i][2] = s
         /\ Statuses(H) \subseteq Sayings \ {Failed}
         /\ Unresolved \notin Statuses(H)
         /\ \A s : s \in Statuses(H)
                     <=> s # Failed /\ nodes_by_status(H, s) # {}
<1>1. Statuses(H) = {h[2] : h \in {H[i] : i \in DOMAIN H}} \ {Failed}
  BY DEF Statuses, ToSet
<1>2. \A s : s \in Statuses(H) <=> s # Failed /\ \E i \in DOMAIN H : H[i][2] = s
  BY <1>1
<1>3. \A i \in DOMAIN H : H[i][2] \in Sayings
  BY HeardFacts
<1>4. Statuses(H) \subseteq Sayings \ {Failed}
  BY <1>2, <1>3
<1> QED
  BY <1>2, <1>4, SayingsShape, Backers

LEMMA FirstHeard ==
  ASSUME NEW H, NEW order, NEW said, Hearing(H, order, said),
         NEW C, C \subseteq Statuses(H), C # {}
  PROVE  first_heard(H, C) \in C
<1> DEFINE S == {i \in DOMAIN H : H[i][2] \in C}
           f == [i \in S |-> i]
<1>1. S # {}
  BY StatusesHeard
<1>2. \A i \in S : f[i] \in Nat
  BY HeardFacts
<1>3. PICK i \in S : \A j \in S : f[i] <= f[j]
  BY <1>1, <1>2, LeastExists
<1>4. i \in DOMAIN H /\ H[i][2] \in C /\ \A j \in DOMAIN H : H[j][2] \in C => i <= j
  BY <1>3
<1> QED
  BY <1>4 DEF first_heard

Held(S) == weight_of(Committee, S)

LEMMA HeldIsWeight ==
  /\ \A S : Held(S) = Cardinality(Shares(Weight, S))
  /\ \A S \in SUBSET Members :
       Held(S) \in Nat /\ \A T \in SUBSET S : Held(T) \in Nat /\ Held(T) <= Held(S)
  /\ Held(Members) = NShards /\ NShards \in Nat
<1>1. \A S : Held(S) = Cardinality(Shares(Weight, S)) /\ Held(S) = TotalWeight(Weight, S)
  BY DEF Held, weight_of, Committee, Shares, TotalWeight
<1>2. IsFiniteSet(Members) /\ \A m \in Members : Weight[m] \in Nat
  BY CommitteeAssumption DEF Members
<1>3. ASSUME NEW S \in SUBSET Members
      PROVE  Held(S) \in Nat /\ \A T \in SUBSET S : Held(T) \in Nat /\ Held(T) <= Held(S)
  <2>1. IsFiniteSet(S) /\ \A m \in S : Weight[m] \in Nat
    BY <1>2, FS_Subset
  <2>2. \A T \in SUBSET S : Held(T) \in Nat /\ Held(S) \in Nat /\ Held(T) <= Held(S)
    BY <1>1, <2>1, WeightMonotone
  <2> QED
    BY <2>2
<1>4. Held(Members) = NShards
  BY CommitteeAssumption DEF Held, weight_of, Committee, Members
<1> QED
  BY <1>1, <1>3, <1>4

(* Two groups without a common member hold what they hold together. *)
LEMMA HeldApart ==
  ASSUME NEW L \in SUBSET Members
  PROVE  Held(L) + Held(Members \ L) = NShards
<1> DEFINE A == Shares(Weight, L)
           B == Shares(Weight, Members \ L)
<1>1. IsFiniteSet(Members) /\ \A m \in Members : Weight[m] \in Nat
  BY CommitteeAssumption DEF Members
<1>2. IsFiniteSet(L) /\ IsFiniteSet(Members \ L)
  BY <1>1, FS_Subset
<1>3. IsFiniteSet(A) /\ IsFiniteSet(B)
  BY <1>1, <1>2, SharesFinite
<1>4. A \cap B = {}
  BY DEF Shares
<1>5. A \cup B = Shares(Weight, Members)
  BY DEF Shares
<1> HIDE DEF A, B
<1>6. Cardinality(A \cup B) = Cardinality(A) + Cardinality(B)
  <2>1. Cardinality(A \cap B) = 0
    BY <1>4, FS_EmptySet
  <2>2. Cardinality(A \cup B) = Cardinality(A) + Cardinality(B) - Cardinality(A \cap B)
    BY <1>3, FS_Union
  <2>3. Cardinality(A) \in Nat /\ Cardinality(B) \in Nat
    BY <1>3, FS_CardinalityType
  <2> QED
    BY <2>1, <2>2, <2>3
<1> QED
  BY <1>5, <1>6, HeldIsWeight DEF A, B

(* Enough of a status for an honest node to have said it, or for a quorum. *)
Valid(H)  == {s \in Statuses(H) :
                Held(nodes_by_status(H, s)) >= min_weight_for_validity(NShards)}
Quorate(H) == {s \in Statuses(H) :
                Held(nodes_by_status(H, s)) >= min_weight_for_quorum(NShards)}

(* What the verdict is among the candidates. *)
LEMMA Verdict ==
  ASSUME NEW H, NEW order, NEW said, Hearing(H, order, said),
         NEW v, v = resolve(Committee, H).status
  PROVE  /\ v = Unresolved \/ v \in Valid(H)
         /\ Quorate(H) # {} => v \in Quorate(H)
<1> DEFINE best == {s \in Valid(H) : \A t \in Valid(H) :
                      certainty_rank(s) <= certainty_rank(t)}
<1>1. Quorate(H) \subseteq Valid(H)
  <2>1. min_weight_for_validity(NShards) <= min_weight_for_quorum(NShards)
    BY HeldIsWeight DEF min_weight_for_validity, min_weight_for_quorum
  <2>2. \A s : Held(nodes_by_status(H, s)) \in Nat
    BY HeldIsWeight, Backers
  <2>3. min_weight_for_validity(NShards) \in Int /\ min_weight_for_quorum(NShards) \in Int
    BY HeldIsWeight DEF min_weight_for_validity, min_weight_for_quorum
  <2> QED
    BY <2>1, <2>2, <2>3 DEF Valid, Quorate
<1>2. Valid(H) # {} => best # {} /\ best \subseteq Valid(H)
  <2>1. \A s \in Valid(H) : certainty_rank(s) \in Nat
    BY StatusesHeard, SayingsShape DEF Valid
  <2> DEFINE f == [s \in Valid(H) |-> certainty_rank(s)]
  <2>2. Valid(H) # {} => \E s \in Valid(H) : \A t \in Valid(H) : f[s] <= f[t]
    BY <2>1, LeastExists
  <2> QED
    BY <2>2
<1>3. v = IF Quorate(H) # {} THEN first_heard(H, Quorate(H))
          ELSE IF Valid(H) # {} THEN first_heard(H, best) ELSE Unresolved
  BY DEF resolve, weight_by_status, Held, Valid, Quorate, Committee
<1>4. Quorate(H) # {} => first_heard(H, Quorate(H)) \in Quorate(H)
  BY FirstHeard DEF Quorate
<1>5. Valid(H) # {} => first_heard(H, best) \in best
  <2>1. best \subseteq Statuses(H)
    BY DEF Valid
  <2> HIDE DEF best
  <2> QED
    BY <1>2, <2>1, FirstHeard
<1> HIDE DEF best
<1> QED
  BY <1>1, <1>2, <1>3, <1>4, <1>5

(* Nodes with more than f of the shards are not all liars. *)
LEMMA SomeHonest ==
  ASSUME NEW L \in Liars, NEW S \in SUBSET Members,
         Held(S) >= min_weight_for_validity(NShards)
  PROVE  \E n \in S : n \notin L
<1>1. L \in SUBSET Members /\ Held(L) <= max_n_faulty(NShards)
  BY DEF Liars, Held
<1>2. NShards \in Nat /\ Held(L) \in Nat /\ Held(S) \in Nat
  BY <1>1, HeldIsWeight
<1>3. S \subseteq L => Held(S) <= Held(L)
  BY <1>1, HeldIsWeight
<1>4. max_n_faulty(NShards) < min_weight_for_validity(NShards)
  BY <1>2 DEF max_n_faulty, min_weight_for_validity
<1>5. max_n_faulty(NShards) \in Int /\ min_weight_for_validity(NShards) \in Int
  BY <1>2 DEF max_n_faulty, min_weight_for_validity
<1> QED
  BY <1>1, <1>2, <1>3, <1>4, <1>5

(* The honest nodes alone are a quorum. *)
LEMMA HonestQuorum ==
  ASSUME NEW L \in Liars, NEW S \in SUBSET Members, Members \ L \subseteq S
  PROVE  Held(S) >= min_weight_for_quorum(NShards)
<1>1. L \in SUBSET Members /\ Held(L) <= max_n_faulty(NShards)
  BY DEF Liars, Held
<1>2. NShards \in Nat /\ Held(L) \in Nat /\ Held(S) \in Nat /\ Held(Members \ L) \in Nat
  BY <1>1, HeldIsWeight
<1>3. Held(Members \ L) <= Held(S) /\ Held(Members \ L) = NShards - Held(L)
  BY <1>1, <1>2, HeldIsWeight, HeldApart
<1>4. NShards # 0
  BY <1>1, <1>2 DEF max_n_faulty
<1>5. NShards - max_n_faulty(NShards) >= min_weight_for_quorum(NShards)
  BY <1>2, <1>4 DEF max_n_faulty, min_weight_for_quorum
<1>6. max_n_faulty(NShards) \in Int /\ min_weight_for_quorum(NShards) \in Int
  BY <1>2 DEF max_n_faulty, min_weight_for_quorum
<1> QED
  BY <1>1, <1>2, <1>3, <1>5, <1>6

Heards(H) == {H[i][1] : i \in DOMAIN H}

QueryOf(q, order, said) ==
  /\ Hearing(q.heard, order, said)
  /\ q.given_up \in GivenUp(order, q.heard)

(* Whom the report blames, by reason. *)
Disagreeing(q, absent) ==
  {n \in Members : \E s \in Statuses(q.heard) :
     /\ s # resolve(Committee, q.heard).status
     /\ (s.type = "Nonexistent") = absent
     /\ n \in nodes_by_status(q.heard, s)}

Blames(q, d) ==
  \/ d[2] = "error" /\ d[1] \in nodes_by_status(q.heard, Failed)
  \/ d[2] = "timeout" /\ d[1] \in q.given_up
  \/ d[2] = "not-stored" /\ d[1] \in Disagreeing(q, TRUE)
  \/ d[2] = "disagreed" /\ d[1] \in Disagreeing(q, FALSE)
  \/ d[2] = "not-checked" /\ d[1] \in Members \ (Heards(q.heard) \cup q.given_up)

LEMMA Tagged ==
  ASSUME NEW A, NEW r, NEW d
  PROVE  d \in A \X {r} <=> d = <<d[1], d[2]>> /\ d[1] \in A /\ d[2] = r
OBVIOUS

LEMMA Blamed ==
  ASSUME NEW q, NEW order, NEW said, QueryOf(q, order, said)
  PROVE  /\ fetch_blob_status(Committee, q).status = resolve(Committee, q.heard).status
         /\ fetch_blob_status(Committee, q).confirming
              = nodes_by_status(q.heard, resolve(Committee, q.heard).status)
         /\ \A d : d \in fetch_blob_status(Committee, q).dissenting
                     <=> d = <<d[1], d[2]>> /\ Blames(q, d)
<1> DEFINE H == q.heard
           v == resolve(Committee, H).status
           report == fetch_blob_status(Committee, q)
           base == report_of_verdict(q, resolve(Committee, H))
           errors == nodes_by_status(H, Failed)
           absent == Disagreeing(q, TRUE)
           differing == Disagreeing(q, FALSE)
           unchecked == Members \ (Heards(H) \cup q.given_up)
<1>1. errors = {h[1] : h \in {g \in ToSet(H) : g[2] = Failed}}
  BY DEF nodes_by_status
<1>2. Heards(H) = {h[1] : h \in ToSet(H)}
  BY DEF ToSet, Heards
<1>3. \A some \in BOOLEAN :
        Disagreeing(q, some)
          = UNION {nodes_by_status(H, s) : s \in
                     {s \in Statuses(H) : s # v /\ (s.type = "Nonexistent") = some}}
  <2>1. \A s : nodes_by_status(H, s) \subseteq Members
    BY Backers DEF QueryOf
  <2> QED
    BY <2>1 DEF Disagreeing
<1>4. DOMAIN Committee.weight = Members
  BY DEF Committee, Members
<1>5. base = [status |-> v, resolution |-> resolve(Committee, H).resolution,
              confirming |-> nodes_by_status(H, v),
              dissenting |-> (errors \X {"error"}) \cup (q.given_up \X {"timeout"})
                               \cup (absent \X {"not-stored"}) \cup (differing \X {"disagreed"})]
  BY <1>1, <1>3 DEF report_of_verdict
<1>6. report = [base EXCEPT !.dissenting = @ \cup (unchecked \X {"not-checked"})]
  BY <1>2, <1>4 DEF fetch_blob_status
<1> HIDE DEF errors, absent, differing, unchecked, v, report
<1>7. /\ report.status = v /\ report.confirming = nodes_by_status(H, v)
      /\ report.dissenting = (errors \X {"error"}) \cup (q.given_up \X {"timeout"})
                               \cup (absent \X {"not-stored"}) \cup (differing \X {"disagreed"})
                               \cup (unchecked \X {"not-checked"})
  BY <1>5, <1>6
<1>8. ASSUME NEW d
      PROVE  d \in report.dissenting <=> d = <<d[1], d[2]>> /\ Blames(q, d)
  <2>1. d \in report.dissenting
          <=> \/ d \in errors \X {"error"} \/ d \in q.given_up \X {"timeout"}
              \/ d \in absent \X {"not-stored"} \/ d \in differing \X {"disagreed"}
              \/ d \in unchecked \X {"not-checked"}
    BY <1>7
  <2>2. d \in report.dissenting
          <=> /\ d = <<d[1], d[2]>>
              /\ \/ d[2] = "error" /\ d[1] \in errors
                 \/ d[2] = "timeout" /\ d[1] \in q.given_up
                 \/ d[2] = "not-stored" /\ d[1] \in absent
                 \/ d[2] = "disagreed" /\ d[1] \in differing
                 \/ d[2] = "not-checked" /\ d[1] \in unchecked
    BY <2>1, Tagged
  <2> QED
    BY <2>2 DEF Blames, errors, absent, differing, unchecked
<1> QED
  BY <1>7, <1>8 DEF report, v

(* Who is blamed for what. *)
LEMMA Accounted ==
  ASSUME NEW q, NEW order, NEW said, QueryOf(q, order, said)
  PROVE  EveryoneIsAccounted(fetch_blob_status(Committee, q))
<1> DEFINE H == q.heard
           v == resolve(Committee, H).status
           report == fetch_blob_status(Committee, q)
<1>1. Hearing(H, order, said)
  BY DEF QueryOf
<1>2. q.given_up = {} \/ q.given_up = Members \ Heards(H)
  <2>1. DOMAIN order = DOMAIN H /\ \A i \in DOMAIN H : H[i][1] = order[i]
    BY <1>1, HeardFacts
  <2>2. ToSet(order) = Heards(H)
    BY <2>1 DEF ToSet, Heards
  <2> QED
    BY <2>2 DEF QueryOf, GivenUp
<1>3. \A n : n \in Heards(H) <=> \E s : n \in nodes_by_status(H, s)
  <2>1. \A n, s : n \in nodes_by_status(H, s) <=> \E i \in DOMAIN H : H[i][1] = n /\ H[i][2] = s
    BY <1>1, Backers
  <2> QED
    BY <2>1 DEF Heards
<1>4. \A s, t, n : n \in nodes_by_status(H, s) /\ n \in nodes_by_status(H, t) => s = t
  BY <1>1, OneSaying
<1>5. v # Failed /\ (v \in Statuses(H) \/ nodes_by_status(H, v) = {})
  <2>1. v = Unresolved \/ v \in Statuses(H)
    BY <1>1, Verdict DEF Valid
  <2>2. Unresolved # Failed
    BY DEF Unresolved, Failed
  <2> QED
    BY <1>1, <2>1, <2>2, StatusesHeard
<1>6. \A s, n : n \in nodes_by_status(H, s) => s \in Statuses(H) \/ s = Failed
  BY <1>1, StatusesHeard
<1>7. \A s : nodes_by_status(H, s) \subseteq Members
  BY <1>1, Backers
<1>8. Heards(H) \subseteq Members
  BY <1>3, <1>7
<1>9. \A n, some : n \in Disagreeing(q, some) <=>
         \E s \in Statuses(H) :
           s # v /\ (s.type = "Nonexistent") = some /\ n \in nodes_by_status(H, s)
  BY <1>7 DEF Disagreeing
<1>10. /\ report.status = v /\ report.confirming = nodes_by_status(H, v)
       /\ \A d : d \in report.dissenting <=> d = <<d[1], d[2]>> /\ Blames(q, d)
  BY Blamed
<1> HIDE DEF H, v, report
<1>11. ASSUME NEW n \in Members
       PROVE  n \in report.confirming \/ \E d \in report.dissenting : d[1] = n
  <2>1. CASE n \in Heards(H)
    <3>1. PICK s : n \in nodes_by_status(H, s)
      BY <1>3, <2>1
    <3>2. CASE s = v
      BY <1>10, <3>1, <3>2
    <3>3. CASE s = Failed
      <4>1. Blames(q, <<n, "error">>)
        BY <3>1, <3>3 DEF Blames, H
      <4> QED
        BY <1>10, <4>1
    <3>4. CASE s # v /\ s # Failed
      <4>1. s \in Statuses(H)
        BY <1>6, <3>1, <3>4
      <4>2. CASE s.type = "Nonexistent"
        <5>1. n \in Disagreeing(q, TRUE)
          BY <1>9, <3>1, <3>4, <4>1, <4>2
        <5>2. Blames(q, <<n, "not-stored">>)
          BY <5>1 DEF Blames
        <5> QED
          BY <1>10, <5>2
      <4>3. CASE s.type # "Nonexistent"
        <5>1. n \in Disagreeing(q, FALSE)
          BY <1>9, <3>1, <3>4, <4>1, <4>3
        <5>2. Blames(q, <<n, "disagreed">>)
          BY <5>1 DEF Blames
        <5> QED
          BY <1>10, <5>2
      <4> QED
        BY <4>2, <4>3
    <3> QED
      BY <3>2, <3>3, <3>4
  <2>2. CASE n \in q.given_up
    <3>1. Blames(q, <<n, "timeout">>)
      BY <2>2 DEF Blames
    <3> QED
      BY <1>10, <3>1
  <2>3. CASE n \notin Heards(H) \cup q.given_up
    <3>1. Blames(q, <<n, "not-checked">>)
      BY <2>3 DEF Blames, H
    <3> QED
      BY <1>10, <3>1
  <2> QED
    BY <2>1, <2>2, <2>3
<1>12. ASSUME NEW d, Blames(q, d)
       PROVE  /\ d[1] \in Members \ nodes_by_status(H, v)
              /\ d[2] = "error" => d[1] \in nodes_by_status(H, Failed)
              /\ d[2] \in {"not-stored", "disagreed"} =>
                   \E s \in Statuses(H) : /\ s # v /\ d[1] \in nodes_by_status(H, s)
                                          /\ (s.type = "Nonexistent") = (d[2] = "not-stored")
              /\ d[2] \in {"timeout", "not-checked"} => d[1] \notin Heards(H)
              /\ d[2] = "timeout" <=> d[2] # "not-checked" /\ d[1] \notin Heards(H)
              /\ d[2] = "timeout" => d[1] \in q.given_up
              /\ d[2] = "not-checked" => d[1] \notin q.given_up
              /\ d[2] \in {"error", "timeout", "not-stored", "disagreed", "not-checked"}
  <2>1. CASE d[2] = "error" /\ d[1] \in nodes_by_status(H, Failed)
    BY <1>3, <1>4, <1>5, <1>7, <2>1
  <2>2. CASE d[2] = "timeout" /\ d[1] \in q.given_up
    BY <1>2, <1>3, <2>2
  <2>3. CASE d[2] = "not-stored" /\ d[1] \in Disagreeing(q, TRUE)
    <3>1. PICK s \in Statuses(H) :
            s # v /\ (s.type = "Nonexistent") = TRUE /\ d[1] \in nodes_by_status(H, s)
      BY <1>9, <2>3
    <3> QED
      BY <1>3, <1>4, <1>7, <2>3, <3>1
  <2>4. CASE d[2] = "disagreed" /\ d[1] \in Disagreeing(q, FALSE)
    <3>1. PICK s \in Statuses(H) :
            s # v /\ (s.type = "Nonexistent") = FALSE /\ d[1] \in nodes_by_status(H, s)
      BY <1>9, <2>4
    <3> QED
      BY <1>3, <1>4, <1>7, <2>4, <3>1
  <2>5. CASE d[2] = "not-checked" /\ d[1] \in Members \ (Heards(H) \cup q.given_up)
    BY <1>3, <2>5
  <2> QED
    BY <1>12, <2>1, <2>2, <2>3, <2>4, <2>5 DEF Blames, H
<1>13. ASSUME NEW d \in report.dissenting, NEW e \in report.dissenting, d[1] = e[1]
       PROVE  d = e
  <2>1. d = <<d[1], d[2]>> /\ e = <<e[1], e[2]>> /\ Blames(q, d) /\ Blames(q, e)
    BY <1>10
  <2>2. d[2] = e[2]
    <3>1. CASE d[1] \notin Heards(H)
      <4>1. d[2] \in {"timeout", "not-checked"} /\ e[2] \in {"timeout", "not-checked"}
        BY <1>12, <1>13, <2>1, <3>1
      <4> QED
        BY <1>12, <1>13, <2>1, <4>1
    <3>2. CASE d[1] \in Heards(H)
      <4>1. d[2] \in {"error", "not-stored", "disagreed"}
            /\ e[2] \in {"error", "not-stored", "disagreed"}
        BY <1>12, <1>13, <2>1, <3>2
      <4>2. PICK s : /\ d[1] \in nodes_by_status(H, s)
                     /\ d[2] = "error" <=> s = Failed
                     /\ d[2] # "error" => (s.type = "Nonexistent") = (d[2] = "not-stored")
        BY <1>1, <1>12, <2>1, <4>1, StatusesHeard
      <4>3. PICK t : /\ e[1] \in nodes_by_status(H, t)
                     /\ e[2] = "error" <=> t = Failed
                     /\ e[2] # "error" => (t.type = "Nonexistent") = (e[2] = "not-stored")
        BY <1>1, <1>12, <2>1, <4>1, StatusesHeard
      <4>4. s = t
        BY <1>4, <1>13, <4>2, <4>3
      <4> QED
        BY <4>1, <4>2, <4>3, <4>4
    <3> QED
      BY <3>1, <3>2
  <2> QED
    BY <1>13, <2>1, <2>2
<1>14. \A d \in report.dissenting : d[1] \in Members /\ d[1] \notin report.confirming
  BY <1>10, <1>12
<1>15. report.confirming \subseteq Members
  BY <1>7, <1>10
<1> QED
  BY <1>11, <1>13, <1>14, <1>15 DEF EveryoneIsAccounted, report

LEMMA HonestyPrevails ==
  ASSUME NEW q, NEW order, NEW said, QueryOf(q, order, said)
  PROVE  HonestyDecides(q, fetch_blob_status(Committee, q))
<1> DEFINE H == q.heard
           v == resolve(Committee, H).status
           report == fetch_blob_status(Committee, q)
           Said(n) == {h[2] : h \in {g \in ToSet(H) : g[1] = n}}
           answers(L) == (UNION {Said(n) : n \in Members \ L}) \ {Failed}
<1>1. Hearing(H, order, said) /\ report.status = v
  BY Blamed DEF QueryOf
<1>2. \A n, s : s \in Said(n) <=> n \in nodes_by_status(H, s)
  <2>1. \A n, s : s \in Said(n) <=> \E i \in DOMAIN H : H[i][1] = n /\ H[i][2] = s
    BY DEF ToSet
  <2> QED
    BY <1>1, <2>1, Backers
<1>3. \A s : nodes_by_status(H, s) \in SUBSET Members
  BY <1>1, Backers
<1>4. \A s \in Sayings : s.type = "Permanent" => s.detail \in {"certified", "extended", "forged"}
  BY DEF Sayings, Answer, Answers, Failed
<1> HIDE DEF Said, v, H, report
<1> SUFFICES ASSUME NEW L \in Liars
             PROVE  /\ v \in answers(L) \cup {Unresolved}
                    /\ \A a \in answers(L) : (\A n \in Members \ L : Said(n) = {a}) => v = a
                    /\ Answer("forged") \notin answers(L) => ObjectsAreOf("asked", report)
  BY <1>1 DEF HonestyDecides, Said, H, report
<1>5. ASSUME NEW s \in Valid(H) PROVE s \in answers(L)
  <2>1. PICK n \in nodes_by_status(H, s) : n \notin L
    BY <1>3, SomeHonest DEF Valid
  <2>2. s \in Said(n) /\ n \in Members \ L
    BY <1>2, <1>3, <2>1
  <2>3. s # Failed
    BY <1>1, StatusesHeard DEF Valid
  <2> QED
    BY <2>2, <2>3
<1>6. v \in answers(L) \cup {Unresolved}
  BY <1>1, <1>5, Verdict DEF v
<1>7. ASSUME NEW a \in answers(L), \A n \in Members \ L : Said(n) = {a}
      PROVE  v = a
  <2>1. Members \ L \subseteq nodes_by_status(H, a)
    BY <1>2, <1>7
  <2>2. Held(nodes_by_status(H, a)) >= min_weight_for_quorum(NShards)
    BY <1>3, <2>1, HonestQuorum
  <2>3. a \in Statuses(H)
    <3>1. a # Failed /\ nodes_by_status(H, a) # {}
      BY <1>2, <1>7
    <3> QED
      BY <1>1, <3>1, StatusesHeard
  <2>4. v \in Valid(H)
    <3>1. v \in Quorate(H)
      BY <1>1, <2>2, <2>3, Verdict DEF Quorate, v
    <3>2. v # Unresolved
      BY <1>1, <3>1, StatusesHeard DEF Quorate
    <3> QED
      BY <1>1, <3>2, Verdict DEF v
  <2>5. PICK n \in nodes_by_status(H, v) : n \notin L
    BY <1>3, <2>4, SomeHonest DEF Valid
  <2>6. v \in Said(n) /\ n \in Members \ L
    BY <1>2, <1>3, <2>5
  <2> QED
    BY <1>7, <2>6
<1>8. ASSUME Answer("forged") \notin answers(L)
      PROVE  ObjectsAreOf("asked", report)
  <2> DEFINE named == [certified |-> [blob |-> "asked"], extended |-> NoObject,
                       forged |-> [blob |-> "another"]]
             event == IF report.status.type = "Permanent"
                        THEN named[report.status.detail] ELSE NoObject
  <2>1. event # NoObject => event.blob = "asked"
    <3>1. CASE v = Unresolved
      BY <1>1, <3>1 DEF Unresolved
    <3>2. CASE v \in answers(L)
      <4>1. v # Failed /\ nodes_by_status(H, v) # {}
        BY <1>2, <3>2
      <4>2. v \in Sayings
        BY <1>1, <4>1, StatusesHeard
      <4>3. v.type = "Permanent" => v.detail \in {"certified", "extended"}
        <5>1. v = Answer("forged") <=> v.type = "Permanent" /\ v.detail = "forged"
          BY <4>1, <4>2 DEF Sayings, Answer, Answers, Failed
        <5> QED
          BY <1>4, <1>8, <3>2, <4>1, <4>2, <5>1
      <4>4. v.type = "Permanent" => named[v.detail] \in {[blob |-> "asked"], NoObject}
        BY <4>3
      <4> QED
        BY <1>1, <4>4
    <3> QED
      BY <1>6, <3>1, <3>2
  <2> HIDE DEF event
  <2>2. ASSUME NEW known \in {[blob |-> "asked"], NoObject},
               NEW owned \in SUBSET {"asked", "another"}, NEW read \in BOOLEAN,
               NEW object \in resolve_blob_sui_objects("asked", report, known,
                    [read |-> read, objects |-> {[blob |-> b] : b \in owned}], named).objects
        PROVE  object.blob = "asked"
    <3> DEFINE mine == IF read THEN {o \in {[blob |-> b] : b \in owned} : o.blob = "asked"} ELSE {}
    <3>1. \A o \in mine : o.blob = "asked"
      OBVIOUS
    <3>2. resolve_blob_sui_objects("asked", report, known,
                    [read |-> read, objects |-> {[blob |-> b] : b \in owned}], named)
            = IF known /= NoObject THEN [objects |-> {known}, tier |-> 2]
              ELSE IF mine /= {} THEN [objects |-> mine, tier |-> 2]
              ELSE IF event /= NoObject THEN [objects |-> {event}, tier |-> 3]
              ELSE [objects |-> {}, tier |-> 4]
      BY DEF resolve_blob_sui_objects, event
    <3> HIDE DEF mine, named
    <3>3. \/ object = known /\ known # NoObject
          \/ object \in mine
          \/ object = event /\ event # NoObject
      BY <2>2, <3>2
    <3> QED
      BY <2>1, <3>1, <3>3
  <2> QED
    BY <2>2 DEF ObjectsAreOf
<1> QED
  BY <1>6, <1>7, <1>8

-----------------------------------------------------------------------------
(* The committee: which pools are kept and who holds a shard. *)

Listing(fields, inner, entries) ==
  /\ inner \in StakingObjects
  /\ fields = <<[type |-> "Other"], [type |-> "StakingInnerV1", value |-> inner]>>
  /\ \E n \in Nat : entries \in [1 .. n -> PoolEntries]

LEMMA InnerFound ==
  ASSUME NEW fields, NEW inner, NEW entries, Listing(fields, inner, entries)
  PROVE  fetch_staking_inner(fields) = inner /\ inner # Refused /\ fields # <<>>
<1> DEFINE matching == {f \in DOMAIN fields : fields[f].type = "StakingInnerV1"}
<1>1. matching = {2} /\ fields[2].value = inner
  BY DEF Listing
<1>2. Min(matching) = 2
  BY <1>1, MinIsLeast
<1>3. fetch_staking_inner(fields) = inner
  BY <1>1, <1>2 DEF fetch_staking_inner
<1>4. inner # Refused
  BY StakingAssumption DEF Listing, Refused
<1> QED
  BY <1>3, <1>4 DEF Listing

(* The entry kept of every field is a newest one. *)
LEMMA NewestKept ==
  ASSUME NEW n \in Nat, NEW entries \in [1 .. n -> PoolEntries]
  PROVE  LET deduped == deduped_by_field_id(entries)
         IN  /\ DOMAIN deduped = {e.field : e \in ToSet(entries)}
             /\ \A f \in DOMAIN deduped : deduped[f] \in Newest(entries) /\ deduped[f].field = f
<1> DEFINE deduped == deduped_by_field_id(entries)
           Of(f) == {i \in 1 .. n : entries[i].field = f}
           best(f) == {i \in 1 .. n : entries[i].field = f /\ \A j \in 1 .. n :
                         entries[j].field = f => entries[j].version <= entries[i].version}
<1>1. DOMAIN entries = 1 .. n /\ ToSet(entries) = {entries[i] : i \in 1 .. n}
  BY DEF ToSet
<1>2. /\ DOMAIN deduped = {e.field : e \in ToSet(entries)}
      /\ \A f \in DOMAIN deduped : deduped[f] = entries[Min(best(f))]
  BY <1>1 DEF deduped_by_field_id
<1>3. \A i \in 1 .. n : entries[i].version \in Nat
  BY EntriesAssumption
<1>4. ASSUME NEW f \in DOMAIN deduped PROVE best(f) # {}
  <2> DEFINE before == [i \in Of(f) |-> {j \in Of(f) : entries[j].version > entries[i].version}]
  <2>1. Of(f) # {}
    BY <1>1, <1>2
  <2>2. IsFiniteSet(Of(f))
    <3>1. IsFiniteSet(1 .. n)
      BY FS_Interval
    <3> QED
      BY <3>1, FS_Subset
  <2>3. before \in [Of(f) -> SUBSET Of(f)]
    OBVIOUS
  <2>4. \A i \in Of(f) : \A j \in before[i] : j \notin before[j] /\ before[j] \subseteq before[i]
    BY <1>3
  <2>5. PICK i \in Of(f) : before[i] = {}
    <3> HIDE DEF before, Of
    <3> QED
      BY <2>1, <2>2, <2>3, <2>4, TopExists
  <2>6. \A j \in Of(f) : entries[j].version <= entries[i].version
    <3>1. \A j \in Of(f) : ~ entries[j].version > entries[i].version
      BY <2>5
    <3> QED
      BY <1>3, <3>1
  <2> QED
    BY <2>6
<1>5. ASSUME NEW f \in DOMAIN deduped
      PROVE  deduped[f] \in Newest(entries) /\ deduped[f].field = f
  <2>1. Min(best(f)) \in best(f)
    <3>1. best(f) \subseteq Nat
      OBVIOUS
    <3> HIDE DEF best
    <3> QED
      BY <1>4, <3>1, MinIsLeast
  <2>2. PICK i \in best(f) : deduped[f] = entries[i]
    BY <1>2, <2>1
  <2>3. /\ i \in 1 .. n /\ entries[i].field = f
        /\ \A j \in 1 .. n : entries[j].field = f => entries[j].version <= entries[i].version
    BY <2>2
  <2>4. entries[i] \in ToSet(entries) /\ \A d \in ToSet(entries) :
          d.field = entries[i].field => d.version <= entries[i].version
    BY <1>1, <2>3
  <2> HIDE DEF deduped
  <2> QED
    BY <2>2, <2>3, <2>4 DEF Newest
<1> HIDE DEF deduped
<1> QED
  BY <1>2, <1>5 DEF deduped

(* What the pools that are handed out are. *)
LEMMA PoolsFound ==
  ASSUME NEW n \in Nat, NEW entries \in [1 .. n -> PoolEntries], NEW size,
         NEW pools, pools = fetch_pools(entries, size), pools # Refused
  PROVE  \A node \in DOMAIN pools.by_node_id : \E e \in Newest(entries) :
           e.pool = [node |-> node, address |-> pools.by_node_id[node].address]
<1> DEFINE deduped == deduped_by_field_id(entries)
           found   == {deduped[f].pool : f \in DOMAIN deduped}
           nodes   == {pool_node_id(p) : p \in found \ {NoPool}}
           by      == [node \in nodes |-> CHOOSE p \in found : pool_node_id(p) = node]
<1>1. NoPool \notin found /\ pools = [by_node_id |-> by]
  BY DEF fetch_pools
<1>2. \A p \in found : \E e \in Newest(entries) : e.pool = p
  BY NewestKept
<1>3. \A p \in found : p = [node |-> p.node, address |-> p.address]
  <2>1. \A e \in ToSet(entries) : e \in PoolEntries
    BY DEF ToSet
  <2>2. \A e \in Newest(entries) : e \in PoolEntries
    BY <2>1 DEF Newest
  <2> HIDE DEF found
  <2>3. \A e \in Newest(entries) : e.pool = NoPool \/ e.pool = [node |-> e.pool.node, address |-> e.pool.address]
    BY <2>2, EntriesAssumption
  <2> QED
    BY <1>1, <1>2, <2>3
<1> HIDE DEF found
<1>4. \A node \in nodes : by[node] \in found /\ by[node].node = node
  BY DEF pool_node_id
<1> HIDE DEF by
<1>5. DOMAIN by = nodes /\ pools.by_node_id = by
  BY <1>1 DEF by
<1> QED
  BY <1>2, <1>3, <1>4, <1>5

(* Pools are handed out when none is missing and there are as many as declared. *)
LEMMA PoolsNotRefused ==
  ASSUME NEW n \in Nat, NEW entries \in [1 .. n -> PoolEntries],
         NEW inner, ChainIsRegular(inner, entries)
  PROVE  /\ fetch_pools(entries, inner.pools_size) # Refused
         /\ DOMAIN fetch_pools(entries, inner.pools_size).by_node_id
              = {e.pool.node : e \in Newest(entries)}
<1> DEFINE deduped == deduped_by_field_id(entries)
           found   == {deduped[f].pool : f \in DOMAIN deduped}
           nodes   == {pool_node_id(p) : p \in found \ {NoPool}}
           by      == [node \in nodes |-> CHOOSE p \in found : pool_node_id(p) = node]
<1>1. \A e \in ToSet(entries) : e \in PoolEntries /\ e.version > 0 /\ e.pool # NoPool
  BY DEF ToSet, ChainIsRegular
<1>2. /\ DOMAIN deduped = {e.field : e \in ToSet(entries)}
      /\ \A f \in DOMAIN deduped : deduped[f] \in Newest(entries) /\ deduped[f].field = f
  BY NewestKept
<1>3. ASSUME NEW e \in Newest(entries) PROVE e.field \in DOMAIN deduped /\ deduped[e.field] = e
  <2> DEFINE d == deduped[e.field]
  <2>1. e \in ToSet(entries)
    BY DEF Newest
  <2>2. e.field \in DOMAIN deduped
    BY <1>2, <2>1
  <2>3. d \in Newest(entries) /\ d.field = e.field
    BY <1>2, <2>2
  <2> HIDE DEF d
  <2>4. d \in ToSet(entries) /\ d.version <= e.version /\ e.version <= d.version
    BY <2>3 DEF Newest
  <2>5. d.version = e.version
    <3>1. d.version \in Nat /\ e.version \in Nat
      BY <1>1, <2>1, <2>4, EntriesAssumption
    <3> QED
      BY <2>4, <3>1
  <2>6. d = e
    BY <1>1, <2>1, <2>3, <2>4, <2>5, EntriesAssumption
  <2> QED
    BY <2>2, <2>6 DEF d
<1> HIDE DEF deduped
<1>4. found = {e.pool : e \in Newest(entries)}
  BY <1>2, <1>3
<1>5. NoPool \notin found
  BY <1>1, <1>4 DEF Newest
<1>6. nodes = {e.pool.node : e \in Newest(entries)}
  <2> HIDE DEF found
  <2>1. nodes = {p.node : p \in found}
    BY <1>5 DEF pool_node_id
  <2> HIDE DEF nodes
  <2>2. \A x : x \in nodes <=> \E e \in Newest(entries) : x = e.pool.node
    <3>1. \A p : p \in found <=> \E e \in Newest(entries) : p = e.pool
      BY <1>4
    <3> QED
      BY <2>1, <3>1
  <2> QED
    BY <2>2
<1>7. \A e \in ToSet(entries) : e.version # 0
  BY <1>1, EntriesAssumption
<1>8. Cardinality(nodes) = inner.pools_size
  BY <1>6 DEF ChainIsRegular
<1>9. fetch_pools(entries, inner.pools_size) = [by_node_id |-> by]
  BY <1>5, <1>7, <1>8 DEF fetch_pools, deduped
<1>10. [by_node_id |-> by] # Refused /\ DOMAIN by = nodes
  BY DEF Refused
<1> HIDE DEF by
<1>11. [by_node_id |-> by].by_node_id = by
  OBVIOUS
<1> QED
  BY <1>6, <1>9, <1>10, <1>11

(* What is handed out: the members in the order of the chain, each at the address of its
   pool, and no shard claimed at two places. *)
LEMMA CommitteeBuilt ==
  ASSUME NEW fields, NEW inner, NEW entries, Listing(fields, inner, entries),
         NEW result, result = fetch_committee(fields, entries), result # Refused
  PROVE  LET listed == inner.committee
             pools  == fetch_pools(entries, inner.pools_size)
         IN  /\ pools # Refused
             /\ \A m \in DOMAIN listed : listed[m][1] \in DOMAIN pools.by_node_id
             /\ covers_each_shard_once(inner)
             /\ result = [epoch    |-> inner.epoch,
                          n_shards |-> inner.n_shards,
                          members  |-> [m \in DOMAIN listed |->
                             [node_id         |-> listed[m][1],
                              shard_indices   |-> listed[m][2],
                              network_address |-> pools.by_node_id[listed[m][1]].address]]]
<1>1. /\ fetch_pools(entries, inner.pools_size) # Refused
      /\ result = build_committee(inner, fetch_pools(entries, inner.pools_size).by_node_id)
  BY InnerFound DEF fetch_committee, staking_pools_size
<1> QED
  BY <1>1 DEF build_committee, staking_committee_shards, staking_epoch, staking_n_shards,
              pool_network_address

(* One claim on a shard is one member that holds it. *)
LEMMA OneHolder ==
  ASSUME NEW inner, covers_each_shard_once(inner),
         NEW shard \in 0 .. inner.n_shards - 1
  PROVE  \E m \in DOMAIN inner.committee : \A other \in DOMAIN inner.committee :
           shard \in ToSet(inner.committee[other][2]) <=> other = m
<1> DEFINE listed == inner.committee
           Claims == UNION {{m} \X {i \in DOMAIN listed[m][2] : listed[m][2][i] = shard}
                              : m \in DOMAIN listed}
<1>1. PICK claim \in Claims : Claims = {claim}
  BY DEF covers_each_shard_once, staking_committee_shards, staking_n_shards
<1>2. \A m \in DOMAIN listed : shard \in ToSet(listed[m][2])
         <=> \E i \in DOMAIN listed[m][2] : listed[m][2][i] = shard
  BY DEF ToSet
<1>3. \A m \in DOMAIN listed : \A i \in DOMAIN listed[m][2] :
         listed[m][2][i] = shard => <<m, i>> \in Claims
  OBVIOUS
<1>4. PICK m \in DOMAIN listed : \E i \in DOMAIN listed[m][2] : listed[m][2][i] = shard /\ claim = <<m, i>>
  BY <1>1
<1> HIDE DEF Claims
<1>5. \A other \in DOMAIN listed : shard \in ToSet(listed[other][2]) => other = m
  BY <1>1, <1>2, <1>3, <1>4
<1> QED
  BY <1>2, <1>4, <1>5

LEMMA WholeIfHandedOut ==
  ASSUME NEW fields, NEW inner, NEW entries, Listing(fields, inner, entries),
         NEW result, result = fetch_committee(fields, entries), result # Refused
  PROVE  /\ CommitteeIsSound(result, entries)
         /\ fetch_epoch(fields).epoch = result.epoch
<1> DEFINE listed == inner.committee
           pools  == fetch_pools(entries, inner.pools_size)
           members == [m \in DOMAIN listed |->
                         [node_id         |-> listed[m][1],
                          shard_indices   |-> listed[m][2],
                          network_address |-> pools.by_node_id[listed[m][1]].address]]
<1>1. /\ pools # Refused
      /\ \A m \in DOMAIN listed : listed[m][1] \in DOMAIN pools.by_node_id
      /\ covers_each_shard_once(inner)
      /\ result.epoch = inner.epoch /\ result.n_shards = inner.n_shards /\ result.members = members
  BY CommitteeBuilt
<1>2. PICK n \in Nat : DOMAIN listed = 1 .. n
  <2>1. listed \in Seq(STRING \X Seq(Nat))
    BY StakingAssumption DEF Listing
  <2> QED
    BY <2>1
<1>3. \A m, other \in 1 .. n : listed[m][1] = listed[other][1] => m = other
  BY <1>2, StakingAssumption DEF Listing
<1>4. /\ DOMAIN members = 1 .. n
      /\ \A m \in 1 .. n : /\ members[m].node_id = listed[m][1]
                            /\ members[m].shard_indices = listed[m][2]
                            /\ members[m].network_address = pools.by_node_id[listed[m][1]].address
  BY <1>2
<1>5. \A m \in 1 .. n : \E e \in Newest(entries) :
        e.pool = [node |-> members[m].node_id, address |-> members[m].network_address]
  <2>1. \A node \in DOMAIN pools.by_node_id : \E e \in Newest(entries) :
          e.pool = [node |-> node, address |-> pools.by_node_id[node].address]
    <3>1. PICK k \in Nat : entries \in [1 .. k -> PoolEntries]
      BY DEF Listing
    <3> QED
      BY <1>1, <3>1, PoolsFound
  <2> HIDE DEF members, pools
  <2> QED
    BY <1>1, <1>2, <1>4, <2>1
<1> HIDE DEF members, pools
<1>6. ToSet(result.members) = {members[m] : m \in 1 .. n}
  BY <1>1, <1>4 DEF ToSet
<1>7. \A m \in 1 .. n : ToSet(members[m].shard_indices) \subseteq 0 .. result.n_shards - 1
  BY <1>1, <1>2, <1>4 DEF covers_each_shard_once, staking_committee_shards, staking_n_shards
<1>8. ASSUME NEW shard \in 0 .. result.n_shards - 1
      PROVE  LET member == member_for_shard(result, shard)
             IN  /\ shard \in ToSet(member.shard_indices)
                 /\ \A other \in ToSet(result.members) :
                      shard \in ToSet(other.shard_indices) => other = member
                 /\ position_for_shard(result, shard) = position_of(result, member.node_id)
  <2>1. PICK m \in 1 .. n : \A other \in 1 .. n :
          shard \in ToSet(listed[other][2]) <=> other = m
    <3>1. shard \in 0 .. inner.n_shards - 1
      BY <1>1
    <3>2. \E m \in DOMAIN inner.committee : \A other \in DOMAIN inner.committee :
            shard \in ToSet(inner.committee[other][2]) <=> other = m
      BY <1>1, <3>1, OneHolder
    <3> QED
      BY <1>2, <3>2
  <2>2. {p \in DOMAIN result.members : shard \in ToSet(result.members[p].shard_indices)} = {m}
    BY <1>1, <1>4, <2>1
  <2>3. position_for_shard(result, shard) = <<m - 1>>
    <3>1. m \in Nat
      OBVIOUS
    <3>2. position_by_shard(result)[shard] = m - 1
      BY <2>2, <3>1, MaxOfOne DEF position_by_shard
    <3> QED
      BY <3>2 DEF position_for_shard
  <2>4. member_for_shard(result, shard) = members[m]
    BY <1>1, <2>3 DEF member_for_shard
  <2>5. position_of(result, members[m].node_id) = <<m - 1>>
    <3>1. {p \in DOMAIN result.members : result.members[p].node_id = members[m].node_id} = {m}
      BY <1>1, <1>3, <1>4
    <3>2. position_by_node_id(result, members[m].node_id) = m - 1
      BY <3>1, MaxOfOne DEF position_by_node_id
    <3>3. \E p \in ToSet(result.members) : p.node_id = members[m].node_id
      BY <1>6
    <3> QED
      BY <3>2, <3>3 DEF position_of
  <2>6. shard \in ToSet(members[m].shard_indices)
    BY <1>4, <2>1
  <2>7. \A other \in ToSet(result.members) :
          shard \in ToSet(other.shard_indices) => other = members[m]
    BY <1>4, <1>6, <2>1
  <2> QED
    BY <2>3, <2>4, <2>5, <2>6, <2>7
<1>9. CommitteeIsSound(result, entries)
  BY <1>5, <1>6, <1>7, <1>8 DEF CommitteeIsSound
<1>10. fetch_epoch(fields).epoch = result.epoch
  BY <1>1, InnerFound DEF fetch_epoch, staking_epoch
<1> QED
  BY <1>9, <1>10

LEMMA RegularIsHandedOut ==
  ASSUME NEW fields, NEW inner, NEW entries, Listing(fields, inner, entries),
         ChainIsRegular(inner, entries)
  PROVE  fetch_committee(fields, entries) # Refused
<1> DEFINE listed == inner.committee
           pools  == fetch_pools(entries, inner.pools_size)
           places == UNION {{m} \X DOMAIN listed[m][2] : m \in DOMAIN listed}
           At(place) == listed[place[1]][2][place[2]]
           Claims(shard) == UNION {{m} \X {i \in DOMAIN listed[m][2] : listed[m][2][i] = shard}
                                     : m \in DOMAIN listed}
<1>1. pools # Refused /\ DOMAIN pools.by_node_id = {e.pool.node : e \in Newest(entries)}
  <2>1. PICK k \in Nat : entries \in [1 .. k -> PoolEntries]
    BY DEF Listing
  <2> QED
    BY <2>1, PoolsNotRefused
<1>2. \A m \in DOMAIN listed : listed[m][1] \in DOMAIN pools.by_node_id
  BY <1>1 DEF ChainIsRegular, ToSet
<1>3. /\ {At(place) : place \in places} = 0 .. inner.n_shards - 1
      /\ \A place, other \in places : At(place) = At(other) => place = other
  BY DEF ChainIsRegular
<1>4. \A m \in DOMAIN listed : \A i \in DOMAIN listed[m][2] :
        <<m, i>> \in places /\ At(<<m, i>>) = listed[m][2][i]
  OBVIOUS
<1>5. \A shard, place : place \in Claims(shard) <=> place \in places /\ At(place) = shard
  OBVIOUS
<1> HIDE DEF places, At, Claims
<1>6. \A m \in DOMAIN listed : ToSet(listed[m][2]) \subseteq 0 .. inner.n_shards - 1
  BY <1>3, <1>4 DEF ToSet
<1>7. \A shard \in 0 .. inner.n_shards - 1 : \E claim \in Claims(shard) : Claims(shard) = {claim}
  <2> TAKE shard \in 0 .. inner.n_shards - 1
  <2>1. PICK place \in places : At(place) = shard
    BY <1>3
  <2>2. \A other : other \in Claims(shard) <=> other = place
    BY <1>3, <1>5, <2>1
  <2> QED
    BY <2>2
<1>8. covers_each_shard_once(inner)
  BY <1>6, <1>7 DEF covers_each_shard_once, staking_committee_shards, staking_n_shards, Claims
<1>9. build_committee(inner, pools.by_node_id) # Refused
  BY <1>2, <1>8 DEF build_committee, Refused, staking_committee_shards
<1> QED
  BY <1>1, <1>9, InnerFound DEF fetch_committee, staking_pools_size

-----------------------------------------------------------------------------
(* Payments: the balance of some coins, the order they are taken in, how many it takes. *)

(* A wallet: each coin with its place for a name. *)
Wallet(coins, n) ==
  /\ n \in Nat /\ DOMAIN coins = 1 .. n /\ (n = 0 => coins = <<>>)
  /\ \A i \in 1 .. n : coins[i][1] = i /\ coins[i][2] \in Nat

LEMMA Balances ==
  ASSUME NEW coins, NEW n, Wallet(coins, n), NEW S \in SUBSET (1 .. n)
  PROVE  /\ IsFiniteSet(S) /\ Cardinality(S) \in Nat
         /\ balance_of(coins, S) \in Nat
         /\ \A T \in SUBSET S : balance_of(coins, T) <= balance_of(coins, S)
         /\ \A T \in SUBSET (1 .. n) : S \cap T = {} =>
              balance_of(coins, S \cup T) = balance_of(coins, S) + balance_of(coins, T)
<1> DEFINE w == [i \in 1 .. n |-> coins[i][2]]
<1>1. \A T \in SUBSET (1 .. n) : IsFiniteSet(T) /\ Cardinality(T) \in Nat
  <2>1. IsFiniteSet(1 .. n)
    BY FS_Interval DEF Wallet
  <2> QED
    BY <2>1, FS_Subset, FS_CardinalityType
<1>2. \A T \in SUBSET (1 .. n) : /\ balance_of(coins, T) = Cardinality(Shares(w, T))
                                 /\ balance_of(coins, T) = TotalWeight(w, T)
  BY DEF balance_of, Shares, TotalWeight
<1>3. \A i \in 1 .. n : w[i] \in Nat
  BY DEF Wallet
<1> HIDE DEF w
<1>4. \A T \in SUBSET (1 .. n) : IsFiniteSet(Shares(w, T)) /\ balance_of(coins, T) \in Nat
  BY <1>1, <1>2, <1>3, SharesFinite, FS_CardinalityType
<1>5. \A T \in SUBSET S : balance_of(coins, T) <= balance_of(coins, S)
  <2> TAKE T \in SUBSET S
  <2>1. TotalWeight(w, T) <= TotalWeight(w, S)
    BY <1>1, <1>3, WeightMonotone
  <2> QED
    BY <1>2, <2>1
<1>6. ASSUME NEW T \in SUBSET (1 .. n), S \cap T = {}
      PROVE  balance_of(coins, S \cup T) = balance_of(coins, S) + balance_of(coins, T)
  <2> DEFINE A == Shares(w, S)
             B == Shares(w, T)
  <2>1. A \cap B = {} /\ A \cup B = Shares(w, S \cup T)
    BY <1>6 DEF Shares
  <2>2. IsFiniteSet(A) /\ IsFiniteSet(B)
    BY <1>4
  <2> HIDE DEF A, B
  <2>3. Cardinality(A \cap B) = 0 /\ Cardinality(A) \in Nat /\ Cardinality(B) \in Nat
    BY <2>1, <2>2, FS_EmptySet, FS_CardinalityType
  <2>4. Cardinality(A \cup B) = Cardinality(A) + Cardinality(B) - Cardinality(A \cap B)
    BY <2>2, FS_Union
  <2>5. Cardinality(A \cup B) = Cardinality(A) + Cardinality(B)
    BY <2>3, <2>4
  <2> QED
    BY <1>2, <2>1, <2>5 DEF A, B
<1> QED
  BY <1>1, <1>4, <1>5, <1>6

(* Coins that are each worth at most, or at least, v. *)
LEMMA BalanceBounds ==
  ASSUME NEW coins, NEW n, Wallet(coins, n), NEW S \in SUBSET (1 .. n), NEW v \in Nat
  PROVE  /\ (\A i \in S : coins[i][2] <= v) => balance_of(coins, S) <= Cardinality(S) * v
         /\ (\A i \in S : v <= coins[i][2]) => Cardinality(S) * v <= balance_of(coins, S)
<1> DEFINE w == [i \in 1 .. n |-> coins[i][2]]
           A == Shares(w, S)
           B == S \X (1 .. v)
<1>1. balance_of(coins, S) = Cardinality(A)
  BY DEF balance_of, Shares
<1>2. IsFiniteSet(B) /\ Cardinality(B) = Cardinality(S) * v
  <2>1. IsFiniteSet(S) /\ IsFiniteSet(1 .. v) /\ Cardinality(1 .. v) = v
    BY Balances, FS_Interval
  <2> QED
    BY <2>1, FS_Product
<1>3. IsFiniteSet(A)
  <2>1. \A i \in S : w[i] \in Nat
    BY DEF Wallet
  <2> HIDE DEF w
  <2> QED
    BY <2>1, Balances, SharesFinite
<1>4. \A i \in S : w[i] = coins[i][2] /\ w[i] \in Nat
  BY DEF Wallet
<1> HIDE DEF w
<1>5. (\A i \in S : coins[i][2] <= v) => A \subseteq B
  BY <1>4 DEF Shares
<1>6. (\A i \in S : v <= coins[i][2]) => B \subseteq A
  <2> SUFFICES ASSUME \A i \in S : v <= coins[i][2], NEW x \in B PROVE x \in A
    OBVIOUS
  <2>1. PICK i \in S, k \in 1 .. v : x = <<i, k>>
    OBVIOUS
  <2>2. k \in 1 .. w[i]
    BY <1>4, <2>1
  <2>3. x \in {i} \X (1 .. w[i])
    BY <2>1, <2>2
  <2> QED
    BY <2>3 DEF Shares
<1> HIDE DEF A, B
<1>7. A \subseteq B => Cardinality(A) <= Cardinality(B)
  BY <1>2, FS_Subset
<1>8. B \subseteq A => Cardinality(B) <= Cardinality(A)
  BY <1>3, FS_Subset
<1> QED
  BY <1>1, <1>2, <1>5, <1>6, <1>7, <1>8

(* The order in which coins are taken. *)
LEMMA SortedOrder ==
  ASSUME NEW coins, NEW n, Wallet(coins, n)
  PROVE  /\ \A i \in 1 .. n : sorted_before(coins, i) \in SUBSET (1 .. n) /\ i \notin sorted_before(coins, i)
         /\ \A i, j \in 1 .. n :
              j \in sorted_before(coins, i) => sorted_before(coins, j) \subseteq sorted_before(coins, i)
         /\ \A i, j \in 1 .. n :
              i = j \/ j \in sorted_before(coins, i) \/ i \in sorted_before(coins, j)
         /\ \A i, j \in 1 .. n :
              /\ j \in sorted_before(coins, i) => coins[i][2] <= coins[j][2]
              /\ j \notin sorted_before(coins, i) => coins[j][2] <= coins[i][2]
<1>1. \A i, j : j \in sorted_before(coins, i)
        <=> j \in 1 .. n /\ (coins[j][2] > coins[i][2] \/ (coins[j][2] = coins[i][2] /\ j < i))
  BY DEF sorted_before, Wallet
<1>2. \A i \in 1 .. n : coins[i][2] \in Nat
  BY DEF Wallet
<1> QED
  BY <1>1, <1>2

(* The first in that order, and the last. *)
LEMMA FirstSorted ==
  ASSUME NEW coins, NEW n, Wallet(coins, n), NEW S \in SUBSET (1 .. n), S # {}
  PROVE  /\ first_sorted(coins, S) \in S
         /\ \A j \in S : j \notin sorted_before(coins, first_sorted(coins, S))
         /\ \E i \in S : \A j \in S : j = i \/ j \in sorted_before(coins, i)
<1> DEFINE before == [i \in S |-> sorted_before(coins, i) \cap S]
           after  == [i \in S |-> {j \in S : i \in sorted_before(coins, j)}]
<1>1. IsFiniteSet(S)
  BY Balances
<1>2. \E i \in S : before[i] = {}
  <2>1. /\ before \in [S -> SUBSET S]
        /\ \A i \in S : \A j \in before[i] : j \notin before[j] /\ before[j] \subseteq before[i]
    BY SortedOrder
  <2> HIDE DEF before
  <2> QED
    BY <1>1, <2>1, TopExists
<1>3. \E i \in S : after[i] = {}
  <2>1. \A i \in S : i \notin sorted_before(coins, i)
    BY SortedOrder
  <2>2. \A i \in S : \A j \in after[i] : j \in S /\ j \notin after[j] /\ after[j] \subseteq after[i]
    <3> SUFFICES ASSUME NEW i \in S, NEW j \in after[i]
                 PROVE  j \in S /\ j \notin after[j] /\ after[j] \subseteq after[i]
      OBVIOUS
    <3>1. j \in S /\ i \in sorted_before(coins, j)
      OBVIOUS
    <3>2. ASSUME NEW k \in after[j] PROVE k \in after[i]
      <4>1. k \in S /\ j \in sorted_before(coins, k)
        BY <3>1
      <4>2. i \in sorted_before(coins, k)
        BY <3>1, <4>1, SortedOrder
      <4> QED
        BY <4>1, <4>2
    <3> QED
      BY <2>1, <3>1, <3>2
  <2>3. after \in [S -> SUBSET S]
    OBVIOUS
  <2> HIDE DEF after
  <2> QED
    BY <1>1, <2>2, <2>3, TopExists
<1>4. \E i \in S : \A j \in S : j \notin sorted_before(coins, i)
  BY <1>2
<1>5. \E i \in S : \A j \in S : i \notin sorted_before(coins, j)
  BY <1>3
<1> QED
  BY <1>4, <1>5, SortedOrder DEF first_sorted

(* The largest coins: no other coins, if they are no more, are worth more. *)
LEMMA LargestCoins ==
  ASSUME NEW coins, NEW n, Wallet(coins, n),
         NEW B \in SUBSET (1 .. n), \A j \in B : sorted_before(coins, j) \subseteq B,
         NEW S \in SUBSET (1 .. n), Cardinality(S) <= Cardinality(B)
  PROVE  balance_of(coins, S) <= balance_of(coins, B)
<1> DEFINE X == S \ B
           Y == B \ S
           both == S \cap B
<1>1. /\ X \in SUBSET (1 .. n) /\ Y \in SUBSET (1 .. n) /\ both \in SUBSET (1 .. n)
      /\ S = both \cup X /\ B = both \cup Y /\ both \cap X = {} /\ both \cap Y = {}
  OBVIOUS
<1>2. /\ \A T \in SUBSET (1 .. n) : IsFiniteSet(T) /\ Cardinality(T) \in Nat
      /\ \A T \in SUBSET (1 .. n) : balance_of(coins, T) \in Nat
  BY Balances
<1>3. Cardinality(X) <= Cardinality(Y)
  <2>1. Cardinality(X) = Cardinality(S) - Cardinality(S \cap B)
    BY <1>2, FS_Difference
  <2>2. Cardinality(Y) = Cardinality(B) - Cardinality(B \cap S)
    BY <1>2, FS_Difference
  <2>3. B \cap S = S \cap B /\ Cardinality(S \cap B) \in Nat
    BY <1>1, <1>2
  <2> HIDE DEF X, Y
  <2> QED
    BY <1>2, <2>1, <2>2, <2>3
<1>4. \A x \in X, y \in Y : coins[x][2] <= coins[y][2]
  BY SortedOrder
<1> HIDE DEF X, Y, both
<1>5. balance_of(coins, X) <= balance_of(coins, Y)
  <2>1. CASE X = {}
    <3>1. balance_of(coins, X) <= balance_of(coins, Y)
      BY <1>1, <2>1, Balances
    <3> QED
      BY <3>1
  <2>2. CASE X # {}
    <3> DEFINE first == first_sorted(coins, X)
               v == coins[first][2]
    <3>1. first \in X /\ \A j \in X : j \notin sorted_before(coins, first)
      BY <1>1, <2>2, FirstSorted
    <3>2. v \in Nat /\ \A j \in X : coins[j][2] <= v
      <4>1. first \in 1 .. n
        BY <1>1, <3>1
      <4> HIDE DEF first
      <4> QED
        BY <1>1, <3>1, <4>1, SortedOrder DEF Wallet
    <3>3. \A j \in Y : v <= coins[j][2]
      BY <1>4, <3>1
    <3> HIDE DEF v
    <3>4. balance_of(coins, X) <= Cardinality(X) * v
      BY <1>1, <3>2, BalanceBounds
    <3>5. Cardinality(Y) * v <= balance_of(coins, Y)
      BY <1>1, <3>2, <3>3, BalanceBounds
    <3>6. \A a, b, c \in Nat : a <= b => a * c <= b * c
      OBVIOUS
    <3>7. Cardinality(X) * v <= Cardinality(Y) * v
      BY <1>1, <1>2, <1>3, <3>2, <3>6
    <3>8. /\ balance_of(coins, X) \in Nat /\ balance_of(coins, Y) \in Nat
          /\ Cardinality(X) * v \in Nat /\ Cardinality(Y) * v \in Nat
      BY <1>1, <1>2, <3>2
    <3> QED
      BY <3>4, <3>5, <3>7, <3>8
  <2> QED
    BY <2>1, <2>2
<1>6. balance_of(coins, S) = balance_of(coins, both) + balance_of(coins, X)
  BY <1>1, Balances
<1>7. balance_of(coins, B) = balance_of(coins, both) + balance_of(coins, Y)
  BY <1>1, Balances
<1>8. balance_of(coins, both) \in Nat /\ balance_of(coins, X) \in Nat /\ balance_of(coins, Y) \in Nat
  BY <1>1, <1>2
<1> QED
  BY <1>5, <1>6, <1>7, <1>8

(* The coins that prepare_wal_coin_for_amount takes when none is exact. *)
Taken(coins, amount) == {i \in DOMAIN coins : balance_of(coins, sorted_before(coins, i)) < amount}

LEMMA TakenSuffice ==
  ASSUME NEW coins, NEW n, Wallet(coins, n), NEW amount \in Nat \ {0},
         total_balance(coins) >= amount
  PROVE  /\ Taken(coins, amount) \in SUBSET (1 .. n)
         /\ balance_of(coins, Taken(coins, amount)) >= amount
         /\ \A ids \in SUBSET (1 .. n) :
              balance_of(coins, ids) >= amount => Cardinality(ids) >= Cardinality(Taken(coins, amount))
<1> DEFINE used == Taken(coins, amount)
           Before(i) == sorted_before(coins, i)
<1>1. used \in SUBSET (1 .. n)
      /\ \A i \in 1 .. n : i \in used <=> balance_of(coins, Before(i)) < amount
  BY DEF Taken, Wallet
<1>2. \A i \in 1 .. n : Before(i) \in SUBSET (1 .. n) /\ i \notin Before(i)
  BY SortedOrder
<1>3. /\ \A T \in SUBSET (1 .. n) : IsFiniteSet(T) /\ Cardinality(T) \in Nat
      /\ \A T \in SUBSET (1 .. n) : balance_of(coins, T) \in Nat
      /\ \A T \in SUBSET (1 .. n) : \A R \in SUBSET T : balance_of(coins, R) <= balance_of(coins, T)
  BY Balances
<1> HIDE DEF used
<1>4. balance_of(coins, used) >= amount
  <2>1. CASE used = 1 .. n
    BY <2>1 DEF total_balance, Wallet
  <2>2. CASE used # 1 .. n
    <3> DEFINE rest == (1 .. n) \ used
               i == first_sorted(coins, rest)
    <3>1. rest \in SUBSET (1 .. n) /\ rest # {}
      BY <1>1, <2>2
    <3>2. i \in rest /\ \A j \in rest : j \notin Before(i)
      BY <3>1, FirstSorted
    <3> HIDE DEF i
    <3>3. Before(i) \subseteq used
      BY <1>2, <3>2
    <3>4. ~ balance_of(coins, Before(i)) < amount
      BY <1>1, <3>2
    <3>5. balance_of(coins, Before(i)) <= balance_of(coins, used)
      BY <1>1, <1>3, <3>3
    <3>6. balance_of(coins, Before(i)) \in Nat /\ balance_of(coins, used) \in Nat
      BY <1>1, <1>2, <1>3, <3>2
    <3> HIDE DEF Before
    <3> QED
      BY <3>4, <3>5, <3>6
  <2> QED
    BY <2>1, <2>2
<1>5. ASSUME NEW ids \in SUBSET (1 .. n), balance_of(coins, ids) >= amount
      PROVE  Cardinality(ids) >= Cardinality(used)
  <2> SUFFICES ASSUME Cardinality(ids) < Cardinality(used) PROVE FALSE
    BY <1>1, <1>3
  <2>1. used # {}
    BY <1>3, FS_EmptySet
  <2>9. \E i \in used : \A j \in used : j = i \/ j \in sorted_before(coins, i)
    <3>1. used \in SUBSET (1 .. n)
      BY <1>1
    <3> HIDE DEF Before
    <3> QED
      BY <2>1, <3>1, FirstSorted
  <2>2. PICK i \in used : \A j \in used : j = i \/ j \in Before(i)
    BY <2>9
  <2> DEFINE B == Before(i)
  <2>3. B \in SUBSET (1 .. n) /\ i \notin B /\ used \subseteq B \cup {i}
    BY <1>1, <1>2, <2>2
  <2>4. \A j \in B : Before(j) \subseteq B
    BY <1>1, <1>2, SortedOrder
  <2>5. balance_of(coins, B) < amount
    BY <1>1
  <2> HIDE DEF B, Before
  <2>6. Cardinality(used) <= Cardinality(B) + 1
    <3>1. IsFiniteSet(B \cup {i}) /\ Cardinality(B \cup {i}) = Cardinality(B) + 1
      BY <1>3, <2>3, FS_AddElement
    <3>2. Cardinality(used) <= Cardinality(B \cup {i})
      BY <2>3, <3>1, FS_Subset
    <3> QED
      BY <3>1, <3>2
  <2>7. Cardinality(ids) <= Cardinality(B)
    BY <1>1, <1>3, <2>3, <2>6
  <2>8. balance_of(coins, ids) <= balance_of(coins, B)
    BY <2>3, <2>4, <2>7, LargestCoins DEF Before
  <2> QED
    BY <1>3, <1>5, <2>3, <2>5, <2>8
<1> QED
  BY <1>1, <1>4, <1>5 DEF used

(* What is composed of it: the first coin and those merged into it. *)
LEMMA PlanIsTaken ==
  ASSUME NEW coins, NEW n, Wallet(coins, n), NEW amount \in Nat \ {0},
         total_balance(coins) >= amount
  PROVE  /\ primary(coins) \in 1 .. n \ merge_from(coins, amount)
         /\ merge_from(coins, amount) \in SUBSET (1 .. n)
         /\ Taken(coins, amount) = merge_from(coins, amount) \cup {primary(coins)}
         /\ \A i \in 1 .. n : coins[i][2] <= coins[primary(coins)][2]
<1> DEFINE first == primary(coins)
<1>1. DOMAIN coins = 1 .. n /\ 1 .. n \in SUBSET (1 .. n)
  BY DEF Wallet
<1>2. balance_of(coins, {}) = 0
  BY FS_EmptySet DEF balance_of
<1>3. 1 .. n # {}
  <2> SUFFICES ASSUME 1 .. n = {} PROVE FALSE
    OBVIOUS
  <2>1. total_balance(coins) = 0
    BY <1>1, <1>2 DEF total_balance
  <2> QED
    BY <2>1
<1>4. first \in 1 .. n /\ \A j \in 1 .. n : j \notin sorted_before(coins, first)
  BY <1>1, <1>3, FirstSorted DEF primary
<1> HIDE DEF first
<1>5. \A i \in 1 .. n : sorted_before(coins, i) \in SUBSET (1 .. n)
  BY SortedOrder
<1>6. \A i \in 1 .. n : sorted_before(coins, i) = {} <=> i = first
  BY <1>4, <1>5, SortedOrder
<1>7. \A i \in 1 .. n : i \in merge_from(coins, amount)
                          <=> i # first /\ i \in Taken(coins, amount)
  BY <1>1, <1>6 DEF merge_from, Taken
<1>8. first \in Taken(coins, amount)
  <2>1. balance_of(coins, sorted_before(coins, first)) = 0
    BY <1>2, <1>4, <1>6
  <2> QED
    BY <1>1, <1>4, <2>1 DEF Taken
<1>9. merge_from(coins, amount) \subseteq 1 .. n /\ Taken(coins, amount) \subseteq 1 .. n
  BY <1>1 DEF merge_from, Taken
<1>10. \A i \in 1 .. n : coins[i][2] <= coins[first][2]
  BY <1>4, SortedOrder
<1> QED
  BY <1>4, <1>7, <1>8, <1>9, <1>10 DEF first

(* A coin of exactly the amount. *)
LEMMA ExactCoin ==
  ASSUME NEW coins, NEW n, Wallet(coins, n), NEW amount \in Nat \ {0},
         NEW i \in 1 .. n, coins[i][2] = amount
  PROVE  /\ balance_of(coins, {i}) = amount
         /\ \A ids \in SUBSET (1 .. n) :
              balance_of(coins, ids) >= amount => Cardinality(ids) >= Cardinality({i})
<1>1. {i} \in SUBSET (1 .. n) /\ Cardinality({i}) = 1
  BY FS_Singleton
<1>2. /\ balance_of(coins, {i}) <= Cardinality({i}) * amount
      /\ Cardinality({i}) * amount <= balance_of(coins, {i})
      /\ balance_of(coins, {i}) \in Nat
  BY <1>1, BalanceBounds, Balances
<1>3. ASSUME NEW ids \in SUBSET (1 .. n), balance_of(coins, ids) >= amount
      PROVE  Cardinality(ids) >= 1
  <2>1. balance_of(coins, {}) = 0
    BY FS_EmptySet DEF balance_of
  <2>2. ids # {}
    BY <1>3, <2>1
  <2>3. IsFiniteSet(ids) /\ Cardinality(ids) \in Nat
    BY Balances
  <2>4. Cardinality(ids) # 0
    BY <2>2, <2>3, FS_EmptySet
  <2> QED
    BY <2>3, <2>4
<1> QED
  BY <1>1, <1>2, <1>3

(* The plan of a wallet that can pay. *)
ExactPlan(coins, n, amount, plan) ==
  LET used == plan.merged \cup {plan.coin}
  IN  /\ plan.coin \notin plan.merged
      /\ balance_of(coins, used) >= amount
      /\ ~plan.split => balance_of(coins, used) = amount
      /\ \A ids \in SUBSET (1 .. n) :
           balance_of(coins, ids) >= amount => Cardinality(ids) >= Cardinality(used)

LEMMA PlansAreExact ==
  ASSUME NEW coins, NEW n, Wallet(coins, n), NEW amount \in Nat \ {0}
  PROVE  LET plan == prepare_wal_coin_for_amount(coins, amount)
         IN  /\ plan = NoPayment <=> total_balance(coins) < amount
             /\ plan # NoPayment => ExactPlan(coins, n, amount, plan)
<1> DEFINE plan == prepare_wal_coin_for_amount(coins, amount)
           exact == {i \in DOMAIN coins : coins[i][2] = amount}
<1>1. total_balance(coins) \in Nat
  BY Balances DEF total_balance, Wallet
<1>2. coins = <<>> => total_balance(coins) < amount
  <2>1. coins = <<>> => DOMAIN coins = {}
    OBVIOUS
  <2>2. balance_of(coins, {}) = 0
    BY FS_EmptySet DEF balance_of
  <2> QED
    BY <2>1, <2>2 DEF total_balance
<1>3. CASE total_balance(coins) < amount
  <2>1. plan = NoPayment
    BY <1>3 DEF prepare_wal_coin_for_amount
  <2> QED
    BY <1>3, <2>1
<1>4. CASE ~ total_balance(coins) < amount /\ exact # {}
  <2> DEFINE i == first_sorted(coins, exact)
  <2>1. exact \in SUBSET (1 .. n)
    BY DEF Wallet
  <2>2. i \in exact
    BY <1>4, <2>1, FirstSorted
  <2>3. i \in 1 .. n /\ coins[i][2] = amount /\ coins[i][1] = i
    BY <2>1, <2>2 DEF Wallet
  <2>4. plan = [coin |-> coins[i][1], merged |-> {}, split |-> FALSE, amount |-> amount]
    BY <1>2, <1>4 DEF prepare_wal_coin_for_amount
  <2> HIDE DEF i, exact, plan
  <2>5. plan.coin = i /\ plan.merged = {} /\ plan.split = FALSE
    BY <2>3, <2>4
  <2>6. plan.merged \cup {plan.coin} = {i}
    BY <2>5
  <2>7. plan # NoPayment
    BY <2>4 DEF NoPayment
  <2>8. ExactPlan(coins, n, amount, plan)
    BY <2>3, <2>5, <2>6, ExactCoin DEF ExactPlan
  <2> QED
    BY <1>4, <2>7, <2>8 DEF plan
<1>5. CASE ~ total_balance(coins) < amount /\ exact = {}
  <2> DEFINE first == primary(coins)
             merged == merge_from(coins, amount)
  <2>1. total_balance(coins) >= amount
    BY <1>1, <1>5
  <2>2. /\ first \in 1 .. n \ merged /\ merged \in SUBSET (1 .. n)
        /\ Taken(coins, amount) = merged \cup {first}
    BY <2>1, PlanIsTaken
  <2>3. plan = [coin |-> coins[first][1], merged |-> {coins[i][1] : i \in merged},
                split |-> TRUE, amount |-> amount]
    BY <1>2, <1>5 DEF prepare_wal_coin_for_amount
  <2> HIDE DEF first, merged, exact, plan
  <2>4. {coins[i][1] : i \in merged} = merged /\ coins[first][1] = first
    <3>1. \A i \in merged : coins[i][1] = i
      BY <2>2 DEF Wallet
    <3>2. coins[first][1] = first
      BY <2>2 DEF Wallet
    <3> QED
      BY <3>1, <3>2
  <2>5. plan.coin = first /\ plan.merged = merged /\ plan.split = TRUE
    BY <2>3, <2>4
  <2>6. plan.merged \cup {plan.coin} = Taken(coins, amount)
    BY <2>2, <2>5
  <2>7. plan # NoPayment
    BY <2>3 DEF NoPayment
  <2>8. ExactPlan(coins, n, amount, plan)
    BY <2>1, <2>2, <2>5, <2>6, TakenSuffice DEF ExactPlan
  <2> QED
    BY <1>5, <2>7, <2>8 DEF plan
<1> QED
  BY <1>3, <1>4, <1>5

(* The tip coin that is named to pay for Tx1, and the coin that pays. *)
Tip(tip) ==
  \/ tip = <<>>
  \/ \E o \in {"sender", "stranger"}, b \in {1, 2} : tip = <<[owner |-> o, balance |-> b]>>

LEMMA PreflightIsRight ==
  ASSUME NEW coins, NEW n, Wallet(coins, n), NEW tip, Tip(tip)
  PROVE  LET first == preflight_payment(coins, tip, {"sender"}, 2, <<>>)
         IN  /\ first = NoPayment
                  <=> coins = <<>>
                      \/ (tip /= <<>> /\ tip[1] /= [owner |-> "sender", balance |-> 2])
             /\ first # NoPayment => \A i \in DOMAIN coins : coins[i][2] <= coins[first.coin][2]
<1> DEFINE first == preflight_payment(coins, tip, {"sender"}, 2, <<>>)
           usable == tip = <<>> \/ assert_coin_usable(tip[1], {"sender"}, 2)
<1>1. usable <=> tip = <<>> \/ tip[1] = [owner |-> "sender", balance |-> 2]
  <2>1. CASE tip = <<>>
    BY <2>1
  <2>2. CASE tip # <<>>
    <3>1. PICK o \in {"sender", "stranger"}, b \in {1, 2} : tip[1] = [owner |-> o, balance |-> b]
      BY <2>2 DEF Tip
    <3>2. tip[1] = [owner |-> "sender", balance |-> 2] <=> o = "sender" /\ b = 2
      BY <3>1
    <3>3. assert_coin_usable(tip[1], {"sender"}, 2) <=> o = "sender" /\ b = 2
      BY <3>1 DEF assert_coin_usable
    <3> QED
      BY <2>2, <3>2, <3>3
  <2> QED
    BY <2>1, <2>2
<1>2. first = IF usable THEN select_wal_payment_coin(coins) ELSE NoPayment
  BY DEF preflight_payment
<1> HIDE DEF usable, first
<1>3. CASE coins = <<>>
  BY <1>1, <1>2, <1>3 DEF select_wal_payment_coin, first
<1>4. CASE coins # <<>>
  <2> DEFINE best == primary(coins)
  <2>1. 1 .. n # {} /\ DOMAIN coins = 1 .. n /\ 1 .. n \in SUBSET (1 .. n)
    BY <1>4 DEF Wallet
  <2>2. best \in 1 .. n /\ \A j \in 1 .. n : j \notin sorted_before(coins, best)
    BY <2>1, FirstSorted DEF primary
  <2>3. \A i \in 1 .. n : coins[i][2] <= coins[best][2]
    BY <2>2, SortedOrder
  <2>4. select_wal_payment_coin(coins) = [coin |-> best]
    BY <1>4, <2>2 DEF select_wal_payment_coin, Wallet
  <2>5. [coin |-> best] # NoPayment /\ [coin |-> best].coin = best
    BY DEF NoPayment
  <2> HIDE DEF best
  <2> QED
    BY <1>1, <1>2, <1>4, <2>1, <2>3, <2>4, <2>5 DEF first
<1> QED
  BY <1>3, <1>4

-----------------------------------------------------------------------------
(* Inputs: what is chosen at the start stays what it was chosen to be. *)

ThresholdInput ==
  Is("quorums") =>
    \E n \in Nat \ {0} :
      /\ input.n_shards = n
      /\ input.one \in SUBSET (1 .. n) /\ input.other \in SUBSET (1 .. n)

BlobInput ==
  Is("blob") =>
    /\ input.n_shards \in Nat \ {0}
    /\ input.length \in Nat
    /\ input.blob_id \in Seq(Byte)

QueryInput == Is("query") => \E order, said : QueryOf(input, order, said)

ChainInput ==
  Is("chain") =>
    \/ input.fields = <<>>
    \/ \E inner : Listing(input.fields, inner, input.entries)

WalletInput ==
  Is("wallet") =>
    /\ \E n : Wallet(input.coins, n)
    /\ input.amount \in Nat \ {0}
    /\ Tip(input.tip)

InputInv == ThresholdInput /\ BlobInput /\ QueryInput /\ ChainInput /\ WalletInput

LEMMA QuorumsGiven ==
  ASSUME input \in Quorums
  PROVE  Is("quorums") /\ ThresholdInput
<1>1. PICK n \in 1 .. MaxShards :
        input \in [kind : {"quorums"}, n_shards : {n}, one : SUBSET (1 .. n), other : SUBSET (1 .. n)]
  BY DEF Quorums
<1>2. n \in Nat \ {0}
  BY InputsAssumption
<1> QED
  BY <1>1, <1>2 DEF ThresholdInput, Is

LEMMA BlobGiven ==
  ASSUME input \in Blobs
  PROVE  Is("blob") /\ BlobInput
<1>1. /\ input.kind = "blob"
      /\ input.n_shards \in 1 .. MaxShards /\ input.length \in 0 .. MaxLength
      /\ input.blob_id \in BlobIds
  BY DEF Blobs
<1>2. input.n_shards \in Nat \ {0} /\ input.length \in Nat
  BY <1>1, InputsAssumption
<1>3. input.blob_id \in Seq(Byte)
  BY <1>1, InputsAssumption
<1> QED
  BY <1>1, <1>2, <1>3 DEF BlobInput, Is

LEMMA QueryGiven ==
  ASSUME input \in Queries
  PROVE  Is("query") /\ QueryInput
<1>1. PICK order \in Orders : \E said \in [DOMAIN order -> Answers] :
        input \in [kind : {"query"}, heard : {Heard(order, said)},
                   given_up : GivenUp(order, Heard(order, said))]
  BY DEF Queries
<1>2. PICK said \in [DOMAIN order -> Answers] :
        input \in [kind : {"query"}, heard : {Heard(order, said)},
                   given_up : GivenUp(order, Heard(order, said))]
  BY <1>1
<1>3. /\ input.kind = "query" /\ input.heard = Heard(order, said)
      /\ input.given_up \in GivenUp(order, input.heard)
  BY <1>2
<1>4. QueryOf(input, order, said)
  BY <1>3 DEF QueryOf, Hearing
<1> QED
  BY <1>3, <1>4 DEF QueryInput, Is

LEMMA ChainGiven ==
  ASSUME input \in Chains
  PROVE  Is("chain") /\ ChainInput
<1>1. /\ input.kind = "chain" /\ input.entries \in BoundedSeq(PoolEntries, MaxListed)
      /\ \/ input.fields = <<>>
         \/ \E inner \in StakingObjects :
              input.fields = <<[type |-> "Other"], [type |-> "StakingInnerV1", value |-> inner]>>
  BY DEF Chains
<1>2. \E n \in Nat : input.entries \in [1 .. n -> PoolEntries]
  <2>1. PICK n \in 0 .. MaxListed : input.entries \in [1 .. n -> PoolEntries]
    BY <1>1 DEF BoundedSeq, SeqOf
  <2>2. n \in Nat
    BY InputsAssumption
  <2> QED
    BY <2>1, <2>2
<1> QED
  BY <1>1, <1>2 DEF ChainInput, Listing, Is

LEMMA WalletGiven ==
  ASSUME input \in Wallets
  PROVE  Is("wallet") /\ WalletInput
<1>1. /\ input.kind = "wallet" /\ input.amount \in 1 .. MaxAmount
      /\ \E b \in BoundedSeq(0 .. MaxBalance, MaxCoins) :
           input.coins = [i \in DOMAIN b |-> <<i, b[i]>>]
      /\ Tip(input.tip)
  BY DEF Wallets, Tip
<1>2. PICK b \in BoundedSeq(0 .. MaxBalance, MaxCoins) :
        input.coins = [i \in DOMAIN b |-> <<i, b[i]>>]
  BY <1>1
<1>3. PICK n \in 0 .. MaxCoins : b \in [1 .. n -> 0 .. MaxBalance]
  BY <1>2 DEF BoundedSeq, SeqOf
<1>4. n \in Nat /\ input.amount \in Nat \ {0}
  BY <1>1, InputsAssumption
<1>5. \A i \in 1 .. n : b[i] \in Nat
  BY <1>3, InputsAssumption
<1>6. input.coins = [i \in 1 .. n |-> <<i, b[i]>>]
  BY <1>2, <1>3
<1>7. n = 0 => input.coins = <<>>
  BY <1>6
<1>8. Wallet(input.coins, n)
  BY <1>4, <1>5, <1>6, <1>7 DEF Wallet
<1> QED
  BY <1>1, <1>4, <1>8 DEF WalletInput, Is

(* The other inputs are of another kind. *)
LEMMA OtherInputs ==
  ASSUME input \in Quilts \/ input \in Listings \/ input \in EventsSeen
         \/ input = [kind |-> "session"]
  PROVE  input.kind \in {"quilt", "listing", "event", "session"}
<1>1. input \in Quilts => input.kind = "quilt"
  BY DEF Quilts
<1>2. input \in Listings => input.kind = "listing"
  BY DEF Listings
<1>3. input \in EventsSeen => input.kind = "event"
  BY DEF EventsSeen
<1> QED
  BY <1>1, <1>2, <1>3

LEMMA InputInit == Init => InputInv
<1>1. \/ input.kind \in {"quilt", "listing", "event", "session"}
      \/ Is("quorums") /\ ThresholdInput
      \/ Is("blob") /\ BlobInput
      \/ Is("query") /\ QueryInput
      \/ Is("chain") /\ ChainInput
      \/ Is("wallet") /\ WalletInput
      => InputInv
  BY DEF InputInv, ThresholdInput, BlobInput, QueryInput, ChainInput, WalletInput, Is
<1> QED
  BY <1>1, QuorumsGiven, BlobGiven, QueryGiven, ChainGiven, WalletGiven, OtherInputs DEF Init

LEMMA InputNext == InputInv /\ [Next]_vars => InputInv'
BY DEF InputInv, ThresholdInput, BlobInput, QueryInput, ChainInput, WalletInput, Is, Next, vars

(* The input of a behaviour stays one of those it was chosen from (Tools). *)
THEOREM InputStays == Spec => []InputInv
BY InputInit, InputNext, PTL DEF Spec

-----------------------------------------------------------------------------
(* The properties. *)

(* A set of shards has a size. *)
LEMMA SharedShards ==
  ASSUME NEW n \in Nat, NEW Q \in SUBSET (1 .. n)
  PROVE  Cardinality(Q) \in Nat
<1>1. IsFiniteSet(1 .. n)
  BY FS_Interval
<1>2. IsFiniteSet(Q)
  BY <1>1, FS_Subset
<1> QED
  BY <1>2, FS_CardinalityType

(* The thresholds of certification.py and redstuff.py are enough for what they are
   used for, whatever the number of shards. *)
THEOREM ThresholdsSufficeAlways == Spec => []ThresholdsSuffice
<1>1. InputInv => ThresholdsSuffice
  <2> SUFFICES ASSUME InputInv, Is("quorums") PROVE ThresholdsSuffice
    BY DEF ThresholdsSuffice
  <2>1. PICK n \in Nat \ {0} :
          /\ input.n_shards = n
          /\ input.one \in SUBSET (1 .. n) /\ input.other \in SUBSET (1 .. n)
    BY DEF InputInv, ThresholdInput
  <2> DEFINE weight == Cardinality(input.one)
             shared == Cardinality(input.one \cap input.other)
             f == max_n_faulty(n)
  <2>2. weight \in Nat
    BY <2>1, SharedShards
  <2>3. is_quorum(weight, n) /\ is_quorum(Cardinality(input.other), n)
          => is_above_validity(shared, n)
    BY <2>1, QuorumsIntersectAboveValidity
  <2> HIDE DEF weight, shared
  <2>4. /\ is_quorum(weight, n) <=> weight >= min_weight_for_quorum(n)
        /\ is_above_validity(weight, n) <=> weight >= min_weight_for_validity(n)
    BY <2>2, QuorumWeightIsLeast, ValidityWeightIsLeast
  <2>5. /\ is_quorum(weight, n) => weight - f >= source_symbol_counts(n).primary
        /\ is_above_validity(weight, n) => weight > f
        /\ is_quorum(n - f, n)
    BY <2>2, QuorumOutlivesFaults
  <2> QED
    BY <2>1, <2>3, <2>4, <2>5 DEF ThresholdsSuffice, weight, shared
<1> QED
  BY <1>1, InputStays, PTL

(* One byte after the other or at once: the rotation is the remainder of the blob
   ID's big-endian value. *)
LEMMA RotationByBytes ==
  ASSUME NEW n \in Nat \ {0}, NEW id \in Seq(Byte)
  PROVE  RemainderByBytes(id, n) = rotation_offset(id, n)
<1> DEFINE N == Len(id)
           step == [i \in 1 .. N |-> [v \in Nat |-> (256 * v + id[i]) % n]]
           Whole(f) == [i \in 0 .. N |-> IF i = 0 THEN 0 ELSE (256 * f[i - 1] + id[i]) % n]
           remainder == CHOOSE f : f = Whole(f)
<1>1. N \in Nat /\ \A i \in 1 .. N : id[i] \in Nat
  BY BytesAreNatural
<1>2. step \in [1 .. N -> [Nat -> Nat]]
  <2>1. \A i \in 1 .. N : \A v \in Nat : (256 * v + id[i]) % n \in Nat
    BY <1>1
  <2> QED
    BY <2>1
<1>3. \A i \in 1 .. N : \A v \in Nat : step[i][v] = (256 * v + id[i]) % n
  OBVIOUS
<1>4. RemainderByBytes(id, n) = remainder[N]
  BY DEF RemainderByBytes
<1> HIDE DEF step, N
<1>5. PICK f \in [0 .. N -> Nat] :
        f[0] = 0 /\ \A i \in 1 .. N : f[i] = step[i][f[i - 1]]
  <2>1. N \in Nat /\ 0 \in Nat /\ step \in Steps(N, Nat)
    BY <1>1, <1>2 DEF Steps
  <2>2. \E f : Solves(f, N, Nat, 0, step)
    BY <2>1, RecursionExists, Zenon
  <2> QED
    BY <2>2 DEF Solves
<1>6. \A i \in 1 .. N : f[i] = (256 * f[i - 1] + id[i]) % n
  <2> TAKE i \in 1 .. N
  <2>1. i - 1 \in 0 .. N
    BY <1>1
  <2>2. f[i - 1] \in Nat
    BY <2>1
  <2> QED
    BY <1>3, <1>5, <2>2
<1>7. \A i \in 0 .. N : f[i] = Whole(f)[i]
  BY <1>1, <1>5, <1>6
<1>8. f = Whole(f)
  BY <1>7
<1>9. remainder = Whole(remainder)
  BY <1>8
<1>10. /\ remainder[0] = 0
       /\ \A i \in 1 .. N : remainder[i] = (256 * remainder[i - 1] + id[i]) % n
  <2> HIDE DEF remainder
  <2>1. \A i \in 0 .. N :
          remainder[i] = IF i = 0 THEN 0 ELSE (256 * remainder[i - 1] + id[i]) % n
    BY <1>9
  <2>2. 0 \in 0 .. N /\ \A i \in 1 .. N : i \in 0 .. N /\ i # 0
    BY <1>1
  <2> QED
    BY <2>1, <2>2
<1> HIDE DEF remainder
<1>11. remainder[N] = BigEndian(id) % n
  BY <1>10, RemainderOfPrefixes DEF N
<1> QED
  BY <1>4, <1>11 DEF rotation_offset

(* Writers and readers agree on the place and the size of every sliver, whatever the
   committee, the blob's length and its ID. *)
THEOREM GeometryAgreesAlways == Spec => []GeometryAgrees
<1>1. InputInv => GeometryAgrees
  <2> SUFFICES ASSUME InputInv, Is("blob") PROVE GeometryAgrees
    BY DEF GeometryAgrees
  <2> DEFINE n      == input.n_shards
             length == input.length
             id     == input.blob_id
             size   == symbol_size(length, n)
             rotation == RemainderByBytes(id, n)
  <2>1. n \in Nat \ {0} /\ length \in Nat /\ id \in Seq(Byte)
    BY DEF InputInv, BlobInput
  <2>2. ASSUME NEW pair \in 0 .. n - 1
        PROVE  LET shard == pair_index_to_shard_index(pair, id, n)
               IN  /\ shard = (pair + rotation) % n
                   /\ shard_index_to_pair_index(shard, id, n) = pair
    <3>1. rotation = rotation_offset(id, n)
      BY <2>1, RotationByBytes
    <3>2. shard_index_to_pair_index(pair_index_to_shard_index(pair, id, n), id, n) = pair
      BY <2>1, RotationsAreInverse
    <3> QED
      BY <3>1, <3>2 DEF pair_index_to_shard_index
  <2>3. /\ size \in Nat \ {0} /\ size % RS2_REQUIRED_ALIGNMENT = 0
        /\ length <= max_blob_size(n, size)
        /\ \A other \in Nat \ {0} :
             other % RS2_REQUIRED_ALIGNMENT = 0 /\ length <= max_blob_size(n, other)
               => size <= other
    BY <2>1, SymbolSizeIsLeast
  <2>4. size > RS2_REQUIRED_ALIGNMENT
          => length > max_blob_size(n, size - RS2_REQUIRED_ALIGNMENT)
    <3> DEFINE less == size - RS2_REQUIRED_ALIGNMENT
    <3> SUFFICES ASSUME size > RS2_REQUIRED_ALIGNMENT, ~ length > max_blob_size(n, less)
                 PROVE  FALSE
      OBVIOUS
    <3> HIDE DEF size, n, length
    <3>1. less \in Nat \ {0} /\ less % RS2_REQUIRED_ALIGNMENT = 0 /\ less < size
      BY <2>3 DEF RS2_REQUIRED_ALIGNMENT
    <3>2. max_blob_size(n, less) \in Int
      BY <2>1, <3>1 DEF max_blob_size, Symbols, source_symbol_counts, min_n_correct, max_n_faulty
    <3> QED
      BY <2>1, <2>3, <3>1, <3>2
  <2>5. size > 0
    BY <2>3
  <2> HIDE DEF rotation
  <2> QED
    BY <2>2, <2>3, <2>4, <2>5 DEF GeometryAgrees, rotation
<1> QED
  BY <1>1, InputStays, PTL

(* The verdict on a blob is one that an honest node gave, or none; every member of the
   committee is accounted for once, and no object of another blob is shown unless an
   honest node named it: for every committee, whatever up to f of the shards answer and
   in whatever order the nodes are heard (blob_status.py). *)
THEOREM VerdictIsEarnedAlways == Spec => []VerdictIsEarned
<1>1. InputInv => VerdictIsEarned
  <2> SUFFICES ASSUME InputInv, Is("query") PROVE VerdictIsEarned
    BY DEF VerdictIsEarned
  <2>1. \E order, said : QueryOf(input, order, said)
    BY DEF InputInv, QueryInput
  <2> QED
    BY <2>1, Accounted, HonestyPrevails DEF VerdictIsEarned
<1> QED
  BY <1>1, InputStays, PTL

(* A committee is handed out only whole, with the newest addresses, and a table that
   lists a pool twice is no reason to refuse it: for every staking object and every
   listing of the pools (committee.py). *)
THEOREM CommitteeIsWholeAlways == Spec => []CommitteeIsWhole
<1>1. InputInv => CommitteeIsWhole
  <2> SUFFICES ASSUME InputInv, Is("chain") PROVE CommitteeIsWhole
    BY DEF CommitteeIsWhole
  <2> DEFINE result == fetch_committee(input.fields, input.entries)
  <2>1. CASE input.fields = <<>>
    <3>1. fetch_staking_inner(input.fields) = Refused
      BY <2>1 DEF fetch_staking_inner
    <3>2. result = Refused
      BY <3>1 DEF fetch_committee
    <3> QED
      BY <2>1, <3>2 DEF CommitteeIsWhole
  <2>2. CASE \E inner : Listing(input.fields, inner, input.entries)
    <3>1. PICK inner : Listing(input.fields, inner, input.entries)
      BY <2>2
    <3>2. input.fields[2].value = inner
      BY <3>1 DEF Listing
    <3>3. ChainIsRegular(inner, input.entries) => result # Refused
      BY <3>1, RegularIsHandedOut
    <3>4. result # Refused => /\ CommitteeIsSound(result, input.entries)
                              /\ fetch_epoch(input.fields).epoch = result.epoch
      BY <3>1, WholeIfHandedOut
    <3> HIDE DEF result
    <3> QED
      BY <3>2, <3>3, <3>4 DEF CommitteeIsWhole, result
  <2> QED
    BY <2>1, <2>2 DEF InputInv, ChainInput
<1> QED
  BY <1>1, InputStays, PTL

(* A payment takes as few coins as any that cover the amount and is refused only when
   all of them do not, for every wallet (core/ops/coins.py). *)
THEOREM PaymentIsExactAlways == Spec => []PaymentIsExact
<1>1. InputInv => PaymentIsExact
  <2> SUFFICES ASSUME InputInv, Is("wallet") PROVE PaymentIsExact
    BY DEF PaymentIsExact
  <2> DEFINE coins == input.coins
             plan  == prepare_wal_coin_for_amount(coins, input.amount)
             first == preflight_payment(coins, input.tip, {"sender"}, 2, <<>>)
  <2>1. PICK n : Wallet(coins, n)
    BY DEF InputInv, WalletInput
  <2>2. input.amount \in Nat \ {0} /\ Tip(input.tip)
    BY DEF InputInv, WalletInput
  <2>3. /\ plan = NoPayment <=> total_balance(coins) < input.amount
        /\ plan # NoPayment => ExactPlan(coins, n, input.amount, plan)
    BY <2>1, <2>2, PlansAreExact
  <2>4. /\ first = NoPayment
             <=> coins = <<>>
                 \/ (input.tip /= <<>> /\ input.tip[1] /= [owner |-> "sender", balance |-> 2])
        /\ first # NoPayment => \A i \in DOMAIN coins : coins[i][2] <= coins[first.coin][2]
    BY <2>1, <2>2, PreflightIsRight
  <2>5. DOMAIN coins = 1 .. n
    BY <2>1 DEF Wallet
  <2> HIDE DEF plan, first
  <2> QED
    BY <2>3, <2>4, <2>5 DEF PaymentIsExact, ExactPlan, total_balance, plan, first
<1> QED
  BY <1>1, InputStays, PTL

(* With the user-defined networks excepted, the invariant holds throughout. *)
LEMMA SessionInvariant == Spec => []SessionInv(Names \ Reserved)
<1> DEFINE K == Names \ Reserved
<1>0. K \cap Reserved = {}
  OBVIOUS
<1>1. Init => SessionInv(K)
  <2>1. ASSUME model = Session!NoModel, file = Session!NoModel PROVE SessionInv(K)
    BY <2>1 DEF SessionInv, Session!CacheIsCurrent, Session!Open
  <2> QED
    BY <1>0, <2>1, SessionInitInv DEF Init
<1>2. SessionInv(K) /\ [Next]_vars => SessionInv(K)'
  <2>1. SessionInv(K) /\ UNCHANGED vars => SessionInv(K)'
    BY DEF vars, SessionInv, WellFormed, Session!CacheIsCurrent, Session!Open,
           Session!Resolves, Session!Path, Session!Group, Session!Profile, Session!Active
  <2> QED
    BY <1>0, <2>1, SessionNextInv DEF Next
<1> QED
  BY <1>1, <1>2, PTL DEF Spec

(* Through any edits, saves, torn saves and restarts of the configuration; and a network
   whose active relay it does not have was added like that. *)
THEOREM SessionStaysConsistent == Spec => SessionIsConsistent
<1>1. SessionInv(Names \ Reserved)
        => Session!ActiveRelayIsThere /\ Session!CacheIsCurrent /\ Session!SavedFileLoads
  BY SessionInvSuffices, (Names \ Reserved) \cap Reserved = {}
<1>2. ASSUME SessionInv(Names \ Reserved), [Next]_vars
      PROVE  [Session!StraysAreAdded]_<<model, file>>
  <2> SUFFICES ASSUME Next, ~ Session!add_network, ~ UNCHANGED <<model, file>>
               PROVE  Session!StrayNetworks' \subseteq Session!StrayNetworks
    BY <1>2 DEF vars, Session!StraysAreAdded
  <2>1. PICK K : K = Session!StrayNetworks
    OBVIOUS
  <2>2. \A m \in Session!Kept : WellFormed(m, Names \ Reserved)
    BY <1>2 DEF SessionInv, Session!Kept
  <2>3. K \cap Reserved = {}
    BY <2>1, <2>2 DEF Session!StrayNetworks, Session!Strays, Session!Networks,
                      WellFormed, ActiveIsThere
  <2>4. \A m \in Session!Kept : WellFormed(m, K)
    BY <2>1, <2>2 DEF Session!StrayNetworks, Session!Strays, Session!Networks,
                      WellFormed, ActiveIsThere
  <2>5. SessionInv(K)
    BY <1>2, <2>4, ModelIsThere DEF SessionInv, Session!Kept
  <2>6. SessionInv(K)'
    BY <2>3, <2>5, SessionNextInv DEF Next, vars
  <2>7. (\A m \in Session!Kept : WellFormed(m, K))'
    BY <2>6 DEF SessionInv, Session!Kept
  <2>8. Session!StrayNetworks' \subseteq K
    BY <2>7 DEF Session!StrayNetworks, Session!Strays, Session!Networks,
                WellFormed, ActiveIsThere
  <2> QED
    BY <2>1, <2>8
<1> QED
  BY <1>1, <1>2, SessionInvariant, PTL DEF Spec, SessionIsConsistent
=============================================================================
