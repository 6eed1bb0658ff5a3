----------------------------- MODULE TuskConfig -----------------------------
(***************************************************************************)
(* PytuskConfiguration (pytusk/config/tusk_config.py): the configuration   *)
(* a session holds, the file it was loaded from, and the pysui             *)
(* configuration it caches.  Operations change the session's model, and    *)
(* the file only when asked to persist; the process may end at any moment, *)
(* also in the middle of a write.                                          *)
(*                                                                         *)
(* A model is [version, path, active_network, networks]; a network is      *)
(* [group, profile, relays, active_relay], relays mapping names to the     *)
(* kind of their URL: "https" or "plain" (http to a host that is not       *)
(* loopback; it stands for every URL that RelayConfig refuses).  Names are *)
(* unique, as every operation keeps them; a network added with one relay   *)
(* name twice is left out.  Other fields are not distinguished.            *)
(***************************************************************************)
EXTENDS Integers, FiniteSets, Functions

CONSTANTS
  Custom,         \* names of user-defined networks
  Groups,         \* pysui groups and
  Profiles,       \* profiles of user-defined networks
  Relays,         \* names of relays the user may add
  Paths,          \* pysui configuration paths; the default one is among them
  Added,          \* bound: the networks that callers add, of CallersNetworks
  Overrides,      \* bound: what constructors are given, of CallersOverrides
  RelayNetworks   \* bound: the networks whose relays are edited, by what a session was given

VARIABLES
  model,    \* the session's model, or NoModel between sessions
  file,     \* the model in PytuskConfig.json, or NoModel, or Torn
  cached,   \* path, group and profile of the cached pysui configuration, or Nothing
  override  \* the path, group and profile given to the constructor, or Nothing for each

vars == <<model, file, cached, override>>

Nothing == "nothing"
NoModel == [absent |-> TRUE]
Torn    == [torn |-> TRUE]

_RESERVED_NETWORKS == {"testnet", "mainnet"}
_MYSTEN_RELAY_NAME == "mysten"
_CONFIG_VERSION    == 2        \* 1 stands for every older one
_DEFAULT_PATH      == CHOOSE p \in Paths : TRUE
_DEFAULT_GROUP     == "sui_gql_config"

(* Any WalrusNetworkConfig that can be constructed: its relays have been through
   RelayConfig, its active_relay through nothing. *)
CallersNetworks ==
  LET names == Relays \cup {_MYSTEN_RELAY_NAME}
  IN  [group : Groups, profile : Profiles,
       relays : UNION {[R -> {"https"}] : R \in SUBSET names},
       active_relay : names \cup {Nothing}]

CallersOverrides ==
  [path : Paths \cup {Nothing}, group : Groups \cup {Nothing},
   profile : Profiles \cup {Nothing}]

NoOverrides == [path |-> Nothing, group |-> Nothing, profile |-> Nothing]

-----------------------------------------------------------------------------
(* Models. *)

Network(profile) ==
  [group |-> _DEFAULT_GROUP, profile |-> profile,
   relays |-> [r \in {} |-> "https"], active_relay |-> Nothing]

seeded(net) ==
  LET relays == net.relays
  IN  [net EXCEPT
         !.relays = IF _MYSTEN_RELAY_NAME \in DOMAIN relays THEN relays
                    ELSE [r \in DOMAIN relays \cup {_MYSTEN_RELAY_NAME} |->
                            IF r \in DOMAIN relays THEN relays[r] ELSE "https"],
         !.active_relay = IF @ = Nothing THEN _MYSTEN_RELAY_NAME ELSE @]

seed_default_relays(m) ==
  LET networks == m.networks
  IN  [m EXCEPT !.networks =
         [n \in DOMAIN networks |->
            IF n \in _RESERVED_NETWORKS THEN seeded(networks[n]) ELSE networks[n]]]

Unseeded(version) ==
  [version |-> version, path |-> _DEFAULT_PATH, active_network |-> "testnet",
   networks |-> [n \in _RESERVED_NETWORKS |-> Network(n)]]

default_model == seed_default_relays(Unseeded(_CONFIG_VERSION))

migrate_model(m) ==
  IF m.version >= _CONFIG_VERSION THEN m
  ELSE [seed_default_relays(m) EXCEPT !.version = _CONFIG_VERSION]

(* RelayConfig.__post_init__, which from_json runs on every relay of the file. *)
valid_relay_url(url) == url = "https"

from_json(m) ==
  /\ m \notin {NoModel, Torn}
  /\ \A n \in DOMAIN m.networks : \A r \in DOMAIN m.networks[n].relays :
       valid_relay_url(m.networks[n].relays[r])

(* What the constructor needs of a file that is there. *)
Loadable(m) == from_json(m) /\ _RESERVED_NETWORKS \subseteq DOMAIN m.networks

Init ==
  /\ model = NoModel
  /\ file \in {NoModel, Unseeded(1), default_model}
  /\ cached = Nothing /\ override = NoOverrides

Open == model /= NoModel

(* write_text truncates the file first: a process that dies in between leaves it
   torn, and the session ends with it. *)
Write(m) ==
  \/ file' = m /\ model' = m
  \/ file' = Torn /\ model' = NoModel

Ends == cached' = Nothing /\ override' = NoOverrides

(* An operation that leaves m in memory; it may persist. *)
Set(m) ==
  \/ model' = m /\ UNCHANGED file
  \/ Write(m)

CacheKept  == IF model' = NoModel THEN Ends ELSE UNCHANGED <<cached, override>>
CacheReset == IF model' = NoModel THEN Ends ELSE cached' = Nothing /\ UNCHANGED override

-----------------------------------------------------------------------------
(* Sessions. *)

(* The constructor: a missing or an older file is written at once, a network named
   by the caller becomes the active one in memory. *)
Construct ==
  /\ model = NoModel
  /\ file = NoModel \/ Loadable(file)
  /\ LET loaded == IF file = NoModel THEN default_model ELSE migrate_model(file)
         wrote  == file = NoModel \/ loaded /= file
     IN  \E network \in DOMAIN loaded.networks \cup {Nothing}, given \in Overrides :
           LET m == IF network = Nothing THEN loaded
                    ELSE [loaded EXCEPT !.active_network = network]
           IN  /\ cached' = Nothing
               /\ \/ /\ model' = m /\ override' = given
                     /\ file' \in {m, IF wrote THEN loaded ELSE file}
                  \/ file' = Torn /\ model' = NoModel /\ override' = NoOverrides

SessionEnds == Open /\ model' = NoModel /\ Ends /\ UNCHANGED file

(* The user puts a file that does not load out of the way. *)
FileRemoved ==
  /\ model = NoModel /\ file /= NoModel /\ ~Loadable(file)
  /\ file' = NoModel
  /\ UNCHANGED <<model, cached, override>>

Active == model.networks[model.active_network]

(* What the constructor was given takes precedence, whichever network is active. *)
Path    == IF override.path    /= Nothing THEN override.path    ELSE model.path
Group   == IF override.group   /= Nothing THEN override.group   ELSE Active.group
Profile == IF override.profile /= Nothing THEN override.profile ELSE Active.profile

(* Group and Profile raise when they need an active network that is not there. *)
Resolves == model.active_network \in DOMAIN model.networks
              \/ Nothing \notin {override.group, override.profile}

(* pysui_configuration: made on first use, then kept. *)
pysui_configuration ==
  /\ Open /\ cached = Nothing
  /\ Resolves
  /\ cached' = <<Path, Group, Profile>>
  /\ UNCHANGED <<model, file, override>>

-----------------------------------------------------------------------------
(* Networks. *)

(* Broken: the cache is left as it is. *)
set_active_network_only ==
  /\ Open
  /\ \E n \in DOMAIN model.networks : Set([model EXCEPT !.active_network = n])
  /\ CacheKept

set_active_network ==
  /\ Open
  /\ \E n \in DOMAIN model.networks : Set([model EXCEPT !.active_network = n])
  /\ CacheReset

(* Adds a network as it is given, or replaces the one of that name. *)
add_network ==
  /\ Open
  /\ \E n \in Custom \ _RESERVED_NETWORKS, net \in Added :
       Set([model EXCEPT !.networks =
              [name \in DOMAIN @ \cup {n} |-> IF name = n THEN net ELSE @[name]]])
  /\ CacheReset

(* Neither the active network nor the cache is looked at. *)
remove_network ==
  /\ Open
  /\ \E n \in DOMAIN model.networks \ _RESERVED_NETWORKS :
       Set([model EXCEPT !.networks = Restrict(@, DOMAIN @ \ {n})])
  /\ CacheKept

set_pysui_config_path ==
  /\ Open
  /\ \E p \in Paths : Set([model EXCEPT !.path = p])
  /\ CacheReset

(* set_walrus_binary_path and the setters of a network's URLs and objects. *)
set_other_field ==
  /\ Open
  /\ Set(model)
  /\ CacheKept

-----------------------------------------------------------------------------
(* Relays. *)

Edited == RelayNetworks[override] \cap DOMAIN model.networks

With(n, relays, active) ==
  [model EXCEPT !.networks[n].relays = relays, !.networks[n].active_relay = active]

MadeActive(n, relay) == {relay, model.networks[n].active_relay}

add_relay ==
  /\ Open
  /\ \E n \in Edited : \E r \in Relays \ DOMAIN model.networks[n].relays :
       \E active \in MadeActive(n, r) :
         Set(With(n, [x \in DOMAIN model.networks[n].relays \cup {r} |->
                        IF x = r THEN "https" ELSE model.networks[n].relays[x]], active))
  /\ CacheKept

(* The new URL is not put through RelayConfig. *)
update_relay ==
  /\ Open
  /\ \E n \in Edited : \E r \in DOMAIN model.networks[n].relays :
       \E active \in MadeActive(n, r), url \in {"https", "plain"} :
         Set(With(n, [model.networks[n].relays EXCEPT ![r] = url], active))
  /\ CacheKept

remove_relay ==
  /\ Open
  /\ \E n \in Edited : \E r \in DOMAIN model.networks[n].relays :
       Set(With(n, Restrict(model.networks[n].relays, DOMAIN model.networks[n].relays \ {r}),
                IF model.networks[n].active_relay = r THEN Nothing
                ELSE model.networks[n].active_relay))
  /\ CacheKept

(* <<>> when it raises. *)
relay_url_for(m, network, relay) ==
  LET net      == m.networks[network]
      resolved == IF relay = Nothing THEN net.active_relay ELSE relay
  IN  IF network \notin DOMAIN m.networks \/ resolved \notin DOMAIN net.relays THEN <<>>
      ELSE <<net.relays[resolved]>>

-----------------------------------------------------------------------------
Next ==
  \/ Construct \/ SessionEnds \/ FileRemoved \/ pysui_configuration
  \/ set_active_network \/ add_network \/ remove_network
  \/ set_pysui_config_path \/ set_other_field
  \/ add_relay \/ update_relay \/ remove_relay

Spec == Init /\ [][Next]_vars

-----------------------------------------------------------------------------
(* Properties. *)

Networks(m) == DOMAIN m.networks

Kept == {model, file} \ {NoModel, Torn}

(* The active relay of a built-in network is one it has, so that a write that names
   none finds one; after any edits, saves, torn saves and reloads (relay_url_for). *)
ActiveRelayIsThere ==
  \A m \in Kept : \A n \in Networks(m) \cap _RESERVED_NETWORKS :
    m.networks[n].active_relay /= Nothing => relay_url_for(m, n, Nothing) /= <<>>

(* That of a user-defined network need not be, since add_network takes it as given;
   but nothing else makes it stray. *)
Strays(net) == net.active_relay \notin DOMAIN net.relays \cup {Nothing}

StrayNetworks == UNION {{n \in Networks(m) : Strays(m.networks[n])} : m \in Kept}

StraysAreAdded == StrayNetworks' \subseteq StrayNetworks \/ add_network

(* The cached pysui configuration is the one that pysui_config_path, pysui_group_name
   and pysui_profile_name ask for now, unless they would raise because the active
   network has been removed.  So where the constructor was given neither group nor
   profile, no operation moves the session to another network and leaves transactions
   going to the old one; where it was given them, every network is used with them. *)
CacheIsCurrent ==
  Open /\ cached /= Nothing /\ Resolves => cached = <<Path, Group, Profile>>

(* Whatever was saved loads again, unless update_relay put a URL into it that
   RelayConfig refuses. *)
SavedFileLoads ==
  file \notin {NoModel, Torn} =>
    \/ Loadable(file)
    \/ \E n \in Networks(file) : "plain" \in Range(file.networks[n].relays)
=============================================================================
