------------------------------ MODULE Registry ------------------------------
(***************************************************************************)
(* The daemon's registry of native adapters (adapter.go): which connection *)
(* speaks for which agent, and the names that survive a restart.           *)
(*                                                                         *)
(* An identity has a key, made from the name or the session its first      *)
(* registration gave, and a record with the name it bears now and a token  *)
(* by which a client of it is recognised later.  Every method holds d.mu   *)
(* from start to end; what may happen in between is a look at the pane     *)
(* before a registration, the pane rename inside a claim, and the steps of *)
(* a roster refresh.                                                       *)
(***************************************************************************)
EXTENDS Naturals

CONSTANTS
  Org,        \* enrollments
  Name,       \* agent names
  AutoNames,  \* the names generateAutoName may draw
  Labels,     \* the names a pane may bear
  Claims,     \* the names agents claim
  Session,    \* session ids
  Pane,       \* Herdr panes
  Token,      \* identity tokens
  Conn,       \* connections of adapters
  Frames,     \* what clients register with: org, session, pane, declared name
  Saves,      \* outcomes of writing native_names.json
  None,
  MaxFaults   \* bound on pane renames and daemon restarts

Key == (Org \X {"name"} \X Name) \union (Org \X {"session"} \X Session)
By == {"user", "herdr", "auto"}
Record == [name : Name, namedBy : By, token : Token]

ASSUME RegistryAssumption ==
  /\ AutoNames \subseteq Name /\ Labels \subseteq Name /\ Claims \subseteq Name
  /\ None \notin Name \union Session \union Pane \union Token \union Conn
  /\ None \notin Key \union Record \union Frames
  /\ Frames \subseteq [org : Org, session : Session, pane : Pane \union {None},
                       name : Name \union {None}]
  /\ Saves \subseteq BOOLEAN /\ MaxFaults \in Nat

VARIABLES
  names,      \* nativeNames: key -> record
  disk,       \* native_names.json
  tokens,     \* nativeTokens: token -> key
  adapters,   \* adapters: key -> connection
  byName,     \* nativeByName: enrollment -> name -> connection
  conn,       \* the connections, with the adapter each one registered
  panes,      \* the name each pane has in Herdr
  cached,     \* herdrAgents: the last snapshot of panes
  refresh,    \* refreshRoster: its snapshot and the adapters left to rename
  torn,       \* history: a registration failed after it had changed the maps
  faults

vars == <<names, disk, tokens, adapters, byName, conn, panes, cached, refresh, torn, faults>>

Adapter == [phase : {"free", "asked", "live", "closing"}, frame : Frames \union {None},
            token : Token \union {None}, label : Name \union {None},
            key : Key \union {None}, name : Name \union {None}, namedBy : By,
            anchor : {"token", "name", "session"}, claim : Name \union {None}]
Free == [phase |-> "free", frame |-> None, token |-> None, label |-> None, key |-> None,
         name |-> None, namedBy |-> "auto", anchor |-> "session", claim |-> None]
Resting == [busy |-> FALSE, snap |-> [p \in Pane |-> None], todo |-> {}]

Empty == [k \in Key |-> None]
NoRoutes == [o \in Org |-> [n \in Name |-> None]]

Init ==
  /\ names = Empty /\ disk = Empty /\ tokens = [t \in Token |-> None]
  /\ adapters = Empty /\ byName = NoRoutes
  /\ conn = [c \in Conn |-> Free]
  /\ panes \in [Pane -> Labels \union {None}]
  /\ cached = [p \in Pane |-> None] /\ refresh = Resting
  /\ torn = FALSE /\ faults = 0

-----------------------------------------------------------------------------
(* The two maps of live adapters *)

Live(c) == conn[c].key # None /\ adapters[conn[c].key] = c

(* unbindNativeNameLocked: only the adapter that is bound is unbound *)
Unbound(routes, cs) ==
  [o \in Org |-> [n \in Name |->
     IF routes[o][n] \in cs /\ conn[routes[o][n]].frame.org = o /\ conn[routes[o][n]].name = n
     THEN None ELSE routes[o][n]]]

(* An adapter object lives on while something refers to it *)
Unused(c) == /\ conn[c].claim = None /\ c \notin refresh.todo
             /\ Live(c) \/ ~\E o \in Org, n \in Name : byName[o][n] = c

(* variant: whoever bears the name is unbound *)
DeregisterByName(c) ==
  /\ conn[c].phase \in {"live", "closing"}
  /\ byName' = [byName EXCEPT ![conn[c].frame.org][conn[c].name] = None]
  /\ adapters' = [k \in Key |-> IF adapters[k] = c THEN None ELSE adapters[k]]
  /\ \/ conn[c].phase = "live" /\ conn' = [conn EXCEPT ![c].phase = "closing"]
     \/ Unused(c) /\ conn' = [conn EXCEPT ![c] = Free]
  /\ UNCHANGED <<names, disk, tokens, panes, cached, refresh, torn, faults>>

(* deregisterAgentAdapter, by the connection's own goroutine when it ends, or *)
(* by a delivery whose write failed while that goroutine still reads          *)
Deregister(c) ==
  /\ conn[c].phase \in {"live", "closing"}
  /\ IF Live(c)
     THEN /\ adapters' = [adapters EXCEPT ![conn[c].key] = None]
          /\ byName' = Unbound(byName, {c})
     ELSE UNCHANGED <<adapters, byName>>
  /\ \/ conn[c].phase = "live" /\ conn' = [conn EXCEPT ![c].phase = "closing"]
     \/ Unused(c) /\ conn' = [conn EXCEPT ![c] = Free]
  /\ UNCHANGED <<names, disk, tokens, panes, cached, refresh, torn, faults>>

-----------------------------------------------------------------------------
(* Registration *)

(* paneAgentForRegistration: the snapshot, and on a miss Herdr itself, which *)
(* may not answer; a pane without a name is as good as none                  *)
Seen(p) == IF p = None THEN {None}
           ELSE IF cached[p] # None THEN {cached[p]} ELSE {panes[p], None}

(* The register frame arrives and its pane is looked up, before the lock *)
Ask(c, f, t) ==
  /\ conn[c] = Free
  /\ t # None => tokens[t] # None
  /\ \E label \in Seen(f.pane) :
       conn' = [conn EXCEPT ![c] = [Free EXCEPT !.phase = "asked", !.frame = f,
                                                !.token = t, !.label = label]]
  /\ UNCHANGED <<names, disk, tokens, adapters, byName, panes, cached, refresh, torn, faults>>

(* A token the daemon knows, and issued in this organization *)
Recognised(c) ==
  /\ conn[c].token # None /\ tokens[conn[c].token] # None
  /\ tokens[conn[c].token][1] = conn[c].frame.org

(* The declared name is that of an adapter of another session and pane *)
Contested(c) ==
  LET f == conn[c].frame IN
  /\ ~Recognised(c) /\ f.name # None
  /\ LET held == byName[f.org][f.name] IN
     /\ held # None
     /\ conn[held].frame.session # f.session /\ conn[held].frame.pane # f.pane

(* ... but the client's own pane bears another name, which it takes instead *)
Yields(c) == Contested(c) /\ conn[c].label \notin {None, conn[c].frame.name}

Declared(c) == IF Recognised(c) \/ Yields(c) THEN None ELSE conn[c].frame.name

Anchor(c) == IF Recognised(c) THEN "token" ELSE IF Declared(c) # None THEN "name" ELSE "session"

(* adapterKeyLocked *)
KeyFor(c) ==
  LET f == conn[c].frame IN
  IF Recognised(c) THEN tokens[conn[c].token]
  ELSE IF Declared(c) # None THEN <<f.org, "name", Declared(c)>>
  ELSE <<f.org, "session", f.session>>

(* A stored name is kept, unless it was invented and the pane now has one *)
Keeps(c) ==
  LET r == names[KeyFor(c)] IN
  /\ Declared(c) = None /\ r # None
  /\ ~(r.namedBy = "auto" /\ conn[c].label \notin {None, r.name})

Taken(c) ==
  {names[k].name : k \in {j \in Key : j # KeyFor(c) /\ j[1] = conn[c].frame.org /\ names[j] # None}}
    \union {cached[p] : p \in Pane}

(* The name a registration ends up with, and who chose it *)
Choices(c) ==
  IF Declared(c) # None THEN {<<Declared(c), "user">>}
  ELSE IF Keeps(c) THEN {<<names[KeyFor(c)].name, names[KeyFor(c)].namedBy>>}
  ELSE IF conn[c].label # None THEN {<<conn[c].label, "herdr">>}
  ELSE {<<n, "auto">> : n \in AutoNames \ Taken(c)}

(* absorbNameLocked: the other records of this name, and their live adapters *)
Absorbed(c, n) ==
  IF Keeps(c) THEN {}
  ELSE {k \in Key : k # KeyFor(c) /\ k[1] = conn[c].frame.org /\ names[k] # None /\ names[k].name = n}

Displaced(c, n) == {adapters[k] : k \in Absorbed(c, n) \union {KeyFor(c)}} \ {None}

(* variant: a new identity gets no token *)
TokensForKnown(c, n) ==
  IF names[KeyFor(c)] # None THEN {names[KeyFor(c)].token}
  ELSE IF Absorbed(c, n) # {} THEN {names[k].token : k \in Absorbed(c, n)} ELSE {None}

(* The token stays with the identity, passes on from an absorbed one, or is new *)
TokensFor(c, n) ==
  IF names[KeyFor(c)] # None THEN {names[KeyFor(c)].token}
  ELSE IF Absorbed(c, n) # {} THEN {names[k].token : k \in Absorbed(c, n)}
  ELSE {t \in Token : /\ tokens[t] = None /\ \A d \in Conn : conn[d].token # t
                      /\ \A k \in Key : disk[k] = None \/ disk[k].token # t}

Refuse(c) == conn' = [conn EXCEPT ![c] = Free]

(* name_taken for a contested name, name_allocation_failed *)
RegisterRefused(c) ==
  /\ conn[c].phase = "asked"
  /\ (Contested(c) /\ ~Yields(c)) \/ Choices(c) = {}
  /\ Refuse(c)
  /\ UNCHANGED <<names, disk, tokens, adapters, byName, panes, cached, refresh, torn, faults>>

(* What absorbNameLocked and the new record leave in memory *)
Recorded(c, n, by, t) ==
  LET gone == Absorbed(c, n) IN
  /\ names' = [k \in Key |-> IF k = KeyFor(c) THEN [name |-> n, namedBy |-> by, token |-> t]
                             ELSE IF k \in gone THEN None ELSE names[k]]
  /\ tokens' = [x \in Token |-> IF x = t THEN KeyFor(c)
                                ELSE IF tokens[x] \in gone THEN None ELSE tokens[x]]

Vacant(c, n) == [k \in Key |-> IF k \in Absorbed(c, n) THEN None ELSE adapters[k]]

Contends(c) == conn[c].phase = "asked" /\ ~(Contested(c) /\ ~Yields(c))
Occupied(c, n) == byName[conn[c].frame.org][n] \notin Displaced(c, n) \union {None}

Register(c) ==
  /\ Contends(c) /\ TRUE \in Saves
  /\ \E choice \in Choices(c) : LET n == choice[1] IN
       /\ ~Occupied(c, n)
       /\ \E t \in TokensFor(c, n) :
            /\ Recorded(c, n, choice[2], t)
            /\ conn' = [d \in Conn |->
                 IF d = c THEN [conn[c] EXCEPT !.phase = "live", !.token = t, !.label = None,
                                  !.key = KeyFor(c), !.name = n, !.namedBy = choice[2],
                                  !.anchor = Anchor(c)]
                 ELSE IF d \in Displaced(c, n) THEN [conn[d] EXCEPT !.phase = "closing"]
                 ELSE conn[d]]
       /\ adapters' = [Vacant(c, n) EXCEPT ![KeyFor(c)] = c]
       /\ byName' = [Unbound(byName, Displaced(c, n)) EXCEPT ![conn[c].frame.org][n] = c]
  /\ disk' = names'
  /\ UNCHANGED <<panes, cached, refresh, torn, faults>>

(* name_taken once more, after the records of the name have been absorbed *)
RegisterTaken(c) ==
  /\ Contends(c)
  /\ \E choice \in Choices(c) : LET n == choice[1] IN
       /\ Occupied(c, n)
       /\ names' = [k \in Key |-> IF k \in Absorbed(c, n) THEN None ELSE names[k]]
       /\ tokens' = [t \in Token |-> IF tokens[t] \in Absorbed(c, n) THEN None ELSE tokens[t]]
       /\ adapters' = Vacant(c, n)
       /\ torn' = (torn \/ Absorbed(c, n) # {})
  /\ Refuse(c)
  /\ UNCHANGED <<disk, byName, panes, cached, refresh, faults>>

(* name_persistence_failed: nothing is put back *)
RegisterUnsaved(c) ==
  /\ Contends(c) /\ FALSE \in Saves
  /\ \E choice \in Choices(c) : LET n == choice[1] IN
       /\ ~Occupied(c, n)
       /\ \E t \in TokensFor(c, n) : Recorded(c, n, choice[2], t)
       /\ adapters' = Vacant(c, n)
  /\ Refuse(c) /\ torn' = TRUE
  /\ UNCHANGED <<disk, byName, panes, cached, refresh, faults>>

-----------------------------------------------------------------------------
(* Renames *)

(* variant: only live adapters hold a name *)
MayBearUnrouted(c, n) == Live(c) /\ byName[conn[c].frame.org][n] \in {None, c}

(* nativeNameClaimErrorLocked *)
MayBear(c, n) ==
  /\ Live(c)
  /\ ~\E k \in Key \ {conn[c].key} :
         k[1] = conn[c].frame.org /\ names[k] # None /\ names[k].name = n
  /\ byName[conn[c].frame.org][n] \in {None, c}

(* variant: the previous name stays bound *)
RenameBindsOnly(c, n, by, then) ==
  \/ /\ MayBear(c, n) /\ TRUE \in Saves
     /\ names' = [names EXCEPT ![conn[c].key].name = n, ![conn[c].key].namedBy = by]
     /\ disk' = names'
     /\ byName' = [byName EXCEPT ![conn[c].frame.org][n] = c]
     /\ conn' = [conn EXCEPT ![c] = [then EXCEPT !.name = n, !.namedBy = by]]
  \/ /\ ~MayBear(c, n) \/ FALSE \in Saves
     /\ conn' = [conn EXCEPT ![c] = then] /\ UNCHANGED <<names, disk, byName>>

(* renameNativeAdapterLocked: a failed save leaves everything as it was *)
Rename(c, n, by, then) ==
  \/ /\ MayBear(c, n) /\ TRUE \in Saves
     /\ names' = [names EXCEPT ![conn[c].key].name = n, ![conn[c].key].namedBy = by]
     /\ disk' = names'
     /\ byName' = [Unbound(byName, {c}) EXCEPT ![conn[c].frame.org][n] = c]
     /\ conn' = [conn EXCEPT ![c] = [then EXCEPT !.name = n, !.namedBy = by]]
  \/ /\ ~MayBear(c, n) \/ FALSE \in Saves
     /\ conn' = [conn EXCEPT ![c] = then] /\ UNCHANGED <<names, disk, byName>>

(* The name Herdr shows for a pane; it has no two panes of one name *)
Labelled(p, n) == panes' = [panes EXCEPT ![p] = n] /\ \A q \in Pane \ {p} : panes[q] # n

(* claimCallerName: the claim is validated and the pane takes the name first, *)
(* if the snapshot has the pane and Herdr agrees ...                          *)
ClaimBegins(c, n) ==
  /\ conn[c].phase = "live" /\ conn[c].claim = None /\ MayBear(c, n)
  /\ \/ UNCHANGED panes
     \/ /\ conn[c].frame.pane # None /\ cached[conn[c].frame.pane] # None
        /\ n \in Labels /\ Labelled(conn[c].frame.pane, n)
  /\ conn' = [conn EXCEPT ![c].claim = n]
  /\ UNCHANGED <<names, disk, tokens, adapters, byName, cached, refresh, torn, faults>>

(* ... and then the adapter, if it may still *)
ClaimEnds(c) ==
  /\ conn[c].claim # None
  /\ Rename(c, conn[c].claim, "user", [conn[c] EXCEPT !.claim = None])
  /\ UNCHANGED <<tokens, adapters, panes, cached, refresh, torn, faults>>

(* refreshRoster: Herdr's list, and the adapters named after a pane whose *)
(* name has changed                                                       *)
RefreshBegins ==
  /\ ~refresh.busy
  /\ refresh' = [busy |-> TRUE, snap |-> panes,
                 todo |-> {c \in Conn : /\ Live(c) /\ conn[c].namedBy = "herdr"
                                        /\ conn[c].frame.pane # None
                                        /\ panes[conn[c].frame.pane] \notin {None, conn[c].name}}]
  /\ UNCHANGED <<names, disk, tokens, adapters, byName, conn, panes, cached, torn, faults>>

(* variant: the choice of adapters is not looked at again *)
RefreshRenamesChosen(c) ==
  /\ c \in refresh.todo
  /\ Rename(c, refresh.snap[conn[c].frame.pane], "herdr", conn[c])
  /\ refresh' = [refresh EXCEPT !.todo = @ \ {c}]
  /\ UNCHANGED <<tokens, adapters, panes, cached, torn, faults>>

(* reconcileHerdrAdapterNames, one adapter: its provenance is looked at again *)
RefreshRenames(c) ==
  /\ c \in refresh.todo
  /\ LET n == refresh.snap[conn[c].frame.pane] IN
     IF Live(c) /\ conn[c].namedBy = "herdr" /\ conn[c].name # n
     THEN Rename(c, n, "herdr", conn[c]) ELSE UNCHANGED <<names, disk, byName, conn>>
  /\ refresh' = [refresh EXCEPT !.todo = @ \ {c}]
  /\ UNCHANGED <<tokens, adapters, panes, cached, torn, faults>>

RefreshEnds ==
  /\ refresh.busy /\ refresh.todo = {}
  /\ cached' = refresh.snap /\ refresh' = Resting
  /\ UNCHANGED <<names, disk, tokens, adapters, byName, conn, panes, torn, faults>>

-----------------------------------------------------------------------------
(* Herdr, and the daemon's own restart *)

Fault == faults < MaxFaults /\ faults' = faults + 1

(* A person renames a pane, or the daemon names one that has no name *)
PaneRenamed(p, n) ==
  /\ Fault /\ Labelled(p, n)
  /\ UNCHANGED <<names, disk, tokens, adapters, byName, conn, cached, refresh, torn>>

(* newDaemon: the records are read and indexed, every connection is gone *)
Restart ==
  /\ Fault
  /\ names' = disk
  /\ tokens' = [t \in Token |->
       IF \E k \in Key : disk[k] # None /\ disk[k].token = t
       THEN CHOOSE k \in Key : disk[k] # None /\ disk[k].token = t ELSE None]
  /\ adapters' = Empty /\ byName' = NoRoutes
  /\ conn' = [c \in Conn |-> Free]
  /\ cached' = [p \in Pane |-> None] /\ refresh' = Resting
  /\ torn' = FALSE
  /\ UNCHANGED <<disk, panes>>

-----------------------------------------------------------------------------
Next ==
  \/ \E c \in Conn :
       \/ \E f \in Frames, t \in Token \union {None} : Ask(c, f, t)
       \/ RegisterRefused(c) \/ Register(c) \/ RegisterTaken(c) \/ RegisterUnsaved(c)
       \/ Deregister(c) \/ RefreshRenames(c)
       \/ \E n \in Claims : ClaimBegins(c, n)
       \/ ClaimEnds(c)
  \/ RefreshBegins \/ RefreshEnds
  \/ \E p \in Pane, n \in Labels : PaneRenamed(p, n)
  \/ Restart

Spec == Init /\ [][Next]_vars

-----------------------------------------------------------------------------
(* Properties *)

(* Every variable keeps its type; a connection has an adapter exactly from  *)
(* its registration on.                                                      *)
TypeOK ==
  /\ names \in [Key -> Record \union {None}] /\ disk \in [Key -> Record \union {None}]
  /\ tokens \in [Token -> Key \union {None}]
  /\ adapters \in [Key -> Conn \union {None}]
  /\ byName \in [Org -> [Name -> Conn \union {None}]]
  /\ conn \in [Conn -> Adapter]
  /\ \A c \in Conn : /\ conn[c].phase \in {"live", "closing"} => conn[c].key # None /\ conn[c].name # None
                     /\ conn[c].phase # "free" => conn[c].frame # None
  /\ panes \in [Pane -> Labels \union {None}] /\ cached \in [Pane -> Labels \union {None}]
  /\ refresh \in [busy : BOOLEAN, snap : [Pane -> Labels \union {None}], todo : SUBSET Conn]
  /\ torn \in BOOLEAN /\ faults \in 0..MaxFaults

(* Two identities of one organization never have the same name on record,   *)
(* and a token leads to the one identity that owns it, whatever             *)
(* registrations, claims, pane renames and failed writes do in between.      *)
IdentitiesApart ==
  /\ \A j, k \in Key : j # k /\ j[1] = k[1] /\ names[j] # None /\ names[k] # None =>
       names[j].name # names[k].name
  /\ \A t \in Token, k \in Key : tokens[t] = k <=> names[k] # None /\ names[k].token = t

(* An adapter that is registered is the one its name routes to: it gets the  *)
(* deliveries for the address it was given.                                  *)
LiveIsRouted ==
  \A c \in Conn : Live(c) => conn[c].phase = "live" /\ byName[conn[c].frame.org][conn[c].name] = c

(* A name never routes to an adapter that is no longer registered, and what  *)
(* an adapter was told is what a restarted daemon will read back.            *)
RouteIsLive ==
  torn \/ /\ \A o \in Org, n \in Name : byName[o][n] # None =>
               Live(byName[o][n]) /\ conn[byName[o][n]].name = n /\ conn[byName[o][n]].frame.org = o
          /\ \A c \in Conn : Live(c) =>
               disk[conn[c].key] = [name |-> conn[c].name, namedBy |-> conn[c].namedBy,
                                    token |-> conn[c].token]

(* "Explicit Transit claims remain authoritative": the name a live adapter    *)
(* has by claim or declaration changes only by a claim of its own, even when  *)
(* a refresh chose it for a rename while Herdr still named it.                *)
ClaimsAuthoritative ==
  [][\A c \in Conn : Live(c) /\ Live(c)' /\ conn[c].namedBy = "user" =>
       conn'[c].name \in {conn[c].name, conn[c].claim}]_vars

=============================================================================
