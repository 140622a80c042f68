--------------------------- MODULE RegistryProofs ---------------------------
(***************************************************************************)
(* Proofs about Registry, for every set of enrollments, names, sessions,   *)
(* panes, tokens and connections, whatever clients register with, with     *)
(* writes that fail and any number of faults.                              *)
(***************************************************************************)
EXTENDS Registry, TLAPS

-----------------------------------------------------------------------------
(* The inductive invariant *)

(* What is on disk was once in memory: names and tokens are apart there too. *)
SavedApart ==
  \A j, k \in Key : j # k /\ disk[j] # None /\ disk[k] # None =>
    /\ disk[j].token # disk[k].token
    /\ j[1] = k[1] => disk[j].name # disk[k].name

(* The adapter a connection registered belongs to the connection's own       *)
(* organization, and the connection is open or closing.                      *)
Anchored ==
  \A c \in Conn : conn[c].key # None =>
    /\ conn[c].phase \in {"live", "closing"}
    /\ conn[c].frame \in Frames /\ conn[c].key[1] = conn[c].frame.org

(* Only an identity on record has an adapter, and the adapter knows its key. *)
AdapterRecorded ==
  \A k \in Key : adapters[k] # None => names[k] # None /\ conn[adapters[k]].key = k

(* An adapter that a refresh is going to rename has a pane, and a name there. *)
TodoNamed ==
  \A c \in refresh.todo :
    /\ conn[c].phase \in {"live", "closing"} /\ conn[c].frame.pane \in Pane
    /\ refresh.snap[conn[c].frame.pane] # None

IInv == /\ TypeOK /\ IdentitiesApart /\ SavedApart /\ Anchored
        /\ AdapterRecorded /\ TodoNamed /\ LiveIsRouted

(* A name that is routed leads to an adapter that is registered under it. *)
RoutesLive ==
  \A o \in Org, n \in Name : byName[o][n] # None =>
    Live(byName[o][n]) /\ conn[byName[o][n]].name = n /\ conn[byName[o][n]].frame.org = o

(* What an adapter was told is what is on record for its identity. *)
ToldRecorded ==
  \A c \in Conn : Live(c) =>
    names[conn[c].key] = [name |-> conn[c].name, namedBy |-> conn[c].namedBy,
                          token |-> conn[c].token]

(* Until a registration fails halfway, memory and disk agree, and so do the  *)
(* routes, the records and the adapters.                                      *)
Honoured == torn \/ (disk = names /\ RoutesLive /\ ToldRecorded)

-----------------------------------------------------------------------------
(* Facts about the operators *)

(* Keys start with their organization, and None is not one of them. *)
LEMMA KeyShape ==
  /\ None \notin Key
  /\ \A k \in Key : k[1] \in Org
  /\ \A o \in Org, n \in Name : <<o, "name", n>> \in Key
  /\ \A o \in Org, s \in Session : <<o, "session", s>> \in Key
BY RegistryAssumption DEF Key

(* A frame has an organization, a session, a pane or none, a name or none. *)
LEMMA FrameShape ==
  /\ None \notin Name \union Pane \union Session \union Token \union Conn
  /\ \A f \in Frames : /\ f.org \in Org /\ f.session \in Session
                       /\ f.pane \in Pane \union {None} /\ f.name \in Name \union {None}
BY RegistryAssumption

(* Connections are adapters, with the fields of one. *)
LEMMA ConnShape ==
  ASSUME TypeOK, NEW c \in Conn
  PROVE  /\ conn[c] \in Adapter
         /\ conn[c].phase # "free" => conn[c].frame \in Frames
         /\ conn[c].token \in Token \union {None} /\ conn[c].label \in Name \union {None}
         /\ conn[c].key \in Key \union {None} /\ conn[c].name \in Name \union {None}
         /\ conn[c].claim \in Name \union {None}
         /\ conn[c].namedBy \in By
<1>1. conn[c] \in Adapter
  BY DEF TypeOK
<1>2. conn[c].phase # "free" => conn[c].frame # None
  BY DEF TypeOK
<1>. QED BY <1>1, <1>2 DEF Adapter

(* adapterKeyLocked yields a key of the client's organization. *)
LEMMA KeyForShape ==
  ASSUME TypeOK, NEW c \in Conn, conn[c].phase = "asked"
  PROVE  KeyFor(c) \in Key /\ KeyFor(c)[1] = conn[c].frame.org
<1>1. conn[c].frame \in Frames /\ conn[c].token \in Token \union {None}
  BY ConnShape
<1>2. conn[c].frame.org \in Org /\ conn[c].frame.session \in Session
      /\ conn[c].frame.name \in Name \union {None}
  BY <1>1, FrameShape
<1>3. CASE Recognised(c)
  <2>1. tokens[conn[c].token] \in Key
    BY <1>1, <1>3, KeyShape DEF Recognised, TypeOK
  <2>. QED BY <1>3, <2>1 DEF KeyFor, Recognised
<1>4. CASE ~Recognised(c) /\ Declared(c) # None
  <2>1. Declared(c) = conn[c].frame.name
    BY <1>4 DEF Declared
  <2>2. KeyFor(c) = <<conn[c].frame.org, "name", conn[c].frame.name>>
    BY <1>4, <2>1 DEF KeyFor
  <2>. QED BY <1>2, <1>4, <2>1, <2>2, KeyShape
<1>5. CASE ~Recognised(c) /\ Declared(c) = None
  <2>1. KeyFor(c) = <<conn[c].frame.org, "session", conn[c].frame.session>>
    BY <1>5 DEF KeyFor
  <2>. QED BY <1>2, <2>1, KeyShape
<1>. QED BY <1>3, <1>4, <1>5

(* The name a registration ends up with is a name; no other identity of the  *)
(* organization keeps it.                                                    *)
LEMMA ChoiceShape ==
  ASSUME IInv, NEW c \in Conn, conn[c].phase = "asked", NEW choice \in Choices(c)
  PROVE  /\ choice[1] \in Name /\ choice[2] \in By
         /\ \A k \in Key : k # KeyFor(c) /\ k[1] = conn[c].frame.org /\ names[k] # None
                           /\ names[k].name = choice[1] => k \in Absorbed(c, choice[1])
<1>1. KeyFor(c) \in Key /\ KeyFor(c)[1] = conn[c].frame.org
  BY KeyForShape DEF IInv
<1>2. conn[c].frame \in Frames /\ conn[c].label \in Name \union {None}
  BY ConnShape DEF IInv
<1>3. CASE Declared(c) # None
  <2>1. choice = <<Declared(c), "user">> /\ ~Keeps(c)
    BY <1>3 DEF Choices, Keeps
  <2>2. Declared(c) \in Name
    BY <1>2, <1>3, FrameShape DEF Declared
  <2>. QED BY <2>1, <2>2 DEF Absorbed, By
<1>4. CASE Declared(c) = None /\ Keeps(c)
  <2>1. choice = <<names[KeyFor(c)].name, names[KeyFor(c)].namedBy>>
    BY <1>4 DEF Choices
  <2>2. names[KeyFor(c)] \in Record
    BY <1>1, <1>4 DEF Keeps, IInv, TypeOK
  <2>3. \A k \in Key : k # KeyFor(c) /\ k[1] = conn[c].frame.org /\ names[k] # None =>
                       names[k].name # names[KeyFor(c)].name
    BY <1>1, <1>4 DEF Keeps, IInv, IdentitiesApart
  <2>. QED BY <2>1, <2>2, <2>3 DEF Record
<1>5. CASE Declared(c) = None /\ ~Keeps(c) /\ conn[c].label # None
  <2>1. choice = <<conn[c].label, "herdr">>
    BY <1>5 DEF Choices
  <2>. QED BY <1>2, <1>5, <2>1 DEF Absorbed, By
<1>6. CASE Declared(c) = None /\ ~Keeps(c) /\ conn[c].label = None
  <2>1. PICK n \in AutoNames \ Taken(c) : choice = <<n, "auto">>
    BY <1>6 DEF Choices
  <2>. QED BY <1>6, <2>1, RegistryAssumption DEF Absorbed, By
<1>. QED BY <1>3, <1>4, <1>5, <1>6

(* The token a registration ends up with is that of the identity, of one it  *)
(* absorbs, or nobody's.                                                     *)
LEMMA TokenShape ==
  ASSUME IInv, NEW c \in Conn, conn[c].phase = "asked", NEW n \in Name,
         NEW t \in TokensFor(c, n)
  PROVE  t \in Token /\ tokens[t] \in Absorbed(c, n) \union {KeyFor(c), None}
<1>1. KeyFor(c) \in Key
  BY KeyForShape DEF IInv
<1>2. \A k \in Key : names[k] # None => names[k].token \in Token /\ tokens[names[k].token] = k
  <2>. SUFFICES ASSUME NEW k \in Key, names[k] # None
                PROVE  names[k].token \in Token /\ tokens[names[k].token] = k
    OBVIOUS
  <2>1. names[k] \in Record
    BY DEF IInv, TypeOK
  <2>. QED BY <2>1 DEF IInv, IdentitiesApart, Record
<1>3. Absorbed(c, n) \subseteq {k \in Key : names[k] # None}
  BY DEF Absorbed
<1>4. CASE names[KeyFor(c)] # None
  BY <1>1, <1>2, <1>4 DEF TokensFor
<1>5. CASE names[KeyFor(c)] = None /\ Absorbed(c, n) # {}
  <2>1. PICK k \in Absorbed(c, n) : t = names[k].token
    BY <1>5 DEF TokensFor
  <2>. QED BY <1>2, <1>3, <2>1
<1>6. CASE names[KeyFor(c)] = None /\ Absorbed(c, n) = {}
  BY <1>6 DEF TokensFor
<1>. QED BY <1>4, <1>5, <1>6

(* After absorbNameLocked and the new record, identities are still apart. *)
LEMMA RecordedApart ==
  ASSUME IInv, NEW c \in Conn, conn[c].phase = "asked", NEW choice \in Choices(c),
         NEW t \in TokensFor(c, choice[1]), Recorded(c, choice[1], choice[2], t)
  PROVE  /\ names' \in [Key -> Record \union {None}]
         /\ tokens' \in [Token -> Key \union {None}]
         /\ IdentitiesApart'
         /\ \A k \in Key : names[k] # None /\ k \notin Absorbed(c, choice[1]) => names'[k] # None
         /\ names'[KeyFor(c)] # None
<1>. PICK key : key = KeyFor(c)
  OBVIOUS
<1>. PICK n : n = choice[1]
  OBVIOUS
<1>. PICK gone : gone = Absorbed(c, n)
  OBVIOUS
<1>. PICK r : r = [name |-> n, namedBy |-> choice[2], token |-> t]
  OBVIOUS
<1>1. key \in Key /\ key[1] = conn[c].frame.org
  BY KeyForShape DEF IInv
<1>2. /\ n \in Name /\ choice[2] \in By
      /\ \A k \in Key : k # key /\ k[1] = key[1] /\ names[k] # None /\ names[k].name = n => k \in gone
  BY <1>1, ChoiceShape
<1>3. t \in Token /\ tokens[t] \in gone \union {key, None}
  BY <1>2, TokenShape
<1>4. r \in Record /\ r.name = n /\ r.token = t /\ r # None
  <2>1. r \in Record /\ r.name = n /\ r.token = t
    BY <1>2, <1>3 DEF Record
  <2>2. r # None
    BY <2>1, RegistryAssumption
  <2>. QED BY <2>1, <2>2
<1>5. names' = [k \in Key |-> IF k = key THEN r ELSE IF k \in gone THEN None ELSE names[k]]
  BY DEF Recorded
<1>6. tokens' = [x \in Token |-> IF x = t THEN key ELSE IF tokens[x] \in gone THEN None ELSE tokens[x]]
  BY DEF Recorded
<1>7. names' \in [Key -> Record \union {None}] /\ tokens' \in [Token -> Key \union {None}]
  BY <1>1, <1>4, <1>5, <1>6 DEF IInv, TypeOK
<1>8. key \notin gone /\ None \notin gone /\ gone \subseteq Key
  BY KeyShape DEF Absorbed
<1>9. ASSUME NEW j \in Key, NEW k \in Key, j # k, j[1] = k[1], names'[j] # None, names'[k] # None
      PROVE  names'[j].name # names'[k].name
  <2>1. CASE j # key /\ k # key
    <3>1. names'[j] = names[j] /\ names'[k] = names[k]
      BY <1>5, <1>9, <2>1
    <3>. QED BY <1>9, <3>1 DEF IInv, IdentitiesApart
  <2>2. CASE j = key
    <3>1. names'[j] = r /\ names'[k] = names[k] /\ k \notin gone
      BY <1>5, <1>9, <2>2
    <3>. QED BY <1>2, <1>4, <1>9, <2>2, <3>1
  <2>3. CASE k = key
    <3>1. names'[k] = r /\ names'[j] = names[j] /\ j \notin gone
      BY <1>5, <1>9, <2>3
    <3>. QED BY <1>2, <1>4, <1>9, <2>3, <3>1
  <2>. QED BY <2>1, <2>2, <2>3
<1>10. ASSUME NEW x \in Token, NEW k \in Key
       PROVE  tokens'[x] = k <=> names'[k] # None /\ names'[k].token = x
  <2>0. tokens[x] = k <=> names[k] # None /\ names[k].token = x
    BY DEF IInv, IdentitiesApart
  <2>t. tokens[t] = k <=> names[k] # None /\ names[k].token = t
    BY <1>3 DEF IInv, IdentitiesApart
  <2>1. CASE k = key
    <3>1. names'[k] = r
      BY <1>5, <2>1
    <3>2. x # t => tokens'[x] # key
      <4>. SUFFICES ASSUME x # t, tokens'[x] = key PROVE FALSE
        OBVIOUS
      <4>1. tokens[x] = key
        BY <1>1, <1>6, KeyShape
      <4>2. names[key] # None /\ names[key].token = x
        BY <2>0, <2>1, <4>1
      <4>3. t = names[key].token
        BY <4>2 DEF TokensFor
      <4>. QED BY <4>2, <4>3
    <3>. QED BY <1>4, <1>6, <2>1, <3>1, <3>2
  <2>2. CASE k # key /\ k \in gone
    <3>1. names'[k] = None
      BY <1>5, <2>2
    <3>2. tokens'[x] # k
      BY <1>6, <1>8, <2>2
    <3>. QED BY <3>1, <3>2
  <2>3. CASE k # key /\ k \notin gone
    <3>1. names'[k] = names[k]
      BY <1>5, <2>3
    <3>2. CASE x = t
      <4>1. tokens'[x] # k
        BY <1>6, <2>3, <3>2
      <4>2. tokens[t] # k
        BY <1>3, <2>3, KeyShape
      <4>. QED BY <2>t, <3>1, <3>2, <4>1, <4>2
    <3>3. CASE x # t
      <4>1. tokens'[x] = k <=> tokens[x] = k
        BY <1>6, <1>8, <2>3, <3>3, KeyShape
      <4>. QED BY <2>0, <3>1, <4>1
    <3>. QED BY <3>2, <3>3
  <2>. QED BY <2>1, <2>2, <2>3
<1>11. IdentitiesApart'
  BY <1>9, <1>10 DEF IdentitiesApart
<1>12. /\ \A k \in Key : names[k] # None /\ k \notin gone => names'[k] # None
       /\ names'[key] # None
  BY <1>1, <1>4, <1>5
<1>. QED BY <1>7, <1>11, <1>12

(* A save after which identities are apart in memory leaves them apart on disk. *)
LEMMA SaveApart ==
  ASSUME names' \in [Key -> Record \union {None}], IdentitiesApart', disk' = names'
  PROVE  SavedApart'
<1>1. ASSUME NEW k \in Key, names'[k] # None
      PROVE  names'[k].token \in Token /\ tokens'[names'[k].token] = k
  <2>1. names'[k] \in Record
    BY <1>1
  <2>. QED BY <1>1, <2>1 DEF IdentitiesApart, Record
<1>. QED BY <1>1 DEF SavedApart, IdentitiesApart

(* Identities that are dropped leave the others apart. *)
LEMMA DropApart ==
  ASSUME TypeOK, IdentitiesApart, NEW gone \in SUBSET Key,
         names' = [k \in Key |-> IF k \in gone THEN None ELSE names[k]],
         tokens' = [t \in Token |-> IF tokens[t] \in gone THEN None ELSE tokens[t]]
  PROVE  /\ names' \in [Key -> Record \union {None}]
         /\ tokens' \in [Token -> Key \union {None}]
         /\ IdentitiesApart'
<1>1. names' \in [Key -> Record \union {None}] /\ tokens' \in [Token -> Key \union {None}]
  BY DEF TypeOK
<1>2. ASSUME NEW j \in Key, NEW k \in Key, j # k, j[1] = k[1], names'[j] # None, names'[k] # None
      PROVE  names'[j].name # names'[k].name
  <2>1. names'[j] = names[j] /\ names'[k] = names[k]
    BY <1>2
  <2>. QED BY <1>2, <2>1 DEF IdentitiesApart
<1>3. ASSUME NEW t \in Token, NEW k \in Key
      PROVE  tokens'[t] = k <=> names'[k] # None /\ names'[k].token = t
  <2>1. CASE k \in gone
    <3>1. names'[k] = None /\ tokens'[t] # k
      BY <2>1, KeyShape
    <3>. QED BY <3>1
  <2>2. CASE k \notin gone
    <3>1. names'[k] = names[k] /\ (tokens'[t] = k <=> tokens[t] = k)
      BY <2>2, KeyShape
    <3>. QED BY <3>1 DEF IdentitiesApart
  <2>. QED BY <2>1, <2>2
<1>. QED BY <1>1, <1>2, <1>3 DEF IdentitiesApart

(* Unbinding takes routes away only from the adapters it is about. *)
LEMMA UnboundShape ==
  ASSUME TypeOK, NEW cs
  PROVE  /\ Unbound(byName, cs) \in [Org -> [Name -> Conn \union {None}]]
         /\ \A o \in Org, n \in Name :
              byName[o][n] \notin cs => Unbound(byName, cs)[o][n] = byName[o][n]
BY DEF Unbound, TypeOK

(* A connection that carries no adapter. *)
LEMMA FreeShape ==
  Free \in Adapter /\ Free.phase = "free" /\ Free.key = None
BY DEF Free, Adapter, By

(* Nothing but an adapter's own step changes a connection that has one. *)
LEMMA Bystanders ==
  ASSUME IInv, NEW c \in Conn, conn[c].key = None
  PROVE  ~Live(c) /\ \A k \in Key : adapters[k] # c
BY FrameShape, KeyShape DEF IInv, AdapterRecorded, Live

(* A refused registration leaves no trace in the connections. *)
LEMMA RefuseShape ==
  ASSUME IInv, NEW c \in Conn, conn[c].phase = "asked", Refuse(c), UNCHANGED refresh
  PROVE  /\ conn' \in [Conn -> Adapter] /\ conn'[c] = Free /\ conn[c].key = None
         /\ \A d \in Conn : d # c => conn'[d] = conn[d]
         /\ \A d \in Conn : /\ conn'[d].phase \in {"live", "closing"} => conn'[d].key # None /\ conn'[d].name # None
                            /\ conn'[d].phase # "free" => conn'[d].frame # None
         /\ Anchored' /\ TodoNamed'
         /\ \A k \in Key : adapters[k] \in Conn => conn'[adapters[k]] = conn[adapters[k]]
<1>1. conn \in [Conn -> Adapter]
  BY DEF IInv, TypeOK
<1>2. conn'[c] = Free /\ \A d \in Conn : d # c => conn'[d] = conn[d]
  BY <1>1 DEF Refuse
<1>3. conn' \in [Conn -> Adapter]
  BY <1>1, FreeShape DEF Refuse
<1>4. conn[c].key = None
  BY DEF IInv, Anchored
<1>5. \A d \in Conn : /\ conn'[d].phase \in {"live", "closing"} => conn'[d].key # None /\ conn'[d].name # None
                      /\ conn'[d].phase # "free" => conn'[d].frame # None
  BY <1>2, FreeShape DEF IInv, TypeOK
<1>6. Anchored'
  BY <1>2, FreeShape DEF IInv, Anchored
<1>7. c \notin refresh.todo /\ refresh.todo \subseteq Conn
  BY DEF IInv, TodoNamed, TypeOK
<1>8. TodoNamed'
  BY <1>2, <1>7 DEF IInv, TodoNamed
<1>9. \A k \in Key : adapters[k] # c
  BY <1>4, Bystanders
<1>. QED BY <1>2, <1>3, <1>4, <1>5, <1>6, <1>8, <1>9

-----------------------------------------------------------------------------
(* The steps *)

(* A frame that arrives disturbs nothing: its connection has no adapter yet. *)
LEMMA AskStep ==
  ASSUME IInv, NEW c \in Conn, NEW f \in Frames, NEW t \in Token \union {None}, Ask(c, f, t)
  PROVE  IInv'
<1>1. PICK label \in Seen(f.pane) :
        conn' = [conn EXCEPT ![c] = [Free EXCEPT !.phase = "asked", !.frame = f,
                                                 !.token = t, !.label = label]]
  BY DEF Ask
<1>2. label \in Name \union {None}
  BY FrameShape, RegistryAssumption DEF Seen, IInv, TypeOK
<1>3. PICK a : a = [Free EXCEPT !.phase = "asked", !.frame = f, !.token = t, !.label = label]
  OBVIOUS
<1>4. a \in Adapter /\ a.phase = "asked" /\ a.key = None /\ a.frame = f
  BY <1>2, <1>3 DEF Free, Adapter, By
<1>5. conn'[c] = a /\ conn' \in [Conn -> Adapter] /\ \A d \in Conn : d # c => conn'[d] = conn[d]
  BY <1>1, <1>3, <1>4 DEF IInv, TypeOK
<1>6. conn[c].key = None /\ conn[c].phase = "free"
  BY FreeShape DEF Ask
<1>7. f # None
  BY RegistryAssumption
<1>8. TypeOK'
  BY <1>4, <1>5, <1>7 DEF Ask, IInv, TypeOK
<1>9. IdentitiesApart' /\ SavedApart'
  BY DEF Ask, IInv, IdentitiesApart, SavedApart
<1>10. Anchored'
  BY <1>4, <1>5 DEF IInv, Anchored
<1>11. AdapterRecorded'
  BY <1>5, <1>6, Bystanders DEF Ask, IInv, TypeOK, AdapterRecorded
<1>12. TodoNamed'
  BY <1>5, <1>6 DEF Ask, IInv, TypeOK, TodoNamed
<1>13. LiveIsRouted'
  <2>. SUFFICES ASSUME NEW d \in Conn, conn'[d].key # None, adapters'[conn'[d].key] = d
                PROVE  conn'[d].phase = "live" /\ byName'[conn'[d].frame.org][conn'[d].name] = d
    BY DEF LiveIsRouted, Live
  <2>1. conn'[d] = conn[d] /\ adapters' = adapters /\ byName' = byName
    BY <1>4, <1>5 DEF Ask
  <2>. QED BY <2>1 DEF IInv, LiveIsRouted, Live
<1>. QED BY <1>8, <1>9, <1>10, <1>11, <1>12, <1>13 DEF IInv

(* Only the adapter that is bound is unbound, and its record stays. *)
LEMMA DeregisterStep ==
  ASSUME IInv, NEW c \in Conn, Deregister(c)
  PROVE  IInv'
<1>1. conn \in [Conn -> Adapter] /\ conn[c] \in Adapter
  BY DEF IInv, TypeOK
<1>2. PICK a : a = conn'[c]
  OBVIOUS
<1>3. /\ a = [conn[c] EXCEPT !.phase = "closing"] \/ (a = Free /\ Unused(c))
      /\ \A d \in Conn : d # c => conn'[d] = conn[d]
      /\ conn' = [conn EXCEPT ![c] = a]
  BY <1>1, <1>2 DEF Deregister
<1>4. /\ a \in Adapter /\ a.phase \in {"closing", "free"} /\ a.key \in {None, conn[c].key}
      /\ a.phase = "closing" => /\ a.key = conn[c].key /\ a.name = conn[c].name
                                /\ a.frame = conn[c].frame
      /\ a.phase = "free" => a.key = None /\ Unused(c)
  <2>1. CASE a = [conn[c] EXCEPT !.phase = "closing"]
    BY <1>1, <2>1 DEF Adapter
  <2>2. CASE a = Free /\ Unused(c)
    BY <2>2, FreeShape
  <2>. QED BY <1>3, <2>1, <2>2
<1>5. conn' \in [Conn -> Adapter]
  BY <1>1, <1>3, <1>4
<1>6. /\ adapters' \in [Key -> Conn \union {None}]
      /\ \A k \in Key : adapters'[k] \in {None, adapters[k]} /\ adapters'[k] # c
  <2>1. CASE Live(c)
    <3>1. adapters' = [adapters EXCEPT ![conn[c].key] = None]
      BY <2>1 DEF Deregister
    <3>2. \A k \in Key : adapters[k] = c => k = conn[c].key
      BY FrameShape DEF IInv, AdapterRecorded
    <3>. QED BY <3>1, <3>2, FrameShape DEF IInv, TypeOK
  <2>2. CASE ~Live(c)
    <3>1. adapters' = adapters
      BY <2>2 DEF Deregister
    <3>2. \A k \in Key : adapters[k] = c => k = conn[c].key
      BY FrameShape DEF IInv, AdapterRecorded
    <3>3. \A k \in Key : adapters[k] # c
      BY <2>2, <3>2, KeyShape DEF Live
    <3>. QED BY <3>1, <3>3 DEF IInv, TypeOK
  <2>. QED BY <2>1, <2>2
<1>7. /\ byName' \in [Org -> [Name -> Conn \union {None}]]
      /\ \A o \in Org, n \in Name : byName[o][n] # c => byName'[o][n] = byName[o][n]
  <2>1. CASE Live(c)
    BY <2>1, UnboundShape DEF Deregister, IInv
  <2>2. CASE ~Live(c)
    BY <2>2 DEF Deregister, IInv, TypeOK
  <2>. QED BY <2>1, <2>2
<1>8. \A d \in Conn : /\ conn'[d].phase \in {"live", "closing"} => conn'[d].key # None /\ conn'[d].name # None
                      /\ conn'[d].phase # "free" => conn'[d].frame # None
  BY <1>2, <1>3, <1>4 DEF Deregister, IInv, TypeOK
<1>9. TypeOK'
  BY <1>5, <1>6, <1>7, <1>8 DEF Deregister, IInv, TypeOK
<1>10. IdentitiesApart' /\ SavedApart'
  BY DEF Deregister, IInv, IdentitiesApart, SavedApart
<1>11. Anchored'
  BY <1>2, <1>3, <1>4 DEF IInv, Anchored
<1>12. AdapterRecorded'
  BY <1>3, <1>6 DEF Deregister, IInv, TypeOK, AdapterRecorded
<1>13. TodoNamed'
  BY <1>2, <1>3, <1>4 DEF Deregister, IInv, TypeOK, TodoNamed, Unused
<1>14. LiveIsRouted'
  <2>. SUFFICES ASSUME NEW d \in Conn, conn'[d].key # None, adapters'[conn'[d].key] = d
                PROVE  conn'[d].phase = "live" /\ byName'[conn'[d].frame.org][conn'[d].name] = d
    BY DEF LiveIsRouted, Live
  <2>1. conn'[d].key \in Key
    BY <1>5 DEF Adapter
  <2>2. d # c /\ conn'[d] = conn[d] /\ adapters[conn[d].key] = d
    BY <1>3, <1>6, <2>1, FrameShape
  <2>3. conn[d].phase = "live" /\ byName[conn[d].frame.org][conn[d].name] = d
    BY <2>2 DEF IInv, LiveIsRouted, Live
  <2>4. conn[d].frame.org \in Org /\ conn[d].name \in Name
    BY <2>2, <2>3, ConnShape, FrameShape DEF IInv, TypeOK
  <2>. QED BY <1>7, <2>2, <2>3, <2>4
<1>. QED BY <1>9, <1>10, <1>11, <1>12, <1>13, <1>14 DEF IInv

(* Adapters that only disappear leave the others routed. *)
LEMMA StillRouted ==
  ASSUME IInv, UNCHANGED byName, conn' \in [Conn -> Adapter],
         \A d \in Conn : conn'[d].key # None => conn'[d] = conn[d],
         \A k \in Key : adapters'[k] \in {None, adapters[k]}
  PROVE  LiveIsRouted'
<1>. SUFFICES ASSUME NEW d \in Conn, conn'[d].key # None, adapters'[conn'[d].key] = d
              PROVE  conn'[d].phase = "live" /\ byName'[conn'[d].frame.org][conn'[d].name] = d
  BY DEF LiveIsRouted, Live
<1>1. conn'[d] = conn[d] /\ conn[d].key \in Key
  BY DEF Adapter
<1>2. adapters[conn[d].key] = d
  BY <1>1, FrameShape
<1>. QED BY <1>1, <1>2 DEF IInv, LiveIsRouted, Live

(* A refusal before the maps are touched changes nothing. *)
LEMMA RefusedStep ==
  ASSUME IInv, NEW c \in Conn, RegisterRefused(c)
  PROVE  IInv'
<1>1. conn[c].phase = "asked" /\ Refuse(c) /\ UNCHANGED refresh
  BY DEF RegisterRefused
<1>2. TypeOK'
  BY <1>1, RefuseShape DEF RegisterRefused, IInv, TypeOK
<1>3. IdentitiesApart' /\ SavedApart'
  BY DEF RegisterRefused, IInv, IdentitiesApart, SavedApart
<1>4. Anchored' /\ TodoNamed'
  BY <1>1, RefuseShape
<1>5. AdapterRecorded'
  BY <1>1, RefuseShape DEF RegisterRefused, IInv, TypeOK, AdapterRecorded
<1>6. LiveIsRouted'
  <2>1. \A d \in Conn : conn'[d].key # None => conn'[d] = conn[d]
    BY <1>1, RefuseShape, FreeShape
  <2>2. conn' \in [Conn -> Adapter]
    BY <1>1, RefuseShape
  <2>. QED BY <2>1, <2>2, StillRouted DEF RegisterRefused
<1>. QED BY <1>2, <1>3, <1>4, <1>5, <1>6 DEF IInv

(* A registration refused at the end leaves the identities apart, with or    *)
(* without a record of its own, and every other adapter routed.              *)
LEMMA TornStep ==
  ASSUME IInv, NEW c \in Conn, conn[c].phase = "asked", NEW n \in Name,
         names' \in [Key -> Record \union {None}], tokens' \in [Token -> Key \union {None}],
         IdentitiesApart', torn' \in BOOLEAN,
         \A k \in Key : names[k] # None /\ k \notin Absorbed(c, n) => names'[k] # None,
         adapters' = Vacant(c, n), Refuse(c),
         UNCHANGED <<disk, byName, panes, cached, refresh, faults>>
  PROVE  IInv'
<1>1. /\ adapters' \in [Key -> Conn \union {None}]
      /\ \A k \in Key : /\ adapters'[k] \in {None, adapters[k]}
                        /\ k \in Absorbed(c, n) => adapters'[k] = None
  BY DEF Vacant, IInv, TypeOK
<1>2. TypeOK'
  BY <1>1, RefuseShape DEF IInv, TypeOK
<1>3. SavedApart'
  BY DEF IInv, SavedApart
<1>4. Anchored' /\ TodoNamed'
  BY RefuseShape
<1>5. AdapterRecorded'
  <2>. SUFFICES ASSUME NEW k \in Key, adapters'[k] # None
                PROVE  names'[k] # None /\ conn'[adapters'[k]].key = k
    BY DEF AdapterRecorded
  <2>1. adapters'[k] = adapters[k] /\ k \notin Absorbed(c, n) /\ adapters[k] \in Conn
    BY <1>1 DEF IInv, TypeOK
  <2>2. names[k] # None /\ conn[adapters[k]].key = k
    BY <2>1 DEF IInv, AdapterRecorded
  <2>. QED BY <2>1, <2>2, RefuseShape
<1>6. LiveIsRouted'
  <2>1. \A d \in Conn : conn'[d].key # None => conn'[d] = conn[d]
    BY RefuseShape, FreeShape
  <2>2. conn' \in [Conn -> Adapter]
    BY RefuseShape
  <2>. QED BY <1>1, <2>1, <2>2, StillRouted
<1>. QED BY <1>2, <1>3, <1>4, <1>5, <1>6 DEF IInv

(* name_taken after the records of the name have been absorbed. *)
LEMMA TakenStep ==
  ASSUME IInv, NEW c \in Conn, RegisterTaken(c)
  PROVE  IInv'
<1>1. conn[c].phase = "asked" /\ Refuse(c)
  BY DEF RegisterTaken, Contends
<1>2. PICK choice \in Choices(c) :
        /\ names' = [k \in Key |-> IF k \in Absorbed(c, choice[1]) THEN None ELSE names[k]]
        /\ tokens' = [t \in Token |-> IF tokens[t] \in Absorbed(c, choice[1]) THEN None ELSE tokens[t]]
        /\ adapters' = Vacant(c, choice[1])
        /\ torn' = (torn \/ Absorbed(c, choice[1]) # {})
  BY DEF RegisterTaken
<1>3. choice[1] \in Name
  BY <1>1, ChoiceShape
<1>4. Absorbed(c, choice[1]) \in SUBSET Key
  BY DEF Absorbed
<1>5. /\ names' \in [Key -> Record \union {None}] /\ tokens' \in [Token -> Key \union {None}]
      /\ IdentitiesApart'
  BY <1>2, <1>4, DropApart DEF IInv
<1>6. torn' \in BOOLEAN
  BY <1>2
<1>7. \A k \in Key : names[k] # None /\ k \notin Absorbed(c, choice[1]) => names'[k] # None
  BY <1>2
<1>. QED BY <1>1, <1>2, <1>3, <1>5, <1>6, <1>7, TornStep DEF RegisterTaken

(* name_persistence_failed, with the new record already in memory. *)
LEMMA UnsavedStep ==
  ASSUME IInv, NEW c \in Conn, RegisterUnsaved(c)
  PROVE  IInv'
<1>1. conn[c].phase = "asked" /\ Refuse(c) /\ torn' \in BOOLEAN
  BY DEF RegisterUnsaved, Contends
<1>2. PICK choice \in Choices(c) :
        /\ \E t \in TokensFor(c, choice[1]) : Recorded(c, choice[1], choice[2], t)
        /\ adapters' = Vacant(c, choice[1])
  BY DEF RegisterUnsaved
<1>3. PICK t \in TokensFor(c, choice[1]) : Recorded(c, choice[1], choice[2], t)
  BY <1>2
<1>4. choice[1] \in Name
  BY <1>1, ChoiceShape
<1>5. /\ names' \in [Key -> Record \union {None}] /\ tokens' \in [Token -> Key \union {None}]
      /\ IdentitiesApart'
      /\ \A k \in Key : names[k] # None /\ k \notin Absorbed(c, choice[1]) => names'[k] # None
  BY <1>1, <1>3, RecordedApart
<1>. QED BY <1>1, <1>2, <1>4, <1>5, TornStep DEF RegisterUnsaved

(* A registration takes over the routes of those it displaces, and no others. *)
LEMMA RegisterStep ==
  ASSUME IInv, NEW c \in Conn, Register(c)
  PROVE  IInv'
<1>1. conn[c].phase = "asked" /\ conn[c].frame \in Frames /\ conn[c].frame.org \in Org
  BY ConnShape, FrameShape DEF Register, Contends, IInv
<1>2. PICK choice \in Choices(c) :
        /\ ~Occupied(c, choice[1])
        /\ \E t \in TokensFor(c, choice[1]) :
             /\ Recorded(c, choice[1], choice[2], t)
             /\ conn' = [d \in Conn |->
                  IF d = c THEN [conn[c] EXCEPT !.phase = "live", !.token = t, !.label = None,
                                   !.key = KeyFor(c), !.name = choice[1], !.namedBy = choice[2],
                                   !.anchor = Anchor(c)]
                  ELSE IF d \in Displaced(c, choice[1]) THEN [conn[d] EXCEPT !.phase = "closing"]
                  ELSE conn[d]]
        /\ adapters' = [Vacant(c, choice[1]) EXCEPT ![KeyFor(c)] = c]
        /\ byName' = [Unbound(byName, Displaced(c, choice[1])) EXCEPT ![conn[c].frame.org][choice[1]] = c]
  BY DEF Register
<1>3. PICK t \in TokensFor(c, choice[1]) :
        /\ Recorded(c, choice[1], choice[2], t)
        /\ conn' = [d \in Conn |->
             IF d = c THEN [conn[c] EXCEPT !.phase = "live", !.token = t, !.label = None,
                              !.key = KeyFor(c), !.name = choice[1], !.namedBy = choice[2],
                              !.anchor = Anchor(c)]
             ELSE IF d \in Displaced(c, choice[1]) THEN [conn[d] EXCEPT !.phase = "closing"]
             ELSE conn[d]]
  BY <1>2
<1>. PICK n : n = choice[1]
  OBVIOUS
<1>. PICK key : key = KeyFor(c)
  OBVIOUS
<1>. PICK out : out = Displaced(c, n)
  OBVIOUS
<1>4. key \in Key /\ key[1] = conn[c].frame.org /\ n \in Name /\ choice[2] \in By /\ t \in Token
  BY <1>1, <1>3, KeyForShape, ChoiceShape, TokenShape DEF IInv
<1>5. /\ names' \in [Key -> Record \union {None}] /\ tokens' \in [Token -> Key \union {None}]
      /\ IdentitiesApart'
      /\ \A k \in Key : names[k] # None /\ k \notin Absorbed(c, n) => names'[k] # None
      /\ names'[key] # None
  BY <1>1, <1>3, RecordedApart
<1>6. conn[c].key = None
  BY <1>1 DEF IInv, Anchored
<1>7. /\ conn'[c] \in Adapter /\ conn'[c].phase = "live" /\ conn'[c].key = key
      /\ conn'[c].name = n /\ conn'[c].frame = conn[c].frame
  <2>1. PICK a : a = [conn[c] EXCEPT !.phase = "live", !.token = t, !.label = None,
                        !.key = KeyFor(c), !.name = choice[1], !.namedBy = choice[2],
                        !.anchor = Anchor(c)]
    OBVIOUS
  <2>2. conn'[c] = a
    BY <1>3, <2>1
  <2>3. Anchor(c) \in {"token", "name", "session"}
    BY DEF Anchor
  <2>4. conn[c] \in Adapter
    BY ConnShape DEF IInv
  <2>5. a \in Adapter
    BY <1>4, <2>1, <2>3, <2>4 DEF Adapter
  <2>6. a.phase = "live" /\ a.key = key /\ a.name = n /\ a.frame = conn[c].frame
    BY <2>1, <2>4 DEF Adapter
  <2>. QED BY <2>2, <2>5, <2>6
<1>8. ASSUME NEW d \in Conn, d # c
      PROVE  /\ conn'[d] \in Adapter /\ conn'[d].key = conn[d].key /\ conn'[d].name = conn[d].name
             /\ conn'[d].frame = conn[d].frame
             /\ d \in out => conn'[d].phase = "closing"
             /\ d \notin out => conn'[d] = conn[d]
  <2>1. conn[d] \in Adapter
    BY ConnShape DEF IInv
  <2>2. CASE d \in out
    <3>1. conn'[d] = [conn[d] EXCEPT !.phase = "closing"]
      BY <1>3, <1>8, <2>2
    <3>. QED BY <2>1, <2>2, <3>1 DEF Adapter
  <2>3. CASE d \notin out
    <3>1. conn'[d] = conn[d]
      BY <1>3, <1>8, <2>3
    <3>. QED BY <2>1, <2>3, <3>1
  <2>. QED BY <2>2, <2>3
<1>9. conn' \in [Conn -> Adapter]
  BY <1>3, <1>7, <1>8
<1>10. ASSUME NEW d \in out
       PROVE  /\ d \in Conn /\ d # c /\ conn[d].key \in Absorbed(c, n) \union {key}
              /\ adapters[conn[d].key] = d /\ conn[d].phase \in {"live", "closing"}
  <2>1. PICK k \in Absorbed(c, n) \union {key} : d = adapters[k] /\ d # None
    BY DEF Displaced
  <2>2. k \in Key
    BY <1>4, <2>1 DEF Absorbed
  <2>3. d \in Conn /\ conn[d].key = k
    BY <2>1, <2>2 DEF IInv, TypeOK, AdapterRecorded
  <2>. QED BY <1>6, <2>1, <2>2, <2>3, KeyShape DEF IInv, Anchored
<1>11. /\ adapters' \in [Key -> Conn \union {None}] /\ adapters'[key] = c
       /\ \A k \in Key : k # key => adapters'[k] \in {None, adapters[k]}
       /\ \A k \in Key : k # key /\ k \in Absorbed(c, n) => adapters'[k] = None
  BY <1>2, <1>4 DEF Vacant, IInv, TypeOK
<1>12. /\ byName' \in [Org -> [Name -> Conn \union {None}]] /\ byName'[conn[c].frame.org][n] = c
       /\ \A o \in Org, m \in Name : byName[o][m] \notin out /\ (o # conn[c].frame.org \/ m # n) =>
            byName'[o][m] = byName[o][m]
  <2>1. PICK u : u = Unbound(byName, out)
    OBVIOUS
  <2>2. /\ u \in [Org -> [Name -> Conn \union {None}]]
        /\ \A o \in Org, m \in Name : byName[o][m] \notin out => u[o][m] = byName[o][m]
    BY <2>1, UnboundShape DEF IInv
  <2>3. byName' = [u EXCEPT ![conn[c].frame.org][n] = c]
    BY <1>2, <2>1
  <2>. QED BY <1>1, <1>4, <2>2, <2>3
<1>13. \A d \in Conn : /\ conn'[d].phase \in {"live", "closing"} => conn'[d].key # None /\ conn'[d].name # None
                       /\ conn'[d].phase # "free" => conn'[d].frame # None
  <2>1. \A d \in Conn : d # c /\ d \notin out => conn'[d] = conn[d]
    BY <1>8
  <2>2. \A d \in out : /\ conn'[d].key = conn[d].key /\ conn'[d].name = conn[d].name
                       /\ conn'[d].frame = conn[d].frame /\ conn[d].phase \in {"live", "closing"}
    BY <1>8, <1>10
  <2>3. conn'[c].key # None /\ conn'[c].name # None /\ conn'[c].frame # None
    BY <1>1, <1>4, <1>7, KeyShape, FrameShape, RegistryAssumption
  <2>. QED BY <1>10, <2>1, <2>2, <2>3 DEF IInv, TypeOK
<1>14. TypeOK'
  BY <1>5, <1>9, <1>11, <1>12, <1>13 DEF Register, IInv, TypeOK
<1>15. SavedApart'
  BY <1>5, SaveApart DEF Register
<1>16. Anchored'
  <2>. SUFFICES ASSUME NEW d \in Conn, conn'[d].key # None
                PROVE  /\ conn'[d].phase \in {"live", "closing"}
                       /\ conn'[d].frame \in Frames /\ conn'[d].key[1] = conn'[d].frame.org
    BY DEF Anchored
  <2>1. CASE d = c
    BY <1>1, <1>4, <1>7, <2>1
  <2>2. CASE d # c
    <3>1. conn'[d].key = conn[d].key /\ conn'[d].frame = conn[d].frame
          /\ conn'[d].phase \in {"closing", conn[d].phase}
      BY <1>8, <2>2
    <3>. QED BY <3>1 DEF IInv, Anchored
  <2>. QED BY <2>1, <2>2
<1>17. AdapterRecorded'
  <2>. SUFFICES ASSUME NEW k \in Key, adapters'[k] # None
                PROVE  names'[k] # None /\ conn'[adapters'[k]].key = k
    BY DEF AdapterRecorded
  <2>1. CASE k = key
    BY <1>5, <1>7, <1>11, <2>1
  <2>2. CASE k # key
    <3>1. adapters'[k] = adapters[k] /\ k \notin Absorbed(c, n) /\ adapters[k] \in Conn
      BY <1>11, <2>2 DEF IInv, TypeOK
    <3>2. names[k] # None /\ conn[adapters[k]].key = k
      BY <3>1 DEF IInv, AdapterRecorded
    <3>3. adapters[k] # c
      BY <1>6, <3>2, KeyShape
    <3>. QED BY <1>5, <1>8, <3>1, <3>2, <3>3
  <2>. QED BY <2>1, <2>2
<1>18. TodoNamed'
  <2>. SUFFICES ASSUME NEW d \in refresh.todo
                PROVE  /\ conn'[d].phase \in {"live", "closing"} /\ conn'[d].frame.pane \in Pane
                       /\ refresh.snap[conn'[d].frame.pane] # None
    BY DEF TodoNamed, Register
  <2>1. d \in Conn /\ conn[d].phase \in {"live", "closing"} /\ conn[d].frame.pane \in Pane
        /\ refresh.snap[conn[d].frame.pane] # None
    BY DEF IInv, TypeOK, TodoNamed
  <2>2. d # c
    BY <1>1, <2>1
  <2>. QED BY <1>8, <2>1, <2>2
<1>19. LiveIsRouted'
  <2>. SUFFICES ASSUME NEW d \in Conn, conn'[d].key # None, adapters'[conn'[d].key] = d
                PROVE  conn'[d].phase = "live" /\ byName'[conn'[d].frame.org][conn'[d].name] = d
    BY DEF LiveIsRouted, Live
  <2>1. CASE d = c
    BY <1>7, <1>12, <2>1
  <2>2. CASE d # c
    <3>1. conn'[d].key = conn[d].key /\ conn[d].key \in Key
      BY <1>8, <1>9, <2>2 DEF Adapter
    <3>2. conn[d].key # key /\ conn[d].key \notin Absorbed(c, n) /\ adapters[conn[d].key] = d
      BY <1>11, <2>2, <3>1, FrameShape
    <3>3. d \notin out
      BY <1>10, <3>2
    <3>4. conn'[d] = conn[d] /\ conn[d].phase = "live" /\ byName[conn[d].frame.org][conn[d].name] = d
      BY <1>8, <2>2, <3>1, <3>2, <3>3, KeyShape DEF IInv, LiveIsRouted, Live
    <3>5. conn[d].frame.org \in Org /\ conn[d].name \in Name
      BY <3>4, ConnShape, FrameShape DEF IInv, TypeOK
    <3>6. conn[d].frame.org # conn[c].frame.org \/ conn[d].name # n
      BY <1>2, <3>3, <3>4, FrameShape DEF Occupied
    <3>. QED BY <1>12, <3>3, <3>4, <3>5, <3>6
  <2>. QED BY <2>1, <2>2
<1>. QED BY <1>5, <1>14, <1>15, <1>16, <1>17, <1>18, <1>19 DEF IInv

(* renameNativeAdapterLocked: the adapter's identity and route move together, *)
(* to a name nobody else has, or nothing moves.                               *)
LEMMA RenameKeeps ==
  ASSUME IInv, NEW c \in Conn, NEW n \in Name, NEW by \in By, NEW then \in Adapter,
         then.phase = conn[c].phase, then.key = conn[c].key, then.name = conn[c].name,
         then.frame = conn[c].frame,
         Rename(c, n, by, then), UNCHANGED <<tokens, adapters>>
  PROVE  /\ names' \in [Key -> Record \union {None}] /\ disk' \in [Key -> Record \union {None}]
         /\ byName' \in [Org -> [Name -> Conn \union {None}]] /\ conn' \in [Conn -> Adapter]
         /\ \A d \in Conn : /\ conn'[d].phase \in {"live", "closing"} => conn'[d].key # None /\ conn'[d].name # None
                            /\ conn'[d].phase # "free" => conn'[d].frame # None
         /\ \A d \in Conn : conn'[d].phase = conn[d].phase /\ conn'[d].frame = conn[d].frame
         /\ IdentitiesApart' /\ SavedApart' /\ Anchored' /\ AdapterRecorded' /\ LiveIsRouted'
<1>t. conn \in [Conn -> Adapter] /\ names \in [Key -> Record \union {None}]
      /\ disk \in [Key -> Record \union {None}]
      /\ byName \in [Org -> [Name -> Conn \union {None}]]
  BY DEF IInv, TypeOK
<1>f. /\ n # None
      /\ \A d \in Conn : /\ conn[d].phase \in {"live", "closing"} => conn[d].key # None /\ conn[d].name # None
                         /\ conn[d].phase # "free" => conn[d].frame # None
  BY FrameShape DEF IInv, TypeOK
<1>1. CASE /\ conn' = [conn EXCEPT ![c] = then] /\ UNCHANGED <<names, disk, byName>>
  <2>1. conn' \in [Conn -> Adapter] /\ conn'[c] = then /\ \A d \in Conn : d # c => conn'[d] = conn[d]
    BY <1>1, <1>t
  <2>2. \A d \in Conn : /\ conn'[d].phase = conn[d].phase /\ conn'[d].key = conn[d].key
                        /\ conn'[d].name = conn[d].name /\ conn'[d].frame = conn[d].frame
    BY <2>1
  <2>3. \A d \in Conn : /\ conn'[d].phase \in {"live", "closing"} => conn'[d].key # None /\ conn'[d].name # None
                        /\ conn'[d].phase # "free" => conn'[d].frame # None
    BY <1>f, <2>2
  <2>4. IdentitiesApart' /\ SavedApart'
    BY <1>1 DEF IInv, IdentitiesApart, SavedApart
  <2>5. Anchored'
    BY <2>2 DEF IInv, Anchored
  <2>6. AdapterRecorded'
    BY <1>1, <2>2 DEF IInv, TypeOK, AdapterRecorded
  <2>7. LiveIsRouted'
    BY <1>1, <2>2 DEF IInv, LiveIsRouted, Live
  <2>. QED BY <1>1, <1>t, <2>1, <2>2, <2>3, <2>4, <2>5, <2>6, <2>7
<1>2. CASE /\ MayBear(c, n)
           /\ names' = [names EXCEPT ![conn[c].key].name = n, ![conn[c].key].namedBy = by]
           /\ disk' = names'
           /\ byName' = [Unbound(byName, {c}) EXCEPT ![conn[c].frame.org][n] = c]
           /\ conn' = [conn EXCEPT ![c] = [then EXCEPT !.name = n, !.namedBy = by]]
  <2>1. PICK key : key = conn[c].key
    OBVIOUS
  <2>2. key \in Key /\ adapters[key] = c /\ names[key] \in Record /\ names[key] # None
    <3>1. key # None /\ adapters[key] = c
      BY <1>2, <2>1 DEF MayBear, Live
    <3>2. key \in Key
      BY <2>1, <3>1, ConnShape DEF IInv
    <3>3. names[key] # None
      BY <3>1, <3>2, FrameShape DEF IInv, AdapterRecorded
    <3>. QED BY <1>t, <3>1, <3>2, <3>3
  <2>3. conn[c].frame \in Frames /\ conn[c].frame.org \in Org /\ key[1] = conn[c].frame.org
        /\ conn[c].phase = "live"
    BY <2>1, <2>2, KeyShape, FrameShape DEF IInv, Anchored, LiveIsRouted, Live
  <2>4. PICK r : r = [[names[key] EXCEPT !.name = n] EXCEPT !.namedBy = by]
    OBVIOUS
  <2>5. r \in Record /\ r.name = n /\ r.token = names[key].token /\ r # None
    <3>1. r \in Record /\ r.name = n /\ r.token = names[key].token
      BY <2>2, <2>4 DEF Record
    <3>. QED BY <3>1, RegistryAssumption
  <2>6. names' \in [Key -> Record \union {None}] /\ names'[key] = r
        /\ \A k \in Key : k # key => names'[k] = names[k]
    BY <1>2, <1>t, <2>1, <2>2, <2>4, <2>5
  <2>7. PICK a : a = [then EXCEPT !.name = n, !.namedBy = by]
    OBVIOUS
  <2>8. a \in Adapter /\ a.phase = conn[c].phase /\ a.key = key /\ a.frame = conn[c].frame /\ a.name = n
    BY <2>1, <2>7 DEF Adapter
  <2>9. conn' \in [Conn -> Adapter] /\ conn'[c] = a /\ \A d \in Conn : d # c => conn'[d] = conn[d]
    BY <1>2, <1>t, <2>7, <2>8
  <2>10. /\ byName' \in [Org -> [Name -> Conn \union {None}]] /\ byName'[conn[c].frame.org][n] = c
         /\ \A o \in Org, m \in Name : byName[o][m] # c /\ (o # conn[c].frame.org \/ m # n) =>
              byName'[o][m] = byName[o][m]
    <3>1. PICK u : u = Unbound(byName, {c})
      OBVIOUS
    <3>2. /\ u \in [Org -> [Name -> Conn \union {None}]]
          /\ \A o \in Org, m \in Name : byName[o][m] \notin {c} => u[o][m] = byName[o][m]
      BY <3>1, UnboundShape DEF IInv
    <3>3. byName' = [u EXCEPT ![conn[c].frame.org][n] = c]
      BY <1>2, <3>1
    <3>. QED BY <2>3, <3>2, <3>3
  <2>11. IdentitiesApart'
    <3>1. ASSUME NEW j \in Key, NEW k \in Key, j # k, j[1] = k[1], names'[j] # None, names'[k] # None
          PROVE  names'[j].name # names'[k].name
      <4>1. \A i \in Key : i # key /\ i[1] = key[1] /\ names[i] # None => names[i].name # n
        BY <1>2, <2>1, <2>3 DEF MayBear
      <4>2. CASE j # key /\ k # key
        <5>1. names'[j] = names[j] /\ names'[k] = names[k]
          BY <2>6, <4>2
        <5>. QED BY <3>1, <5>1 DEF IInv, IdentitiesApart
      <4>3. CASE j = key
        BY <2>5, <2>6, <3>1, <4>1, <4>3
      <4>4. CASE k = key
        BY <2>5, <2>6, <3>1, <4>1, <4>4
      <4>. QED BY <4>2, <4>3, <4>4
    <3>2. ASSUME NEW x \in Token, NEW k \in Key
          PROVE  tokens'[x] = k <=> names'[k] # None /\ names'[k].token = x
      <4>1. tokens[x] = k <=> names[k] # None /\ names[k].token = x
        BY DEF IInv, IdentitiesApart
      <4>2. CASE k = key
        BY <2>2, <2>5, <2>6, <4>1, <4>2
      <4>3. CASE k # key
        BY <2>6, <4>1, <4>3
      <4>. QED BY <4>2, <4>3
    <3>. QED BY <3>1, <3>2 DEF IdentitiesApart
  <2>12. SavedApart' /\ disk' \in [Key -> Record \union {None}]
    BY <1>2, <2>6, <2>11, SaveApart
  <2>13. \A d \in Conn : /\ conn'[d].phase = conn[d].phase /\ conn'[d].key = conn[d].key
                         /\ conn'[d].frame = conn[d].frame
    BY <2>1, <2>8, <2>9
  <2>14. \A d \in Conn : /\ conn'[d].phase \in {"live", "closing"} => conn'[d].key # None /\ conn'[d].name # None
                         /\ conn'[d].phase # "free" => conn'[d].frame # None
    BY <1>f, <2>8, <2>9, <2>13
  <2>15. Anchored'
    BY <2>13 DEF IInv, Anchored
  <2>16. AdapterRecorded'
    BY <2>5, <2>6, <2>13 DEF IInv, TypeOK, AdapterRecorded
  <2>17. LiveIsRouted'
    <3>. SUFFICES ASSUME NEW d \in Conn, conn'[d].key # None, adapters'[conn'[d].key] = d
                  PROVE  conn'[d].phase = "live" /\ byName'[conn'[d].frame.org][conn'[d].name] = d
      BY DEF LiveIsRouted, Live
    <3>1. CASE d = c
      BY <2>3, <2>8, <2>9, <2>10, <3>1
    <3>2. CASE d # c
      <4>1. conn'[d] = conn[d] /\ conn[d].phase = "live" /\ byName[conn[d].frame.org][conn[d].name] = d
        BY <2>9, <3>2 DEF IInv, LiveIsRouted, Live
      <4>2. conn[d].frame.org \in Org /\ conn[d].name \in Name
        BY <1>f, <4>1, ConnShape, FrameShape DEF IInv
      <4>3. conn[d].frame.org # conn[c].frame.org \/ conn[d].name # n
        BY <1>2, <3>2, <4>1, FrameShape DEF MayBear
      <4>. QED BY <2>10, <3>2, <4>1, <4>2, <4>3
    <3>. QED BY <3>1, <3>2
  <2>. QED BY <2>6, <2>9, <2>10, <2>11, <2>12, <2>13, <2>14, <2>15, <2>16, <2>17
<1>. QED BY <1>1, <1>2 DEF Rename

(* A claim that begins changes only the pane. *)
LEMMA ClaimBeginsStep ==
  ASSUME IInv, NEW c \in Conn, NEW n \in Claims, ClaimBegins(c, n)
  PROVE  IInv'
<1>1. PICK a : a = [conn[c] EXCEPT !.claim = n]
  OBVIOUS
<1>2. conn[c] \in Adapter /\ conn \in [Conn -> Adapter] /\ n \in Name
  BY RegistryAssumption DEF IInv, TypeOK
<1>3. a \in Adapter /\ a.phase = conn[c].phase /\ a.key = conn[c].key /\ a.frame = conn[c].frame
      /\ a.name = conn[c].name
  BY <1>1, <1>2 DEF Adapter
<1>4. conn' \in [Conn -> Adapter] /\ conn'[c] = a /\ \A d \in Conn : d # c => conn'[d] = conn[d]
  BY <1>1, <1>2, <1>3 DEF ClaimBegins
<1>5. \A d \in Conn : /\ conn'[d].phase = conn[d].phase /\ conn'[d].key = conn[d].key
                      /\ conn'[d].name = conn[d].name /\ conn'[d].frame = conn[d].frame
  BY <1>3, <1>4
<1>6. panes' \in [Pane -> Labels \union {None}]
  <2>1. CASE UNCHANGED panes
    BY <2>1 DEF IInv, TypeOK
  <2>2. CASE n \in Labels /\ Labelled(conn[c].frame.pane, n)
    BY <2>2 DEF Labelled, IInv, TypeOK
  <2>. QED BY <2>1, <2>2 DEF ClaimBegins
<1>7. TypeOK'
  BY <1>4, <1>5, <1>6 DEF ClaimBegins, IInv, TypeOK
<1>8. IdentitiesApart' /\ SavedApart'
  BY DEF ClaimBegins, IInv, IdentitiesApart, SavedApart
<1>9. Anchored' /\ AdapterRecorded'
  BY <1>5 DEF ClaimBegins, IInv, TypeOK, Anchored, AdapterRecorded
<1>10. TodoNamed'
  BY <1>5 DEF ClaimBegins, IInv, TypeOK, TodoNamed
<1>11. LiveIsRouted'
  BY <1>5 DEF ClaimBegins, IInv, LiveIsRouted, Live
<1>. QED BY <1>7, <1>8, <1>9, <1>10, <1>11 DEF IInv

(* A claim that ends is a rename. *)
LEMMA ClaimEndsStep ==
  ASSUME IInv, NEW c \in Conn, ClaimEnds(c)
  PROVE  IInv'
<1>1. PICK then : then = [conn[c] EXCEPT !.claim = None]
  OBVIOUS
<1>2. conn[c] \in Adapter /\ conn[c].claim \in Name
  BY ConnShape DEF ClaimEnds, IInv
<1>3. then \in Adapter /\ then.phase = conn[c].phase /\ then.key = conn[c].key
      /\ then.name = conn[c].name /\ then.frame = conn[c].frame
  BY <1>1, <1>2 DEF Adapter
<1>4. Rename(c, conn[c].claim, "user", then) /\ "user" \in By /\ UNCHANGED <<tokens, adapters>>
  BY <1>1 DEF ClaimEnds, By
<1>5. /\ names' \in [Key -> Record \union {None}] /\ disk' \in [Key -> Record \union {None}]
      /\ byName' \in [Org -> [Name -> Conn \union {None}]] /\ conn' \in [Conn -> Adapter]
      /\ \A d \in Conn : /\ conn'[d].phase \in {"live", "closing"} => conn'[d].key # None /\ conn'[d].name # None
                         /\ conn'[d].phase # "free" => conn'[d].frame # None
      /\ \A d \in Conn : conn'[d].phase = conn[d].phase /\ conn'[d].frame = conn[d].frame
      /\ IdentitiesApart' /\ SavedApart' /\ Anchored' /\ AdapterRecorded' /\ LiveIsRouted'
  BY <1>2, <1>3, <1>4, RenameKeeps
<1>6. TypeOK'
  BY <1>5 DEF ClaimEnds, IInv, TypeOK
<1>7. TodoNamed'
  BY <1>5 DEF ClaimEnds, IInv, TypeOK, TodoNamed
<1>. QED BY <1>5, <1>6, <1>7 DEF IInv

(* A refresh that begins chooses adapters of panes that have a name. *)
LEMMA RefreshBeginsStep ==
  ASSUME IInv, RefreshBegins
  PROVE  IInv'
<1>. PICK todo : todo = {c \in Conn : /\ Live(c) /\ conn[c].namedBy = "herdr"
                                      /\ conn[c].frame.pane # None
                                      /\ panes[conn[c].frame.pane] \notin {None, conn[c].name}}
  OBVIOUS
<1>1. refresh' = [busy |-> TRUE, snap |-> panes, todo |-> todo]
  BY DEF RefreshBegins
<1>2. todo \subseteq Conn
  OBVIOUS
<1>3. TypeOK'
  BY <1>1, <1>2 DEF RefreshBegins, IInv, TypeOK
<1>4. ASSUME NEW c \in todo
      PROVE  /\ conn[c].phase \in {"live", "closing"} /\ conn[c].frame.pane \in Pane
             /\ panes[conn[c].frame.pane] # None
  <2>1. conn[c].key # None /\ c \in Conn /\ conn[c].frame.pane # None /\ panes[conn[c].frame.pane] # None
    BY DEF Live
  <2>2. conn[c].phase \in {"live", "closing"} /\ conn[c].frame \in Frames
    BY <2>1 DEF IInv, Anchored
  <2>. QED BY <2>1, <2>2, FrameShape
<1>5. TodoNamed'
  BY <1>1, <1>4 DEF RefreshBegins, TodoNamed
<1>6. IdentitiesApart' /\ SavedApart' /\ Anchored' /\ AdapterRecorded' /\ LiveIsRouted'
  BY DEF RefreshBegins, IInv, IdentitiesApart, SavedApart, Anchored, AdapterRecorded,
         LiveIsRouted, Live
<1>. QED BY <1>3, <1>5, <1>6 DEF IInv

(* Each of them is renamed or left alone. *)
LEMMA RefreshRenamesStep ==
  ASSUME IInv, NEW c \in Conn, RefreshRenames(c)
  PROVE  IInv'
<1>1. /\ c \in refresh.todo /\ refresh' = [refresh EXCEPT !.todo = @ \ {c}]
      /\ UNCHANGED <<tokens, adapters>>
  BY DEF RefreshRenames
<1>2. refresh \in [busy : BOOLEAN, snap : [Pane -> Labels \union {None}], todo : SUBSET Conn]
  BY DEF IInv, TypeOK
<1>3. /\ refresh' \in [busy : BOOLEAN, snap : [Pane -> Labels \union {None}], todo : SUBSET Conn]
      /\ refresh'.snap = refresh.snap /\ refresh'.todo \subseteq refresh.todo
  BY <1>1, <1>2
<1>4. PICK n : n = refresh.snap[conn[c].frame.pane]
  OBVIOUS
<1>5. n \in Name
  BY <1>1, <1>2, <1>4, RegistryAssumption DEF IInv, TodoNamed
<1>6. /\ names' \in [Key -> Record \union {None}] /\ disk' \in [Key -> Record \union {None}]
      /\ byName' \in [Org -> [Name -> Conn \union {None}]] /\ conn' \in [Conn -> Adapter]
      /\ \A d \in Conn : /\ conn'[d].phase \in {"live", "closing"} => conn'[d].key # None /\ conn'[d].name # None
                         /\ conn'[d].phase # "free" => conn'[d].frame # None
      /\ \A d \in Conn : conn'[d].phase = conn[d].phase /\ conn'[d].frame = conn[d].frame
      /\ IdentitiesApart' /\ SavedApart' /\ Anchored' /\ AdapterRecorded' /\ LiveIsRouted'
  <2>1. CASE Rename(c, n, "herdr", conn[c])
    <3>1. "herdr" \in By /\ conn[c] \in Adapter
      BY ConnShape DEF By, IInv
    <3>. QED BY <1>1, <1>5, <2>1, <3>1, RenameKeeps
  <2>2. CASE UNCHANGED <<names, disk, byName, conn>>
    BY <1>1, <2>2 DEF IInv, TypeOK, IdentitiesApart, SavedApart, Anchored, AdapterRecorded,
                      LiveIsRouted, Live
  <2>. QED BY <1>4, <2>1, <2>2 DEF RefreshRenames
<1>7. TypeOK'
  BY <1>3, <1>6 DEF RefreshRenames, IInv, TypeOK
<1>8. TodoNamed'
  BY <1>2, <1>3, <1>6 DEF IInv, TodoNamed
<1>. QED BY <1>6, <1>7, <1>8 DEF IInv

(* The end of a refresh and a pane's new name touch no adapter. *)
LEMMA PaneStep ==
  ASSUME IInv, RefreshEnds \/ \E p \in Pane, n \in Labels : PaneRenamed(p, n)
  PROVE  IInv'
<1>1. UNCHANGED <<names, disk, tokens, adapters, byName, conn, torn>>
  BY DEF RefreshEnds, PaneRenamed
<1>2. IdentitiesApart' /\ SavedApart' /\ Anchored' /\ AdapterRecorded' /\ LiveIsRouted'
  BY <1>1 DEF IInv, IdentitiesApart, SavedApart, Anchored, AdapterRecorded, LiveIsRouted, Live
<1>3. CASE RefreshEnds
  <2>1. Resting \in [busy : BOOLEAN, snap : [Pane -> Labels \union {None}], todo : SUBSET Conn]
        /\ Resting.todo = {}
    BY DEF Resting
  <2>2. TypeOK'
    BY <1>3, <2>1 DEF RefreshEnds, IInv, TypeOK
  <2>3. TodoNamed'
    BY <1>3, <2>1 DEF RefreshEnds, TodoNamed
  <2>. QED BY <1>2, <2>2, <2>3 DEF IInv
<1>4. ASSUME NEW p \in Pane, NEW n \in Labels, PaneRenamed(p, n) PROVE IInv'
  <2>1. panes' \in [Pane -> Labels \union {None}] /\ UNCHANGED <<cached, refresh>>
    BY <1>4 DEF PaneRenamed, Labelled, IInv, TypeOK
  <2>2. faults' \in 0..MaxFaults
    BY <1>4, RegistryAssumption DEF PaneRenamed, Fault, IInv, TypeOK
  <2>3. TypeOK'
    BY <1>1, <2>1, <2>2 DEF IInv, TypeOK
  <2>4. TodoNamed'
    BY <1>1, <2>1 DEF IInv, TodoNamed
  <2>. QED BY <1>2, <2>3, <2>4 DEF IInv
<1>. QED BY <1>3, <1>4

(* A restart reads back identities that are apart, and routes nobody. *)
LEMMA RestartStep ==
  ASSUME IInv, Restart
  PROVE  IInv'
<1>1. /\ names' = disk /\ disk' = disk /\ adapters' = [k \in Key |-> None]
      /\ conn' = [c \in Conn |-> Free] /\ refresh' = Resting
  BY DEF Restart, Empty
<1>2. disk \in [Key -> Record \union {None}]
  BY DEF IInv, TypeOK
<1>3. ASSUME NEW t \in Token, NEW k \in Key
      PROVE  /\ tokens'[t] \in Key \union {None}
             /\ tokens'[t] = k <=> disk[k] # None /\ disk[k].token = t
  <2>1. CASE \E j \in Key : disk[j] # None /\ disk[j].token = t
    <3>1. tokens'[t] = CHOOSE j \in Key : disk[j] # None /\ disk[j].token = t
      BY <2>1 DEF Restart
    <3>2. tokens'[t] \in Key /\ disk[tokens'[t]] # None /\ disk[tokens'[t]].token = t
      BY <2>1, <3>1, Zenon
    <3>. QED BY <3>2 DEF IInv, SavedApart
  <2>2. CASE ~\E j \in Key : disk[j] # None /\ disk[j].token = t
    <3>1. tokens'[t] = None
      BY <2>2 DEF Restart
    <3>. QED BY <2>2, <3>1, KeyShape
  <2>. QED BY <2>1, <2>2
<1>4. tokens' \in [Token -> Key \union {None}]
  <2>1. CASE Key = {}
    <3>1. tokens' = [t \in Token |-> None]
      BY <2>1 DEF Restart
    <3>. QED BY <3>1
  <2>2. CASE Key # {}
    <3>1. \A t \in Token : tokens'[t] \in Key \union {None}
      BY <1>3, <2>2
    <3>. QED BY <3>1 DEF Restart
  <2>. QED BY <2>1, <2>2
<1>5. IdentitiesApart'
  <2>1. \A j, k \in Key : j # k /\ j[1] = k[1] /\ disk[j] # None /\ disk[k] # None =>
          disk[j].name # disk[k].name
    BY DEF IInv, SavedApart
  <2>2. \A t \in Token, k \in Key : tokens'[t] = k <=> disk[k] # None /\ disk[k].token = t
    BY <1>3
  <2>. QED BY <1>1, <2>1, <2>2 DEF IdentitiesApart
<1>6. \A c \in Conn : conn'[c] = Free
  BY <1>1
<1>7. TypeOK'
  <2>1. conn' \in [Conn -> Adapter]
    BY <1>1, FreeShape
  <2>2. \A c \in Conn : /\ conn'[c].phase \in {"live", "closing"} => conn'[c].key # None /\ conn'[c].name # None
                        /\ conn'[c].phase # "free" => conn'[c].frame # None
    BY <1>6, FreeShape
  <2>3. refresh' \in [busy : BOOLEAN, snap : [Pane -> Labels \union {None}], todo : SUBSET Conn]
    BY <1>1 DEF Resting
  <2>4. faults' \in 0..MaxFaults
    BY RegistryAssumption DEF Restart, Fault, IInv, TypeOK
  <2>5. /\ adapters' \in [Key -> Conn \union {None}]
        /\ byName' \in [Org -> [Name -> Conn \union {None}]]
        /\ cached' \in [Pane -> Labels \union {None}] /\ torn' \in BOOLEAN
        /\ panes' \in [Pane -> Labels \union {None}]
    BY <1>1 DEF Restart, NoRoutes, IInv, TypeOK
  <2>. QED BY <1>1, <1>2, <1>4, <2>1, <2>2, <2>3, <2>4, <2>5 DEF TypeOK
<1>8. SavedApart'
  BY <1>1 DEF IInv, SavedApart
<1>9. Anchored' /\ LiveIsRouted'
  BY <1>6, FreeShape DEF Anchored, LiveIsRouted, Live
<1>10. AdapterRecorded'
  BY <1>1 DEF AdapterRecorded
<1>11. TodoNamed'
  <2>1. refresh'.todo = {}
    BY <1>1 DEF Resting
  <2>. QED BY <2>1 DEF TodoNamed
<1>. QED BY <1>5, <1>7, <1>8, <1>9, <1>10, <1>11 DEF IInv

-----------------------------------------------------------------------------
(* The theorems *)

(* A daemon that starts without a native_names.json satisfies the invariant. *)
LEMMA Start == Init => IInv
<1>. SUFFICES ASSUME Init PROVE IInv
  OBVIOUS
<1>1. \A k \in Key : names[k] = None /\ disk[k] = None /\ adapters[k] = None
  BY DEF Init, Empty
<1>2. \A t \in Token : tokens[t] = None
  BY DEF Init
<1>3. \A c \in Conn : conn[c] = Free
  BY DEF Init
<1>4. TypeOK
  <2>1. conn \in [Conn -> Adapter]
    BY FreeShape DEF Init
  <2>2. \A c \in Conn : /\ conn[c].phase \in {"live", "closing"} => conn[c].key # None /\ conn[c].name # None
                        /\ conn[c].phase # "free" => conn[c].frame # None
    BY <1>3, FreeShape
  <2>3. refresh \in [busy : BOOLEAN, snap : [Pane -> Labels \union {None}], todo : SUBSET Conn]
    BY DEF Init, Resting
  <2>4. /\ names \in [Key -> Record \union {None}] /\ disk \in [Key -> Record \union {None}]
        /\ tokens \in [Token -> Key \union {None}] /\ adapters \in [Key -> Conn \union {None}]
    BY DEF Init, Empty
  <2>5. byName \in [Org -> [Name -> Conn \union {None}]]
    BY DEF Init, NoRoutes
  <2>6. /\ panes \in [Pane -> Labels \union {None}] /\ cached \in [Pane -> Labels \union {None}]
        /\ torn \in BOOLEAN
    BY Zenon DEF Init
  <2>7. faults \in 0..MaxFaults
    BY RegistryAssumption, SMT DEF Init
  <2>. QED BY <2>1, <2>2, <2>3, <2>4, <2>5, <2>6, <2>7 DEF TypeOK
<1>5. IdentitiesApart /\ SavedApart /\ AdapterRecorded
  BY <1>1, <1>2, KeyShape DEF IdentitiesApart, SavedApart, AdapterRecorded
<1>6. Anchored /\ LiveIsRouted
  BY <1>3, FreeShape DEF Anchored, LiveIsRouted, Live
<1>7. TodoNamed
  BY DEF Init, Resting, TodoNamed
<1>. QED BY <1>4, <1>5, <1>6, <1>7 DEF IInv

(* Every step of the daemon, its clients and Herdr preserves the invariant. *)
LEMMA Steps == IInv /\ [Next]_vars => IInv'
<1>. SUFFICES ASSUME IInv, [Next]_vars PROVE IInv'
  OBVIOUS
<1>1. CASE UNCHANGED vars
  BY <1>1 DEF vars, IInv, TypeOK, IdentitiesApart, SavedApart, Anchored, AdapterRecorded,
              TodoNamed, LiveIsRouted, Live
<1>2. ASSUME NEW c \in Conn, NEW f \in Frames, NEW t \in Token \union {None}, Ask(c, f, t) PROVE IInv'
  BY <1>2, AskStep
<1>3. ASSUME NEW c \in Conn, RegisterRefused(c) PROVE IInv'
  BY <1>3, RefusedStep
<1>4. ASSUME NEW c \in Conn, Register(c) PROVE IInv'
  BY <1>4, RegisterStep
<1>5. ASSUME NEW c \in Conn, RegisterTaken(c) PROVE IInv'
  BY <1>5, TakenStep
<1>6. ASSUME NEW c \in Conn, RegisterUnsaved(c) PROVE IInv'
  BY <1>6, UnsavedStep
<1>7. ASSUME NEW c \in Conn, Deregister(c) PROVE IInv'
  BY <1>7, DeregisterStep
<1>8. ASSUME NEW c \in Conn, RefreshRenames(c) PROVE IInv'
  BY <1>8, RefreshRenamesStep
<1>9. ASSUME NEW c \in Conn, NEW n \in Claims, ClaimBegins(c, n) PROVE IInv'
  BY <1>9, ClaimBeginsStep
<1>10. ASSUME NEW c \in Conn, ClaimEnds(c) PROVE IInv'
  BY <1>10, ClaimEndsStep
<1>11. CASE RefreshBegins
  BY <1>11, RefreshBeginsStep
<1>12. CASE RefreshEnds \/ \E p \in Pane, n \in Labels : PaneRenamed(p, n)
  BY <1>12, PaneStep
<1>13. CASE Restart
  BY <1>13, RestartStep
<1>. QED BY <1>1, <1>2, <1>3, <1>4, <1>5, <1>6, <1>7, <1>8, <1>9, <1>10, <1>11, <1>12, <1>13 DEF Next

(* The inductive invariant holds throughout. *)
LEMMA Inductive == Spec => []IInv
BY Start, Steps, PTL DEF Spec

(* Type correctness of the adapter registry. *)
THEOREM TypeCorrect == Spec => []TypeOK
<1>1. IInv => TypeOK
  BY DEF IInv
<1>. QED BY <1>1, Inductive, PTL

(* No two identities of an organization share a name, and every token leads  *)
(* to its one identity: absorbNameLocked, claims, pane renames, failed       *)
(* writes and restarts included.                                             *)
THEOREM IdentitiesStayApart == Spec => []IdentitiesApart
<1>1. IInv => IdentitiesApart
  BY DEF IInv
<1>. QED BY <1>1, Inductive, PTL

(* The adapter that is registered for an identity is the one its name routes *)
(* to, and its connection has not been told to close.                        *)
THEOREM LiveStaysRouted == Spec => []LiveIsRouted
<1>1. IInv => LiveIsRouted
  BY DEF IInv
<1>. QED BY <1>1, Inductive, PTL

-----------------------------------------------------------------------------
(* Routes and records *)

(* A connection without an adapter is on no route, and a registered adapter  *)
(* has a key, a frame and a name, and is the only one of its key.            *)
LEMMA OnRoute ==
  ASSUME IInv, NEW c \in Conn
  PROVE  /\ conn[c].key = None => ~Live(c)
         /\ Live(c) => /\ conn[c].key \in Key /\ conn[c].frame.org \in Org /\ conn[c].name \in Name
                       /\ adapters[conn[c].key] = c /\ conn[c].phase = "live"
<1>1. SUFFICES ASSUME Live(c)
               PROVE  /\ conn[c].key \in Key /\ conn[c].frame.org \in Org /\ conn[c].name \in Name
                      /\ adapters[conn[c].key] = c /\ conn[c].phase = "live"
  BY DEF Live
<1>2. conn[c].key # None /\ adapters[conn[c].key] = c /\ conn[c].phase = "live"
  BY <1>1 DEF Live, IInv, LiveIsRouted
<1>3. conn[c].key \in Key /\ conn[c].frame \in Frames /\ conn[c].name \in Name
  BY <1>2, ConnShape DEF IInv, TypeOK
<1>. QED BY <1>2, <1>3, FrameShape

(* A route that is taken is a connection's. *)
LEMMA RouteShape ==
  ASSUME TypeOK, NEW o \in Org, NEW n \in Name, byName[o][n] # None
  PROVE  byName[o][n] \in Conn
BY DEF TypeOK

(* Steps that only touch connections without a registered adapter, or a      *)
(* claim, leave routes and records as they were.                              *)
LEMMA Undisturbed ==
  ASSUME IInv, Honoured, UNCHANGED <<names, disk, adapters, byName>>, torn => torn',
         \A d \in Conn : conn[d].key # None \/ conn'[d].key # None =>
           /\ conn'[d].key = conn[d].key /\ conn'[d].frame = conn[d].frame
           /\ conn'[d].name = conn[d].name /\ conn'[d].namedBy = conn[d].namedBy
           /\ conn'[d].token = conn[d].token
  PROVE  Honoured'
<1>. SUFFICES ASSUME ~torn PROVE disk' = names' /\ RoutesLive' /\ ToldRecorded'
  BY DEF Honoured
<1>1. disk = names /\ RoutesLive /\ ToldRecorded
  BY DEF Honoured
<1>2. RoutesLive'
  <2>. SUFFICES ASSUME NEW o \in Org, NEW n \in Name, byName[o][n] # None
                PROVE  /\ conn'[byName[o][n]].key # None
                       /\ adapters[conn'[byName[o][n]].key] = byName[o][n]
                       /\ conn'[byName[o][n]].name = n /\ conn'[byName[o][n]].frame.org = o
    BY DEF RoutesLive, Live
  <2>1. PICK d \in Conn : d = byName[o][n]
    BY RouteShape DEF IInv
  <2>2. conn[d].key # None /\ adapters[conn[d].key] = d /\ conn[d].name = n /\ conn[d].frame.org = o
    BY <1>1, <2>1 DEF RoutesLive, Live
  <2>. QED BY <2>1, <2>2
<1>3. ToldRecorded'
  <2>. SUFFICES ASSUME NEW d \in Conn, conn'[d].key # None, adapters[conn'[d].key] = d
                PROVE  names[conn'[d].key] = [name |-> conn'[d].name, namedBy |-> conn'[d].namedBy,
                                              token |-> conn'[d].token]
    BY DEF ToldRecorded, Live
  <2>1. conn'[d].key = conn[d].key /\ conn'[d].name = conn[d].name
        /\ conn'[d].namedBy = conn[d].namedBy /\ conn'[d].token = conn[d].token
    OBVIOUS
  <2>2. Live(d)
    BY <2>1 DEF Live
  <2>. QED BY <1>1, <2>1, <2>2 DEF ToldRecorded
<1>. QED BY <1>1, <1>2, <1>3

(* Frames that arrive, refusals, claims that begin, looks at the panes. *)
LEMMA QuietHonoured ==
  ASSUME IInv, Honoured,
         \/ \E c \in Conn : \/ \E f \in Frames, t \in Token \union {None} : Ask(c, f, t)
                            \/ RegisterRefused(c)
                            \/ \E n \in Claims : ClaimBegins(c, n)
         \/ RefreshBegins \/ RefreshEnds
         \/ \E p \in Pane, n \in Labels : PaneRenamed(p, n)
  PROVE  Honoured'
<1>t. conn \in [Conn -> Adapter]
  BY DEF IInv, TypeOK
<1>1. ASSUME NEW c \in Conn, NEW f \in Frames, NEW t \in Token \union {None}, Ask(c, f, t)
      PROVE  Honoured'
  <2>1. PICK label :
          conn' = [conn EXCEPT ![c] = [Free EXCEPT !.phase = "asked", !.frame = f,
                                                   !.token = t, !.label = label]]
    BY <1>1 DEF Ask
  <2>2. PICK a : a = [Free EXCEPT !.phase = "asked", !.frame = f, !.token = t, !.label = label]
    OBVIOUS
  <2>3. a.key = None
    BY <2>2 DEF Free
  <2>4. conn[c].key = None
    BY <1>1, FreeShape DEF Ask
  <2>5. conn'[c] = a /\ \A d \in Conn : d # c => conn'[d] = conn[d]
    BY <1>t, <2>1, <2>2
  <2>6. UNCHANGED <<names, disk, adapters, byName, torn>>
    BY <1>1 DEF Ask
  <2>. QED BY <2>3, <2>4, <2>5, <2>6, Undisturbed
<1>2. ASSUME NEW c \in Conn, RegisterRefused(c) PROVE Honoured'
  <2>1. conn'[c] = Free /\ conn[c].key = None /\ \A d \in Conn : d # c => conn'[d] = conn[d]
    BY <1>2, RefuseShape DEF RegisterRefused
  <2>2. UNCHANGED <<names, disk, adapters, byName, torn>>
    BY <1>2 DEF RegisterRefused
  <2>. QED BY <2>1, <2>2, FreeShape, Undisturbed
<1>3. ASSUME NEW c \in Conn, NEW n \in Claims, ClaimBegins(c, n) PROVE Honoured'
  <2>1. PICK a : a = [conn[c] EXCEPT !.claim = n]
    OBVIOUS
  <2>2. conn[c] \in Adapter
    BY <1>t
  <2>3. a.key = conn[c].key /\ a.frame = conn[c].frame /\ a.name = conn[c].name
        /\ a.namedBy = conn[c].namedBy /\ a.token = conn[c].token
    BY <2>1, <2>2 DEF Adapter
  <2>4. conn'[c] = a /\ \A d \in Conn : d # c => conn'[d] = conn[d]
    BY <1>3, <1>t, <2>1 DEF ClaimBegins
  <2>5. UNCHANGED <<names, disk, adapters, byName, torn>>
    BY <1>3 DEF ClaimBegins
  <2>. QED BY <2>3, <2>4, <2>5, Undisturbed
<1>4. CASE RefreshBegins \/ RefreshEnds \/ \E p \in Pane, n \in Labels : PaneRenamed(p, n)
  <2>1. UNCHANGED <<names, disk, adapters, byName, torn, conn>>
    BY <1>4 DEF RefreshBegins, RefreshEnds, PaneRenamed
  <2>. QED BY <2>1, Undisturbed
<1>. QED BY <1>1, <1>2, <1>3, <1>4

(* The adapter that ends takes its own route with it, and no other. *)
LEMMA DeregisterHonoured ==
  ASSUME IInv, Honoured, NEW c \in Conn, Deregister(c)
  PROVE  Honoured'
<1>. SUFFICES ASSUME ~torn PROVE disk' = names' /\ RoutesLive' /\ ToldRecorded'
  BY DEF Honoured, Deregister
<1>1. disk = names /\ RoutesLive /\ ToldRecorded /\ UNCHANGED <<names, disk>>
  BY DEF Honoured, Deregister
<1>2. \A d \in Conn : d # c => conn'[d] = conn[d]
  BY DEF Deregister, IInv, TypeOK
<1>3. conn'[c].key \in {None, conn[c].key}
  <2>1. conn \in [Conn -> Adapter] /\ conn[c] \in Adapter
    BY DEF IInv, TypeOK
  <2>2. PICK a : a = [conn[c] EXCEPT !.phase = "closing"]
    OBVIOUS
  <2>3. a.key = conn[c].key
    BY <2>1, <2>2 DEF Adapter
  <2>4. conn'[c] = a \/ conn'[c] = Free
    BY <2>1, <2>2 DEF Deregister
  <2>. QED BY <2>3, <2>4, FreeShape
<1>4. /\ ~(conn'[c].key # None /\ adapters'[conn'[c].key] = c)
      /\ \A k \in Key : adapters[k] # c => adapters'[k] = adapters[k]
      /\ \A k \in Key : adapters'[k] \in {None, adapters[k]}
  <2>1. CASE Live(c)
    <3>1. adapters' = [adapters EXCEPT ![conn[c].key] = None] /\ adapters \in [Key -> Conn \union {None}]
      BY <2>1 DEF Deregister, IInv, TypeOK
    <3>2. conn[c].key \in Key /\ adapters[conn[c].key] = c
      BY <2>1, OnRoute
    <3>. QED BY <1>3, <3>1, <3>2, FrameShape
  <2>2. CASE ~Live(c)
    BY <1>3, <2>2 DEF Deregister, Live
  <2>. QED BY <2>1, <2>2
<1>5. ASSUME NEW o \in Org, NEW n \in Name, byName'[o][n] # None
      PROVE  byName'[o][n] = byName[o][n] /\ byName[o][n] # c
  <2>1. CASE Live(c)
    <3>1. byName'[o][n] = IF byName[o][n] \in {c} /\ conn[byName[o][n]].frame.org = o
                             /\ conn[byName[o][n]].name = n
                          THEN None ELSE byName[o][n]
      BY <2>1 DEF Deregister, Unbound
    <3>2. byName[o][n] = c => conn[c].frame.org = o /\ conn[c].name = n
      BY <1>1, FrameShape DEF RoutesLive
    <3>. QED BY <1>5, <3>1, <3>2
  <2>2. CASE ~Live(c)
    <3>1. byName' = byName
      BY <2>2 DEF Deregister
    <3>. QED BY <1>1, <1>5, <2>2, <3>1 DEF RoutesLive
  <2>. QED BY <2>1, <2>2
<1>6. RoutesLive'
  <2>. SUFFICES ASSUME NEW o \in Org, NEW n \in Name, byName'[o][n] # None
                PROVE  /\ conn'[byName'[o][n]].key # None
                       /\ adapters'[conn'[byName'[o][n]].key] = byName'[o][n]
                       /\ conn'[byName'[o][n]].name = n /\ conn'[byName'[o][n]].frame.org = o
    BY DEF RoutesLive, Live
  <2>1. PICK d \in Conn : d = byName[o][n] /\ d = byName'[o][n] /\ d # c
    BY <1>5, RouteShape DEF IInv
  <2>2. Live(d) /\ conn[d].name = n /\ conn[d].frame.org = o
    BY <1>1, <1>5, <2>1 DEF RoutesLive
  <2>3. conn[d].key \in Key /\ adapters[conn[d].key] = d /\ conn[d].key # None
    BY <2>2, OnRoute DEF Live
  <2>. QED BY <1>2, <1>4, <2>1, <2>2, <2>3
<1>7. ToldRecorded'
  <2>. SUFFICES ASSUME NEW d \in Conn, conn'[d].key # None, adapters'[conn'[d].key] = d
                PROVE  names[conn'[d].key] = [name |-> conn'[d].name, namedBy |-> conn'[d].namedBy,
                                              token |-> conn'[d].token]
    BY <1>1 DEF ToldRecorded, Live
  <2>1. d # c /\ conn'[d] = conn[d]
    BY <1>2, <1>4
  <2>2. conn[d].key \in Key
    BY <2>1, ConnShape DEF IInv
  <2>3. adapters[conn[d].key] = d
    BY <1>4, <2>1, <2>2, FrameShape
  <2>. QED BY <1>1, <2>1, <2>3 DEF ToldRecorded, Live
<1>. QED BY <1>1, <1>6, <1>7

(* A registration refused at the end is only honoured if it had absorbed     *)
(* nothing, and one that could not be saved leaves no promise.                *)
LEMMA TornHonoured ==
  ASSUME IInv, Honoured, NEW c \in Conn, RegisterTaken(c) \/ RegisterUnsaved(c)
  PROVE  Honoured'
<1>1. CASE RegisterUnsaved(c)
  BY <1>1 DEF RegisterUnsaved, Honoured
<1>2. CASE RegisterTaken(c) /\ torn'
  BY <1>2 DEF Honoured
<1>3. CASE RegisterTaken(c) /\ ~torn'
  <2>1. conn[c].phase = "asked" /\ Refuse(c) /\ UNCHANGED <<disk, byName, refresh>>
    BY <1>3 DEF RegisterTaken, Contends
  <2>2. PICK n : /\ names' = [k \in Key |-> IF k \in Absorbed(c, n) THEN None ELSE names[k]]
                 /\ adapters' = Vacant(c, n) /\ torn' = (torn \/ Absorbed(c, n) # {})
    BY <1>3 DEF RegisterTaken
  <2>3. Absorbed(c, n) = {} /\ ~torn
    BY <1>3, <2>2
  <2>4. names' = names /\ adapters' = adapters
    BY <2>2, <2>3 DEF Vacant, IInv, TypeOK
  <2>5. conn'[c] = Free /\ conn[c].key = None /\ \A d \in Conn : d # c => conn'[d] = conn[d]
    BY <2>1, RefuseShape
  <2>. QED BY <2>1, <2>3, <2>4, <2>5, FreeShape, Undisturbed
<1>. QED BY <1>1, <1>2, <1>3

(* A registration that succeeds is on record as it was answered; the routes  *)
(* of those it displaces go with them, and every other route stays.          *)
LEMMA RegisterHonoured ==
  ASSUME IInv, Honoured, NEW c \in Conn, Register(c)
  PROVE  Honoured'
<1>. SUFFICES ASSUME ~torn PROVE disk' = names' /\ RoutesLive' /\ ToldRecorded'
  BY DEF Honoured, Register
<1>1. /\ disk = names /\ RoutesLive /\ ToldRecorded /\ disk' = names'
      /\ conn[c].phase = "asked" /\ conn[c].key = None
  BY DEF Honoured, Register, Contends, IInv, Anchored
<1>2. conn[c].frame.org \in Org
  BY <1>1, ConnShape, FrameShape DEF IInv
<1>3. PICK choice \in Choices(c) :
        /\ \E t \in TokensFor(c, choice[1]) :
             /\ Recorded(c, choice[1], choice[2], t)
             /\ conn' = [d \in Conn |->
                  IF d = c THEN [conn[c] EXCEPT !.phase = "live", !.token = t, !.label = None,
                                   !.key = KeyFor(c), !.name = choice[1], !.namedBy = choice[2],
                                   !.anchor = Anchor(c)]
                  ELSE IF d \in Displaced(c, choice[1]) THEN [conn[d] EXCEPT !.phase = "closing"]
                  ELSE conn[d]]
        /\ adapters' = [Vacant(c, choice[1]) EXCEPT ![KeyFor(c)] = c]
        /\ byName' = [Unbound(byName, Displaced(c, choice[1])) EXCEPT ![conn[c].frame.org][choice[1]] = c]
  BY DEF Register
<1>4. PICK t \in TokensFor(c, choice[1]) :
        /\ Recorded(c, choice[1], choice[2], t)
        /\ conn' = [d \in Conn |->
             IF d = c THEN [conn[c] EXCEPT !.phase = "live", !.token = t, !.label = None,
                              !.key = KeyFor(c), !.name = choice[1], !.namedBy = choice[2],
                              !.anchor = Anchor(c)]
             ELSE IF d \in Displaced(c, choice[1]) THEN [conn[d] EXCEPT !.phase = "closing"]
             ELSE conn[d]]
  BY <1>3
<1>. PICK n : n = choice[1]
  OBVIOUS
<1>. PICK by : by = choice[2]
  OBVIOUS
<1>. PICK key : key = KeyFor(c)
  OBVIOUS
<1>. PICK gone : gone = Absorbed(c, n)
  OBVIOUS
<1>. PICK out : out = Displaced(c, n)
  OBVIOUS
<1>5. key \in Key /\ n \in Name /\ by \in By /\ gone \subseteq Key /\ key \notin gone
  BY <1>1, KeyForShape, ChoiceShape DEF IInv, Absorbed
<1>6. /\ conn'[c].key = key /\ conn'[c].name = n /\ conn'[c].namedBy = by /\ conn'[c].token = t
      /\ conn'[c].frame = conn[c].frame
  <2>1. PICK a : a = [conn[c] EXCEPT !.phase = "live", !.token = t, !.label = None,
                        !.key = KeyFor(c), !.name = choice[1], !.namedBy = choice[2],
                        !.anchor = Anchor(c)]
    OBVIOUS
  <2>2. conn'[c] = a
    BY <1>4, <2>1
  <2>3. conn[c] \in Adapter
    BY ConnShape DEF IInv
  <2>4. /\ a.key = key /\ a.name = n /\ a.namedBy = by /\ a.token = t /\ a.frame = conn[c].frame
    BY <2>1, <2>3 DEF Adapter
  <2>. QED BY <2>2, <2>4
<1>7. \A d \in Conn : d # c /\ d \notin out => conn'[d] = conn[d]
  BY <1>4
<1>8. \A d \in out : conn'[d].key = conn[d].key /\ d # c /\ d \in Conn
                     /\ conn[d].key \in gone \union {key} /\ adapters[conn[d].key] = d
  <2>. SUFFICES ASSUME NEW d \in out
                PROVE  conn'[d].key = conn[d].key /\ d # c /\ d \in Conn
                       /\ conn[d].key \in gone \union {key} /\ adapters[conn[d].key] = d
    OBVIOUS
  <2>1. PICK k \in gone \union {key} : d = adapters[k] /\ d # None
    BY DEF Displaced
  <2>2. k \in Key /\ d \in Conn /\ conn[d].key = k
    BY <1>5, <2>1 DEF IInv, TypeOK, AdapterRecorded
  <2>3. d # c
    BY <1>1, <2>2, KeyShape
  <2>4. PICK a : a = [conn[d] EXCEPT !.phase = "closing"]
    OBVIOUS
  <2>5. conn'[d] = a
    BY <1>4, <2>2, <2>3, <2>4
  <2>6. conn[d] \in Adapter
    BY <2>2, ConnShape DEF IInv
  <2>7. a.key = conn[d].key
    BY <2>4, <2>6 DEF Adapter
  <2>. QED BY <2>1, <2>2, <2>3, <2>5, <2>7
<1>9. /\ adapters'[key] = c
      /\ \A k \in Key : k # key => adapters'[k] = IF k \in gone THEN None ELSE adapters[k]
  BY <1>3, <1>5 DEF Vacant
<1>10. /\ names'[key] = [name |-> n, namedBy |-> by, token |-> t]
       /\ \A k \in Key : k # key /\ k \notin gone => names'[k] = names[k]
  BY <1>4, <1>5 DEF Recorded
<1>11. \A d \in Conn : Live(d) /\ d \notin out => conn[d].key # key /\ conn[d].key \notin gone
  <2>. SUFFICES ASSUME NEW d \in Conn, Live(d), conn[d].key \in gone \union {key}
                PROVE  d \in out
    OBVIOUS
  <2>1. adapters[conn[d].key] = d
    BY DEF Live
  <2>. QED BY <2>1, FrameShape DEF Displaced
<1>12. ASSUME NEW o \in Org, NEW m \in Name, byName'[o][m] # None
       PROVE  \/ o = conn[c].frame.org /\ m = n /\ byName'[o][m] = c
              \/ byName'[o][m] = byName[o][m] /\ byName[o][m] \notin out
  <2>1. PICK u : u = Unbound(byName, out)
    OBVIOUS
  <2>2. u \in [Org -> [Name -> Conn \union {None}]]
    BY <2>1, UnboundShape DEF IInv
  <2>3. u[o][m] # None => u[o][m] = byName[o][m] /\ byName[o][m] \notin out
    <3>1. u[o][m] = IF byName[o][m] \in out /\ conn[byName[o][m]].frame.org = o
                       /\ conn[byName[o][m]].name = m
                    THEN None ELSE byName[o][m]
      BY <2>1 DEF Unbound
    <3>2. byName[o][m] # None => conn[byName[o][m]].frame.org = o /\ conn[byName[o][m]].name = m
      BY <1>1 DEF RoutesLive
    <3>. QED BY <3>1, <3>2
  <2>4. byName' = [u EXCEPT ![conn[c].frame.org][n] = c]
    BY <1>3, <2>1
  <2>5. o = conn[c].frame.org /\ m = n => byName'[o][m] = c
    BY <1>2, <1>5, <2>2, <2>4
  <2>6. ~(o = conn[c].frame.org /\ m = n) => byName'[o][m] = u[o][m]
    BY <1>2, <1>5, <2>2, <2>4
  <2>. QED BY <1>12, <2>3, <2>5, <2>6
<1>13. RoutesLive'
  <2>. SUFFICES ASSUME NEW o \in Org, NEW m \in Name, byName'[o][m] # None
                PROVE  /\ conn'[byName'[o][m]].key # None
                       /\ adapters'[conn'[byName'[o][m]].key] = byName'[o][m]
                       /\ conn'[byName'[o][m]].name = m /\ conn'[byName'[o][m]].frame.org = o
    BY DEF RoutesLive, Live
  <2>1. CASE o = conn[c].frame.org /\ m = n /\ byName'[o][m] = c
    BY <1>5, <1>6, <1>9, <2>1, KeyShape
  <2>2. CASE byName'[o][m] = byName[o][m] /\ byName[o][m] \notin out
    <3>1. PICK d \in Conn : d = byName[o][m] /\ d = byName'[o][m] /\ d \notin out
      BY <2>2, RouteShape DEF IInv
    <3>2. Live(d) /\ conn[d].name = m /\ conn[d].frame.org = o
      BY <1>1, <2>2, <3>1 DEF RoutesLive
    <3>3. conn[d].key \in Key /\ adapters[conn[d].key] = d /\ conn[d].key # None /\ d # c
      BY <1>1, <3>2, OnRoute DEF Live
    <3>4. conn'[d] = conn[d]
      BY <1>7, <3>1, <3>3
    <3>5. adapters'[conn[d].key] = d
      BY <1>9, <1>11, <3>1, <3>2, <3>3
    <3>. QED BY <3>1, <3>2, <3>3, <3>4, <3>5
  <2>. QED BY <1>12, <2>1, <2>2
<1>14. ToldRecorded'
  <2>. SUFFICES ASSUME NEW d \in Conn, conn'[d].key # None, adapters'[conn'[d].key] = d
                PROVE  names'[conn'[d].key] = [name |-> conn'[d].name, namedBy |-> conn'[d].namedBy,
                                               token |-> conn'[d].token]
    BY DEF ToldRecorded, Live
  <2>1. CASE d = c
    BY <1>6, <1>10, <2>1
  <2>2. CASE d \in out
    <3>1. conn[d].key \in gone \union {key} /\ conn'[d].key = conn[d].key /\ d # c
      BY <1>8, <2>2
    <3>2. adapters'[conn[d].key] \in {None, c}
      BY <1>5, <1>9, <3>1
    <3>. QED BY <3>1, <3>2, FrameShape
  <2>3. CASE d # c /\ d \notin out
    <3>1. conn'[d] = conn[d] /\ conn[d].key \in Key
      BY <1>7, <2>3, ConnShape DEF IInv
    <3>2. conn[d].key # key /\ conn[d].key \notin gone /\ adapters[conn[d].key] = d
      BY <1>9, <2>3, <3>1, FrameShape
    <3>3. Live(d)
      BY <3>1, <3>2, KeyShape DEF Live
    <3>. QED BY <1>1, <1>10, <3>1, <3>2, <3>3 DEF ToldRecorded
  <2>. QED BY <2>1, <2>2, <2>3
<1>. QED BY <1>1, <1>13, <1>14

(* A rename that succeeds moves the record, the route and what the adapter   *)
(* was told together.                                                         *)
LEMMA RenameHonoured ==
  ASSUME IInv, Honoured, NEW c \in Conn, NEW n \in Name, NEW by \in By, NEW then \in Adapter,
         then.key = conn[c].key, then.name = conn[c].name, then.namedBy = conn[c].namedBy,
         then.token = conn[c].token, then.frame = conn[c].frame,
         Rename(c, n, by, then), UNCHANGED <<adapters, torn>>
  PROVE  Honoured'
<1>t. conn \in [Conn -> Adapter] /\ names \in [Key -> Record \union {None}]
  BY DEF IInv, TypeOK
<1>1. CASE conn' = [conn EXCEPT ![c] = then] /\ UNCHANGED <<names, disk, byName>>
  <2>1. conn'[c] = then /\ \A d \in Conn : d # c => conn'[d] = conn[d]
    BY <1>1, <1>t
  <2>. QED BY <1>1, <2>1, Undisturbed
<1>2. ASSUME ~torn,
             MayBear(c, n),
             names' = [names EXCEPT ![conn[c].key].name = n, ![conn[c].key].namedBy = by],
             disk' = names',
             byName' = [Unbound(byName, {c}) EXCEPT ![conn[c].frame.org][n] = c],
             conn' = [conn EXCEPT ![c] = [then EXCEPT !.name = n, !.namedBy = by]]
      PROVE  RoutesLive' /\ ToldRecorded'
  <2>1. RoutesLive /\ ToldRecorded
    BY <1>2 DEF Honoured
  <2>. PICK key : key = conn[c].key
    OBVIOUS
  <2>2. /\ Live(c) /\ key \in Key /\ adapters[key] = c /\ conn[c].frame.org \in Org
        /\ names[key] = [name |-> conn[c].name, namedBy |-> conn[c].namedBy, token |-> conn[c].token]
    BY <1>2, <2>1, OnRoute DEF MayBear, ToldRecorded
  <2>3. PICK r : r = [[names[key] EXCEPT !.name = n] EXCEPT !.namedBy = by]
    OBVIOUS
  <2>4. r = [name |-> n, namedBy |-> by, token |-> conn[c].token]
    <3>1. names[key] \in Record
      BY <1>t, <2>2, FrameShape, OnRoute DEF IInv, AdapterRecorded
    <3>2. r \in Record /\ r.name = n /\ r.namedBy = by /\ r.token = names[key].token
      BY <2>3, <3>1 DEF Record
    <3>3. names[key].token = conn[c].token
      BY <2>2
    <3>. QED BY <3>2, <3>3 DEF Record
  <2>5. names'[key] = r /\ \A k \in Key : k # key => names'[k] = names[k]
    BY <1>2, <1>t, <2>2, <2>3
  <2>6. PICK a : a = [then EXCEPT !.name = n, !.namedBy = by]
    OBVIOUS
  <2>7. /\ a.key = key /\ a.frame = conn[c].frame /\ a.name = n /\ a.namedBy = by
        /\ a.token = conn[c].token
    BY <2>6 DEF Adapter
  <2>8. conn'[c] = a /\ \A d \in Conn : d # c => conn'[d] = conn[d]
    BY <1>2, <1>t, <2>6
  <2>9. ASSUME NEW o \in Org, NEW m \in Name, byName'[o][m] # None
        PROVE  \/ o = conn[c].frame.org /\ m = n /\ byName'[o][m] = c
               \/ byName'[o][m] = byName[o][m] /\ byName[o][m] # c
    <3>1. PICK u : u = Unbound(byName, {c})
      OBVIOUS
    <3>2. u \in [Org -> [Name -> Conn \union {None}]]
      BY <3>1, UnboundShape DEF IInv
    <3>3. u[o][m] # None => u[o][m] = byName[o][m] /\ byName[o][m] # c
      <4>1. u[o][m] = IF byName[o][m] \in {c} /\ conn[byName[o][m]].frame.org = o
                         /\ conn[byName[o][m]].name = m
                      THEN None ELSE byName[o][m]
        BY <3>1 DEF Unbound
      <4>2. byName[o][m] # None => conn[byName[o][m]].frame.org = o /\ conn[byName[o][m]].name = m
        BY <2>1 DEF RoutesLive
      <4>. QED BY <4>1, <4>2
    <3>4. byName' = [u EXCEPT ![conn[c].frame.org][n] = c]
      BY <1>2, <3>1
    <3>5. o = conn[c].frame.org /\ m = n => byName'[o][m] = c
      BY <2>2, <3>2, <3>4
    <3>6. ~(o = conn[c].frame.org /\ m = n) => byName'[o][m] = u[o][m]
      BY <2>2, <3>2, <3>4
    <3>. QED BY <2>9, <3>3, <3>5, <3>6
  <2>10. RoutesLive'
    <3>. SUFFICES ASSUME NEW o \in Org, NEW m \in Name, byName'[o][m] # None
                  PROVE  /\ conn'[byName'[o][m]].key # None
                         /\ adapters[conn'[byName'[o][m]].key] = byName'[o][m]
                         /\ conn'[byName'[o][m]].name = m /\ conn'[byName'[o][m]].frame.org = o
      BY DEF RoutesLive, Live
    <3>1. CASE o = conn[c].frame.org /\ m = n /\ byName'[o][m] = c
      BY <2>2, <2>7, <2>8, <3>1, KeyShape
    <3>2. CASE byName'[o][m] = byName[o][m] /\ byName[o][m] # c
      <4>1. PICK d \in Conn : d = byName[o][m] /\ d = byName'[o][m] /\ d # c
        BY <3>2, RouteShape DEF IInv
      <4>2. Live(d) /\ conn[d].name = m /\ conn[d].frame.org = o
        BY <2>1, <3>2, <4>1 DEF RoutesLive
      <4>. QED BY <2>8, <4>1, <4>2 DEF Live
    <3>. QED BY <2>9, <3>1, <3>2
  <2>11. ToldRecorded'
    <3>. SUFFICES ASSUME NEW d \in Conn, conn'[d].key # None, adapters[conn'[d].key] = d
                  PROVE  names'[conn'[d].key] = [name |-> conn'[d].name, namedBy |-> conn'[d].namedBy,
                                                 token |-> conn'[d].token]
      BY DEF ToldRecorded, Live
    <3>1. CASE d = c
      BY <2>4, <2>5, <2>7, <2>8, <3>1
    <3>2. CASE d # c
      <4>1. conn'[d] = conn[d] /\ Live(d)
        BY <2>8, <3>2 DEF Live
      <4>2. conn[d].key \in Key /\ conn[d].key # key
        BY <2>2, <3>2, <4>1, OnRoute
      <4>. QED BY <2>1, <2>5, <4>1, <4>2 DEF ToldRecorded
    <3>. QED BY <3>1, <3>2
  <2>. QED BY <2>10, <2>11
<1>3. CASE ~torn
  BY <1>1, <1>2, <1>3 DEF Rename, Honoured
<1>4. CASE torn
  BY <1>4 DEF Honoured
<1>. QED BY <1>3, <1>4

(* A claim that ends, and a refresh that renames. *)
LEMMA ClaimsHonoured ==
  ASSUME IInv, Honoured, NEW c \in Conn, ClaimEnds(c) \/ RefreshRenames(c)
  PROVE  Honoured'
<1>t. conn[c] \in Adapter
  BY ConnShape DEF IInv
<1>1. CASE ClaimEnds(c)
  <2>1. PICK then : then = [conn[c] EXCEPT !.claim = None]
    OBVIOUS
  <2>2. conn[c].claim \in Name
    BY <1>1, ConnShape DEF ClaimEnds, IInv
  <2>3. /\ then \in Adapter /\ then.key = conn[c].key /\ then.frame = conn[c].frame
        /\ then.name = conn[c].name /\ then.namedBy = conn[c].namedBy /\ then.token = conn[c].token
    BY <1>t, <2>1 DEF Adapter
  <2>4. Rename(c, conn[c].claim, "user", then) /\ "user" \in By /\ UNCHANGED <<adapters, torn>>
    BY <1>1, <2>1 DEF ClaimEnds, By
  <2>. QED BY <2>2, <2>3, <2>4, RenameHonoured
<1>2. CASE RefreshRenames(c)
  <2>. PICK n : n = refresh.snap[conn[c].frame.pane]
    OBVIOUS
  <2>1. n \in Name /\ "herdr" \in By
    BY <1>2, RegistryAssumption DEF RefreshRenames, IInv, TypeOK, TodoNamed, By
  <2>2. UNCHANGED <<adapters, torn>>
    BY <1>2 DEF RefreshRenames
  <2>3. CASE Rename(c, n, "herdr", conn[c])
    BY <1>t, <2>1, <2>2, <2>3, RenameHonoured
  <2>4. CASE UNCHANGED <<names, disk, byName, conn>>
    BY <2>2, <2>4, Undisturbed
  <2>. QED BY <1>2, <2>3, <2>4 DEF RefreshRenames
<1>. QED BY <1>1, <1>2

(* After a restart there is neither a route nor an adapter. *)
LEMMA RestartHonoured ==
  ASSUME IInv, Restart
  PROVE  Honoured'
<1>1. names' = disk /\ disk' = disk
  BY DEF Restart
<1>2. \A o \in Org, n \in Name : byName'[o][n] = None
  BY DEF Restart, NoRoutes
<1>3. \A c \in Conn : conn'[c].key = None
  BY FreeShape DEF Restart
<1>. QED BY <1>1, <1>2, <1>3 DEF Honoured, RoutesLive, ToldRecorded, Live

(* Routes and records are honoured throughout. *)
LEMMA StaysHonoured == Spec => [](IInv /\ Honoured)
<1>1. Init => Honoured
  <2>. SUFFICES ASSUME Init PROVE Honoured
    OBVIOUS
  <2>1. names = disk /\ \A o \in Org, n \in Name : byName[o][n] = None
    BY DEF Init, NoRoutes
  <2>2. \A c \in Conn : conn[c].key = None
    BY FreeShape DEF Init
  <2>. QED BY <2>1, <2>2 DEF Honoured, RoutesLive, ToldRecorded, Live
<1>2. IInv /\ Honoured /\ [Next]_vars => Honoured'
  <2>. SUFFICES ASSUME IInv, Honoured, [Next]_vars PROVE Honoured'
    OBVIOUS
  <2>1. CASE UNCHANGED vars
    <3>1. UNCHANGED <<names, disk, adapters, byName, torn, conn>>
      BY <2>1 DEF vars
    <3>. QED BY <3>1, Undisturbed
  <2>2. CASE \/ \E c \in Conn : \/ \E f \in Frames, t \in Token \union {None} : Ask(c, f, t)
                                \/ RegisterRefused(c)
                                \/ \E n \in Claims : ClaimBegins(c, n)
             \/ RefreshBegins \/ RefreshEnds
             \/ \E p \in Pane, n \in Labels : PaneRenamed(p, n)
    BY <2>2, QuietHonoured
  <2>3. ASSUME NEW c \in Conn, Register(c) PROVE Honoured'
    BY <2>3, RegisterHonoured
  <2>4. ASSUME NEW c \in Conn, RegisterTaken(c) \/ RegisterUnsaved(c) PROVE Honoured'
    BY <2>4, TornHonoured
  <2>5. ASSUME NEW c \in Conn, Deregister(c) PROVE Honoured'
    BY <2>5, DeregisterHonoured
  <2>6. ASSUME NEW c \in Conn, ClaimEnds(c) \/ RefreshRenames(c) PROVE Honoured'
    BY <2>6, ClaimsHonoured
  <2>7. CASE Restart
    BY <2>7, RestartHonoured
  <2>. QED BY <2>1, <2>2, <2>3, <2>4, <2>5, <2>6, <2>7 DEF Next
<1>. QED BY <1>1, <1>2, Start, Steps, PTL DEF Spec

(* A routed name leads to an adapter that is registered under it, and what   *)
(* an adapter was told is what a restarted daemon reads back, until a        *)
(* registration that fails halfway is seen.                                   *)
THEOREM RouteStaysLive == Spec => []RouteIsLive
<1>1. IInv /\ Honoured => RouteIsLive
  BY DEF Honoured, RoutesLive, ToldRecorded, RouteIsLive
<1>. QED BY <1>1, StaysHonoured, PTL

-----------------------------------------------------------------------------
(* Names by claim *)

(* No step but a claim of its own changes the name of an adapter that has it *)
(* by a claim or a declaration and stays registered.                          *)
LEMMA NameKept ==
  ASSUME IInv, Next, NEW c \in Conn, Live(c), conn[c].namedBy = "user",
         conn'[c].key # None
  PROVE  conn'[c].name \in {conn[c].name, conn[c].claim}
<1>. DEFINE Kept == conn'[c].name \in {conn[c].name, conn[c].claim}
<1>t. /\ conn \in [Conn -> Adapter] /\ conn[c] \in Adapter
      /\ conn[c].key # None /\ conn[c].phase = "live"
  BY OnRoute DEF IInv, TypeOK, Live
<1>f. conn'[c] # Free
  BY FreeShape
<1>1. ASSUME NEW d \in Conn, d # c,
             \E v : conn' = [conn EXCEPT ![d] = v]
      PROVE  Kept
  BY <1>1, <1>t
<1>2. ASSUME NEW d \in Conn, NEW f \in Frames, NEW t \in Token \union {None}, Ask(d, f, t) PROVE Kept
  <2>1. d # c
    BY <1>2, <1>t, FreeShape DEF Ask
  <2>. QED BY <1>1, <1>2, <2>1 DEF Ask
<1>3. ASSUME NEW d \in Conn, RegisterRefused(d) \/ RegisterTaken(d) \/ RegisterUnsaved(d) PROVE Kept
  <2>1. conn' = [conn EXCEPT ![d] = Free]
    BY <1>3 DEF RegisterRefused, RegisterTaken, RegisterUnsaved, Refuse
  <2>2. d # c
    BY <1>f, <1>t, <2>1
  <2>. QED BY <1>1, <2>1, <2>2
<1>4. ASSUME NEW d \in Conn, Register(d) PROVE Kept
  <2>1. d # c
    BY <1>4, <1>t DEF Register, Contends
  <2>2. PICK choice \in Choices(d) : \E t \in TokensFor(d, choice[1]) :
          conn' = [e \in Conn |->
            IF e = d THEN [conn[d] EXCEPT !.phase = "live", !.token = t, !.label = None,
                             !.key = KeyFor(d), !.name = choice[1], !.namedBy = choice[2],
                             !.anchor = Anchor(d)]
            ELSE IF e \in Displaced(d, choice[1]) THEN [conn[e] EXCEPT !.phase = "closing"]
            ELSE conn[e]]
    BY <1>4 DEF Register
  <2>3. PICK a : a = [conn[c] EXCEPT !.phase = "closing"]
    OBVIOUS
  <2>4. a.name = conn[c].name
    BY <1>t, <2>3 DEF Adapter
  <2>5. conn'[c] = a \/ conn'[c] = conn[c]
    BY <2>1, <2>2, <2>3
  <2>. QED BY <2>4, <2>5
<1>5. ASSUME NEW d \in Conn, Deregister(d) PROVE Kept
  <2>1. CASE d # c
    BY <1>1, <1>5, <2>1 DEF Deregister
  <2>2. CASE d = c
    <3>1. PICK a : a = [conn[c] EXCEPT !.phase = "closing"]
      OBVIOUS
    <3>2. a.name = conn[c].name
      BY <1>t, <3>1 DEF Adapter
    <3>3. conn'[c] = a
      BY <1>5, <1>f, <1>t, <2>2, <3>1 DEF Deregister
    <3>. QED BY <3>2, <3>3
  <2>. QED BY <2>1, <2>2
<1>6. ASSUME NEW d \in Conn, RefreshRenames(d) PROVE Kept
  <2>1. CASE d # c
    BY <1>1, <1>6, <2>1 DEF RefreshRenames, Rename
  <2>2. CASE d = c
    <3>1. conn' = conn
      BY <1>6, <2>2 DEF RefreshRenames
    <3>. QED BY <3>1
  <2>. QED BY <2>1, <2>2
<1>7. ASSUME NEW d \in Conn, NEW n \in Claims, ClaimBegins(d, n) PROVE Kept
  <2>1. CASE d # c
    BY <1>1, <1>7, <2>1 DEF ClaimBegins
  <2>2. CASE d = c
    <3>1. PICK a : a = [conn[c] EXCEPT !.claim = n]
      OBVIOUS
    <3>2. a.name = conn[c].name
      BY <1>t, <3>1 DEF Adapter
    <3>3. conn'[c] = a
      BY <1>7, <1>t, <2>2, <3>1 DEF ClaimBegins
    <3>. QED BY <3>2, <3>3
  <2>. QED BY <2>1, <2>2
<1>8. ASSUME NEW d \in Conn, ClaimEnds(d) PROVE Kept
  <2>1. CASE d # c
    BY <1>1, <1>8, <2>1 DEF ClaimEnds, Rename
  <2>2. CASE d = c
    <3>1. PICK a : a = [conn[c] EXCEPT !.claim = None]
      OBVIOUS
    <3>2. PICK b : b = [a EXCEPT !.name = conn[c].claim, !.namedBy = "user"]
      OBVIOUS
    <3>3. a \in Adapter /\ a.name = conn[c].name
      BY <1>t, <3>1 DEF Adapter
    <3>4. b.name = conn[c].claim
      BY <3>2, <3>3 DEF Adapter
    <3>5. conn'[c] = a \/ conn'[c] = b
      BY <1>8, <1>t, <2>2, <3>1, <3>2 DEF ClaimEnds, Rename
    <3>. QED BY <3>3, <3>4, <3>5
  <2>. QED BY <2>1, <2>2
<1>9. CASE RefreshBegins \/ RefreshEnds \/ \E p \in Pane, n \in Labels : PaneRenamed(p, n)
  BY <1>9 DEF RefreshBegins, RefreshEnds, PaneRenamed
<1>10. CASE Restart
  BY <1>10, <1>f DEF Restart
<1>. QED BY <1>2, <1>3, <1>4, <1>5, <1>6, <1>7, <1>8, <1>9, <1>10 DEF Next

(* "Explicit Transit claims remain authoritative": neither a pane's new name *)
(* nor a refresh that had chosen the adapter changes a name that was claimed  *)
(* or declared; only a claim of the adapter's own does.                       *)
THEOREM ClaimsStayAuthoritative == Spec => ClaimsAuthoritative
<1>1. IInv /\ [Next]_vars =>
        [\A c \in Conn : Live(c) /\ Live(c)' /\ conn[c].namedBy = "user" =>
           conn'[c].name \in {conn[c].name, conn[c].claim}]_vars
  BY NameKept DEF Live
<1>. QED BY <1>1, Inductive, PTL DEF Spec, ClaimsAuthoritative
=============================================================================
