------------------------------ MODULE EntityTree ------------------------------
(***************************************************************************)
(* The entity tree of one client: URIs, parents, lists of children, the    *)
(* lookup of the hierarchy and the creatables of factories, for the        *)
(* client's own entities and for proxies of a peer's.                      *)
(*                                                                         *)
(* Entities hold no pointers to each other.  A child has its parent's URI  *)
(* in m_parent, a component the URIs of its children in m_children, and    *)
(* both are resolved through the hierarchy's lookup, which has the URI as  *)
(* its key.  Every change of a name or of a parent must therefore rewrite  *)
(* several URIs and keys, of the whole subtree, in an order in which the   *)
(* ones still to be rewritten can be found.                                *)
(*                                                                         *)
(* A URI is the sequence of its parts.  The calls are sequential: what the *)
(* threads of a client do to the lookup is the matter of ProxyLifecycle.   *)
(***************************************************************************)
EXTENDS Integers, Sequences, FiniteSets, FiniteSetsExt

CONSTANTS
    Root,        \* the client's own performer
    Peer,        \* the proxy of another performer
    Locals,      \* entities of this client
    Remotes,     \* proxies of the peer's entities
    Factories,   \* those of them that are factories; the rest are components
    Names,       \* names of entities
    RootNames,   \* names of the client's performer
    PeerName,    \* name of the peer
    Creatables,  \* last parts of creatable paths
    NoEntity,
    MaxSteps     \* bound on the number of calls

Performers == {Root, Peer}
Entities == Performers \cup Locals \cup Remotes
Components == Entities \ Factories

ASSUME TreeAssumption ==
    /\ Factories \subseteq Locals \cup Remotes
    /\ NoEntity \notin Entities
    /\ PeerName \notin Names \cup RootNames
    /\ RootNames \cap Names = {}

VARIABLES
    tree,     \* the entities and the lookup, see TypeOK
    dying,    \* entities whose deactivation is queued
    vacated,  \* history: URIs that a rename has left
    steps

vars == <<tree, dying, vacated, steps>>

-----------------------------------------------------------------------------
(* ZstURI *)

URILast(u) == u[Len(u)]

\* Both ends count: range(0, 0) is the first part.
URIRange(u, start, end) == SubSeq(u, start + 1, end + 1)

\* operator+
URIPlus(u, other) == u \o other

URIParent(u) == IF Len(u) < 2 THEN <<>> ELSE URIRange(u, 0, Len(u) - 2)

\* The code counts the positions where the two agree and wants as many as
\* compare has; an empty URI is contained in none.
Contains(u, compare) ==
    /\ Len(compare) <= Len(u)
    /\ compare # <<>>
    /\ \A i \in 1..Len(compare) : compare[i] = u[i]

-----------------------------------------------------------------------------
(* The lookup: find_entity and update_entity_in_lookup *)

Find(t, u) == IF u \in DOMAIN t.look THEN t.look[u] ELSE NoEntity

\* Mutant: the old key stays.
Moved_KeepsOld(look, e, orig, new) ==
    [u \in DOMAIN look \cup {new} |-> IF u = new THEN e ELSE look[u]]

\* update_entity_in_lookup; a parentless entity is stored like any other.
Moved(look, e, orig, new) ==
    [u \in (DOMAIN look \ {orig}) \cup {new} |-> IF u = new THEN e ELSE look[u]]

Erased(look, us) == [u \in DOMAIN look \ us |-> look[u]]

Register(t, e) ==
    [t EXCEPT !.look = Moved(t.look, e, t.uri[e], t.uri[e]), !.reg[e] = TRUE]

\* Mutant: only creatables that have no factory's path yet get one.
Rerooted_Once(creatables, u) ==
    {IF Len(c) > 1 THEN c ELSE URIPlus(u, <<URILast(c)>>) : c \in creatables}

\* update_createable_URIs
Rerooted(creatables, u) ==
    {IF Contains(c, u) THEN c ELSE URIPlus(u, <<URILast(c)>>) : c \in creatables}

\* Nobody listens to an unregistered entity, so that only a registered one
\* reaches the lookup.
UpdateURI(t, e, orig) ==
    [t EXCEPT
        !.look = IF t.reg[e] THEN Moved(@, e, orig, t.uri[e]) ELSE @,
        !.make[e] = IF e \in Factories THEN Rerooted(@, t.uri[e]) ELSE @]

-----------------------------------------------------------------------------
(* ZstEntityBase and ZstComponent.  The operators take a tree and return   *)
(* the tree after the call.                                                *)

ParentOf(t, e) ==
    IF t.par[e] = <<>> \/ ~t.reg[e] THEN NoEntity ELSE Find(t, t.par[e])

\* get_child_entities, not recursive
Children(t, e) ==
    IF e \in Components /\ t.reg[e]
    THEN {Find(t, u) : u \in t.kids[e]} \ {NoEntity}
    ELSE {}

\* unpack_entity: what a message says of an entity, its URI and, of a factory,
\* its creatables; a proxy takes its parent from its URI.
Unpacked(t, e, u, cs) == [t EXCEPT !.uri[e] = u, !.make[e] = cs]

\* The creatables in a message about the factory at u
Packed(u, cs) == {URIPlus(u, <<c>>) : c \in cs}

RECURSIVE SetParent(_, _, _)

RemoveChild(t, p, c) ==
    SetParent([t EXCEPT !.kids[p] = @ \ {t.uri[c]}], c, NoEntity)

AddChild(t, p, c) ==
    LET t1 == SetParent(t, c, p)
        t2 == [t1 EXCEPT !.kids[p] = @ \cup {t1.uri[c]}]
    IN  IF t.uri[c] \in t.kids[p] THEN t
        ELSE IF t.reg[p] /\ ~t.reg[c] THEN Register(t2, c)
        ELSE t2

\* "Update child entity paths by reparenting"
Readded(t, p, bundle) ==
    FoldSet(LAMBDA c, acc : AddChild(RemoveChild(acc, p, c), p, c), t, bundle)

\* Mutant: the children of a moved component keep their old paths.
SetParent_Flat(t, e, p) ==
    LET old == t.uri[e]
        par == IF p = NoEntity THEN <<>> ELSE t.uri[p]
        new == IF par = <<>> THEN <<URILast(old)>>
               ELSE IF Contains(old, par) THEN old
               ELSE URIPlus(par, <<URILast(old)>>)
    IN  UpdateURI([t EXCEPT !.uri[e] = new, !.par[e] = par], e, old)

\* p = NoEntity is set_parent(NULL).
SetParent(t, e, p) ==
    LET old == t.uri[e]
        par == IF p = NoEntity THEN <<>> ELSE t.uri[p]
        new == IF par = <<>> THEN <<URILast(old)>>
               ELSE IF Contains(old, par) THEN old
               ELSE URIPlus(par, <<URILast(old)>>)
        t1 == UpdateURI([t EXCEPT !.uri[e] = new, !.par[e] = par], e, old)
    IN  Readded(t1, e, Children(t1, e))

SetName(t, e, n) ==
    LET p == ParentOf(t, e)
        new == IF p = NoEntity THEN <<n>> ELSE Append(URIParent(t.uri[e]), n)
        t1 == UpdateURI([t EXCEPT !.uri[e] = new], e, t.uri[e])
        t2 == IF p = NoEntity THEN t1 ELSE AddChild(RemoveChild(t1, p, e), p, e)
    IN  Readded(t2, e, Children(t, e))

\* get_child_entities, recursive, with the entity itself
RECURSIVE Subtree(_, _)
Subtree(t, e) == {e} \cup UNION {Subtree(t, c) : c \in Children(t, e)}

\* ZstComponent::walk_child_by_URI from e on
RECURSIVE WalkChild(_, _, _)
WalkChild(t, e, path) ==
    LET distance == Len(path) - Len(t.uri[e])
        next == Find(t, URIRange(path, 0, Len(path) - distance))
    IN  IF distance = 0 THEN e
        ELSE IF e \notin Components \/ next = NoEntity THEN NoEntity
        ELSE IF Len(t.uri[next]) <= Len(t.uri[e]) THEN NoEntity \* would not end
        ELSE WalkChild(t, next, path)

\* ZstHierarchy::walk_to_entity
Walk(t, path) ==
    LET first == Find(t, URIRange(path, 0, 0))
    IN  IF first \notin Performers THEN NoEntity
        ELSE IF t.uri[first] = path THEN first
        ELSE IF Len(t.uri[first]) >= Len(path) \/ ~Contains(path, t.uri[first])
             THEN NoEntity
        ELSE WalkChild(t, first, path)

-----------------------------------------------------------------------------
(* States *)

Exists(e) == tree.uri[e] # <<>>

\* Reachable from a performer, by its path.
Attached(e) == Exists(e) /\ \E p \in Performers : Contains(tree.uri[e], tree.uri[p])

Live(e) == Exists(e) /\ e \notin dying

Init ==
    /\ \E n \in RootNames :
         tree = [uri  |-> [e \in Entities |-> IF e = Root THEN <<n>> ELSE <<>>],
                 par  |-> [e \in Entities |-> <<>>],
                 kids |-> [e \in Entities |-> {}],
                 make |-> [e \in Entities |-> {}],
                 reg  |-> [e \in Entities |-> e = Root],
                 look |-> [u \in {<<n>>} |-> Root]]
    /\ dying = {}
    /\ vacated = {}
    /\ steps = 0

Step(t) ==
    /\ steps < MaxSteps
    /\ steps' = steps + 1
    /\ tree' = t

\* The names a caller may give e under p.  The code compares with none: equal
\* names of siblings, or of a parent and its child, overwrite each other's key.
FreeName(e, p, n) ==
    /\ \A c \in Children(tree, p) \ {e} : URILast(tree.uri[c]) # n
    /\ \A c \in Children(tree, e) : URILast(tree.uri[c]) # n
    /\ n # URILast(tree.uri[p])

-----------------------------------------------------------------------------
(* Calls of the application *)

\* add_child of a new entity, or of one that was taken out of the tree
AddLocal(p, e, n) ==
    /\ p \in (Locals \ Factories) \cup {Root}
    /\ Live(p) /\ Attached(p)
    /\ Exists(e) => e \notin dying /\ tree.par[e] = <<>> /\ tree.uri[e] = <<n>>
    /\ p # e
    /\ Len(tree.uri[p]) <= 2
    /\ FreeName(e, p, n)
    /\ Step(AddChild([tree EXCEPT !.uri[e] = <<n>>], p, e))
    /\ UNCHANGED <<dying, vacated>>

\* remove_child by the application, which keeps the entity
RemoveLocal(e) ==
    /\ Live(e)
    /\ LET p == ParentOf(tree, e)
       IN  p # NoEntity /\ Step(RemoveChild(tree, p, e))
    /\ UNCHANGED <<dying, vacated>>

\* set_name of an entity with a parent
RenameLocal(e, n) ==
    /\ Live(e)
    /\ LET p == ParentOf(tree, e)
       IN  p # NoEntity /\ n # URILast(tree.uri[e]) /\ FreeName(e, p, n)
    /\ vacated' = vacated \cup {tree.uri[e]}
    /\ Step(SetName(tree, e, n))
    /\ UNCHANGED dying

\* set_name of the client's performer
RenameRoot(n) ==
    /\ tree.uri[Root] # <<n>>
    /\ Step(SetName(tree, Root, n))
    /\ UNCHANGED <<dying, vacated>>

\* add_creatable with a bare name, and update_creatables
AddCreatable(f, c) ==
    /\ Live(f)
    /\ Step([tree EXCEPT !.make[f] = Rerooted(@ \cup {<<c>>}, tree.uri[f])])
    /\ UNCHANGED <<dying, vacated>>

\* remove_creatable; nobody is told
RemoveCreatable(f, path) ==
    /\ Live(f) /\ path \in tree.make[f]
    /\ Step([tree EXCEPT !.make[f] = @ \ {path}])
    /\ UNCHANGED <<dying, vacated>>

\* create_entity with a local factory: the entity is added to the performer.
CreateFrom(path, e, n) ==
    /\ ~Exists(e)
    /\ LET f == Find(tree, URIParent(path))
       IN  /\ f \in Factories \cap Locals
           /\ path \in tree.make[f]
    /\ FreeName(e, Root, n)
    /\ Step(AddChild([tree EXCEPT !.uri[e] = <<n>>], Root, e))
    /\ UNCHANGED <<dying, vacated>>

-----------------------------------------------------------------------------
(* Messages of the stage about the peer's entities *)

\* create_proxy_entity and add_proxy_entity.  Nothing arrives below an entity
\* whose leave was announced; GraphSync has the order of the announcements.
AddProxy(e, u, cs) ==
    /\ ~Exists(e)
    /\ e \notin Factories => cs = {}
    /\ ~Contains(u, tree.uri[Root])
    /\ Find(tree, u) = NoEntity
    /\ LET p  == Find(tree, URIParent(u))
           t1 == Unpacked(tree, e, u, Packed(u, cs))
       IN  /\ e = Peer <=> Len(u) = 1
           /\ p # NoEntity => p \in Components /\ p \notin dying
           /\ p = NoEntity => e = Peer
           /\ p # NoEntity => FreeName(e, p, URILast(u))
           /\ Step(Register(IF p = NoEntity THEN t1 ELSE AddChild(t1, p, e), e))
    /\ UNCHANGED <<dying, vacated>>

\* update_proxy_entity: a factory brings its creatables, a changed name is
\* taken over, a move is refused.
UpdateProxy(e, u, cs) ==
    /\ Exists(e) /\ Find(tree, tree.uri[e]) = e
    /\ Len(u) > 1 /\ URIParent(u) = URIParent(tree.uri[e])
    /\ u # tree.uri[e] =>
         FreeName(e, Find(tree, URIParent(u)), URILast(u)) /\ Find(tree, u) = NoEntity
    /\ e \notin Factories => cs = {}
    /\ LET t1 == IF e \in Factories
                 THEN [tree EXCEPT !.make[e] = Packed(u, cs)]
                 ELSE tree
           renamed == u # tree.uri[e] /\ tree.par[e] = URIParent(u)
       IN  /\ Step(IF renamed THEN SetName(t1, e, URILast(u)) ELSE t1)
           /\ vacated' = IF renamed THEN vacated \cup {tree.uri[e]} ELSE vacated
    /\ UNCHANGED dying

-----------------------------------------------------------------------------
(* Leaving *)

\* destroy_entity_complete, of a local entity or of a proxy
DestroyEntityComplete(e) ==
    /\ Live(e) /\ e # Root
    /\ LET p == ParentOf(tree, e)
           t == IF p = NoEntity THEN tree ELSE RemoveChild(tree, p, e)
       IN  Step(t) /\ dying' = dying \cup Subtree(t, e)
    /\ UNCHANGED vacated

\* reap_all: every entity is erased under the URI it has now.
Reap ==
    /\ dying # {}
    /\ Step([tree EXCEPT
                !.look = Erased(@, {tree.uri[e] : e \in dying}),
                !.uri  = [e \in Entities |-> IF e \in dying THEN <<>> ELSE @[e]],
                !.par  = [e \in Entities |-> IF e \in dying THEN <<>> ELSE @[e]],
                !.kids = [e \in Entities |-> IF e \in dying THEN {} ELSE @[e]],
                !.make = [e \in Entities |-> IF e \in dying THEN {} ELSE @[e]],
                !.reg  = [e \in Entities |-> e \notin dying /\ @[e]]])
    /\ dying' = {}
    /\ UNCHANGED vacated

-----------------------------------------------------------------------------

RemoteURIs ==
    {<<PeerName>>} \cup {<<PeerName, n>> : n \in Names}
        \cup {<<PeerName, n, m>> : n, m \in Names}

Next ==
    \/ \E p \in Locals \cup {Root}, e \in Locals, n \in Names : AddLocal(p, e, n)
    \/ \E e \in Locals : RemoveLocal(e)
    \/ \E e \in Locals, n \in Names : RenameLocal(e, n)
    \/ \E n \in RootNames : RenameRoot(n)
    \/ \E f \in Locals \cap Factories, c \in Creatables : AddCreatable(f, c)
    \/ \E f \in Locals \cap Factories : \E path \in tree.make[f] :
         \E e \in Locals \ Factories, n \in Names : CreateFrom(path, e, n)
    \/ \E f \in Locals \cap Factories : \E path \in tree.make[f] : RemoveCreatable(f, path)
    \/ \E e \in Remotes \cup {Peer}, u \in RemoteURIs, cs \in SUBSET Creatables :
         AddProxy(e, u, cs)
    \/ \E e \in Remotes, u \in RemoteURIs, cs \in SUBSET Creatables :
         UpdateProxy(e, u, cs)
    \/ \E e \in Entities : DestroyEntityComplete(e)
    \/ Reap

Spec == Init /\ [][Next]_vars

-----------------------------------------------------------------------------
(* Properties *)

Parts == Names \cup RootNames \cup {PeerName} \cup Creatables

\* A path to an entity has at most four parts, one to a creatable one more.
IsURI(u, max) == Len(u) <= max /\ \A i \in 1..Len(u) : u[i] \in Parts

\* Types: the URI and m_parent of every entity (the empty one before it exists
\* and after it was reaped), its children and creatables, whether it is
\* registered, and the lookup from URIs to entities.
TypeOK ==
    /\ \A e \in Entities :
         /\ IsURI(tree.uri[e], 4) /\ IsURI(tree.par[e], 3)
         /\ \A u \in tree.kids[e] : IsURI(u, 4)
         /\ \A u \in tree.make[e] : IsURI(u, 5)
    /\ tree.reg \in [Entities -> BOOLEAN]
    /\ \A u \in DOMAIN tree.look : tree.look[u] \in Entities
    /\ dying \subseteq Entities
    /\ steps \in 0..MaxSteps

\* The lookup follows every rename, move and removal of an ancestor: an entity
\* below a performer is found under the URI it has, and no key is left of a URI
\* that an entity has given up or that a reaped entity had.  walk_to_entity,
\* which goes down from the performer part by part, ends at the entity that
\* find_entity takes from the lookup in one step.
LookupMatches ==
    /\ \A e \in Entities :
           Attached(e) => /\ Find(tree, tree.uri[e]) = e
                          /\ Walk(tree, tree.uri[e]) = e
    /\ \A u \in DOMAIN tree.look : tree.uri[tree.look[u]] = u

\* The three records of one parenthood agree below a performer: the path of the
\* child, its m_parent, and the parent's m_children.  Excepted is the m_parent
\* of a proxy under a path that a renamed sibling has left: its old URI stays
\* in the parent's m_children, so that add_child takes the newcomer for a
\* child already and does not set its parent.
TreeAgrees ==
    \A e \in Entities \ Performers : Attached(e) =>
        LET p == Find(tree, URIParent(tree.uri[e]))
        IN  /\ p # NoEntity
            /\ tree.uri[e] \in tree.kids[p]
            /\ \/ tree.par[e] = tree.uri[p]
               \/ tree.par[e] = <<>> /\ e \in Remotes /\ tree.uri[e] \in vacated

\* create_entity finds the factory of a creatable from the creatable's path:
\* the paths must follow every rename and move of the factory or of what is
\* above it.
CreatablesFound ==
    \A f \in Factories : (Attached(f) /\ tree.par[f] # <<>>) =>
        \A c \in tree.make[f] : Find(tree, URIParent(c)) = f
=============================================================================
