---------------------------- MODULE CategoryTree ----------------------------
(***************************************************************************)
(* The tree of product categories and its update and removal               *)
(* (domains/product). updateCategory walks from the new parent to the root *)
(* with one query per level before it writes, in a READ COMMITTED          *)
(* transaction: every query sees what is committed at that moment, and     *)
(* nothing is locked until the write.                                      *)
(***************************************************************************)

CONSTANTS
  Categories,  \* category ids
  Editors,     \* slots for requests
  Root         \* the parent of a top-level category: NULL

ASSUME CategoryAssumption == Root \notin Categories

VARIABLES
  parent,  \* categories.parent_id, Root included, by existing category
  call,    \* the updates in flight
  overlap  \* whether two updates ever ran beside each other (history)

treeVars == <<parent, call, overlap>>

Existing == DOMAIN parent
Idle == [at |-> "idle", id |-> Root, to |-> Root, current |-> Root, visited |-> {}]

TreeTypeOK ==
  /\ Existing \subseteq Categories
  /\ parent \in [Existing -> Existing \cup {Root}]
  /\ call \in [Editors -> [at : {"idle", "walk", "write"},
                           id : Categories \cup {Root}, to : Categories \cup {Root},
                           current : Categories \cup {Root}, visited : SUBSET Categories]]
  /\ overlap \in BOOLEAN

TreeInit ==
  /\ parent = [c \in Categories |-> Root]
  /\ call = [h \in Editors |-> Idle]
  /\ overlap = FALSE

-----------------------------------------------------------------------------
Return(h) == call' = [call EXCEPT ![h] = Idle]

\* The category and its new parent exist when they are read.
UpdateCategory(h, c, p) ==
  /\ call[h].at = "idle"
  /\ c \in Existing /\ p \in Existing
  /\ call' = [call EXCEPT ![h] = [at |-> "walk", id |-> c, to |-> p,
                                  current |-> p, visited |-> {}]]
  /\ overlap' = (overlap \/ \E g \in Editors : call[g].at # "idle")
  /\ UNCHANGED parent

\* Fault: only the category itself is looked for.
ClosesAnywayCycle(h) == call[h].current = call[h].id

\* CATEGORY_CYCLE: the walk meets the category, or a place it has been before.
ClosesCycle(h) ==
  call[h].current = call[h].id \/ call[h].current \in call[h].visited

WalkRefuses(h) ==
  /\ call[h].at = "walk" /\ call[h].current # Root
  /\ ClosesCycle(h)
  /\ Return(h)
  /\ UNCHANGED <<parent, overlap>>

\* Fault: the new parent is compared with the category, and not walked from.
WalkUpOnce(h) ==
  /\ call[h].at = "walk" /\ call[h].current # Root
  /\ ~ClosesCycle(h)
  /\ call' = [call EXCEPT ![h].at = "write"]
  /\ UNCHANGED <<parent, overlap>>

\* One level up, with one query; a category deleted meanwhile ends the walk.
WalkUp(h) ==
  LET c == call[h].current IN
  /\ call[h].at = "walk" /\ c # Root
  /\ ~ClosesCycle(h)
  /\ call' = [call EXCEPT ![h].current = IF c \in Existing THEN parent[c] ELSE Root,
                          ![h].visited = @ \cup {c}]
  /\ UNCHANGED <<parent, overlap>>

WalkEnds(h) ==
  /\ call[h].at = "walk" /\ call[h].current = Root
  /\ call' = [call EXCEPT ![h].at = "write"]
  /\ UNCHANGED <<parent, overlap>>

\* The foreign key refuses a parent that was deleted during the walk; a
\* category that was deleted matches no row.
WriteParent(h) ==
  LET c == call[h] IN
  /\ c.at = "write"
  /\ parent' = IF c.id \in Existing /\ c.to \in Existing
               THEN [parent EXCEPT ![c.id] = c.to] ELSE parent
  /\ Return(h)
  /\ UNCHANGED overlap

\* removeCategory; its children become top-level (ON DELETE SET NULL).
Remove(c) ==
  parent' = [d \in Existing \ {c} |-> IF parent[d] = c THEN Root ELSE parent[d]]

RemoveCategory(c) == c \in Existing /\ Remove(c) /\ UNCHANGED <<call, overlap>>

\* createCategory under any parent; an id comes back only once nobody holds it.
CreateCategory(c, p) ==
  /\ c \in Categories \ Existing /\ p \in Existing \cup {Root}
  /\ \A h \in Editors : c \notin call[h].visited \cup {call[h].id, call[h].to}
  /\ parent' = [d \in Existing \cup {c} |-> IF d = c THEN p ELSE parent[d]]
  /\ UNCHANGED <<call, overlap>>

Crash(h) == call[h].at # "idle" /\ Return(h) /\ UNCHANGED <<parent, overlap>>

-----------------------------------------------------------------------------
Progress(h) == WalkRefuses(h) \/ WalkUp(h) \/ WalkEnds(h) \/ WriteParent(h)

TreeNext ==
  \/ \E h \in Editors :
       \/ Progress(h) \/ Crash(h)
       \/ \E c, p \in Categories : UpdateCategory(h, c, p)
  \/ \E c \in Categories :
       RemoveCategory(c) \/ \E p \in Categories \cup {Root} : CreateCategory(c, p)

TreeSpec == TreeInit /\ [][TreeNext]_treeVars

\* A server runs the request it accepted.
FairTreeSpec == TreeSpec /\ \A h \in Editors : WF_treeVars(Progress(h))

-----------------------------------------------------------------------------
\* Every category has a way to the root (the menu depends on it): of no set of
\* categories do all the parents lie within the set.
Acyclic ==
  \A S \in SUBSET Existing : S # {} => \E c \in S : parent[c] \notin S

\* CATEGORY_CYCLE: as long as no two updates ran beside each other, no sequence
\* of moves, removals and creations, also during a walk, puts a category below
\* itself.
SerialUpdatesKeepTree == ~overlap => Acyclic

\* The walk ends even over a cycle that concurrent updates have left: that is
\* what the visited set is for.
CallsReturn == \A h \in Editors : call[h].at # "idle" ~> call[h].at = "idle"
=============================================================================
