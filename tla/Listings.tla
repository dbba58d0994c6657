------------------------------ MODULE Listings ------------------------------
(***************************************************************************)
(* The two paginated lists, read page by page while memberships come and   *)
(* go: the members of an organization by cursor, a user's organizations by *)
(* offset.                                                                 *)
(*                                                                         *)
(* A client walks one list at a time.  Between two pages anything may      *)
(* happen to the Membership table, also between the middleware that admits *)
(* a request and the query that answers it.                                *)
(***************************************************************************)
EXTENDS Naturals, FiniteSets

CONSTANTS
  Users,          (* User rows.                                            *)
  Organizations,  (* Organization ids.                                     *)
  Ids,            (* Membership ids, never reused.  A bound.               *)
  Times,          (* Values of createdAt, in milliseconds.  A bound.       *)
  MaxLimit,       (* The largest page (100).                               *)
  MaxOffset,      (* The largest offset (10000).                           *)
  None            (* No cursor, no value.                                  *)

ASSUME NumbersOrdered ==
  /\ Organizations \subseteq Nat /\ Ids \subseteq Nat /\ Times \subseteq Nat
  /\ MaxLimit \in Nat \ {0} /\ MaxOffset \in Nat

Membership == [id : Ids, userId : Users, organizationId : Organizations, createdAt : Times]

(* What a cursor carries from one page to the next. *)
Cursor == [organizationId : Organizations, createdAt : Times, id : Ids]

ASSUME NoneIsNoValue == None \notin Cursor \cup Users \cup Organizations

VARIABLES
  memberships,  (* The committed rows of the Membership table.             *)
  issued,       (* Membership ids handed out.                              *)
  walk          (* The walk of the client, and what it has seen:           *)
                (*   listed, repeated  ids listed once, more than once     *)
                (*   stable            ids in the list since the first page *)
                (*   lost, gained      memberships lost and gained by the  *)
                (*                     reader since the first page         *)

vars == <<memberships, issued, walk>>

Limits == 1 .. MaxLimit

Offsets == 0 .. MaxOffset

NoWalk ==
  [pc |-> "idle", list |-> "members", user |-> None, organization |-> None, cursor |-> None,
   offset |-> 0, listed |-> {}, repeated |-> {}, stable |-> {}, lost |-> 0, gained |-> 0]

Walk ==
  [pc : {"idle", "ready", "admitted", "done"}, list : {"members", "organizations"},
   user : Users \cup {None}, organization : Organizations \cup {None},
   cursor : Cursor \cup {None}, offset : Nat,
   listed : SUBSET Nat, repeated : SUBSET Nat, stable : SUBSET Nat, lost : Nat, gained : Nat]

TypeOK ==
  /\ memberships \subseteq Membership
  /\ issued \subseteq Ids
  /\ walk \in Walk

Init ==
  /\ memberships = {}
  /\ issued = {}
  /\ walk = NoWalk

-----------------------------------------------------------------------------
(* Queries. *)

MembersOf(o) == {m \in memberships : m.organizationId = o}

MembershipsOf(u) == {m \in memberships : m.userId = u}

IsMember(u, o) == MembersOf(o) \cap MembershipsOf(u) # {}

OrganizationsOf(u) == {m.organizationId : m \in MembershipsOf(u)}

(* ORDER BY "createdAt", id: the clock of the instance that wrote a row may
   be behind, and two rows may carry the same millisecond. *)
Precedes(a, b) ==
  \/ a.createdAt < b.createdAt
  \/ a.createdAt = b.createdAt /\ a.id < b.id

(* ORDER BY and LIMIT over a set of rows. *)
FirstRows(rows, take) ==
  {m \in rows : Cardinality({k \in rows : Precedes(k, m)}) < take}

LastRow(rows) == CHOOSE m \in rows : \A k \in rows : ~Precedes(m, k)

(* Mutant: the row the cursor names must still be there (Prisma's cursor). *)
FindPageFromRow(o, take, boundary) ==
  FirstRows({m \in MembersOf(o) :
               boundary # None => /\ \E k \in MembersOf(o) : k.id = boundary.id
                                  /\ Precedes(boundary, m)}, take)

(* The row comparison ("createdAt", id) > (...) needs no boundary row. *)
FindPageByOrganization(o, take, boundary) ==
  FirstRows({m \in MembersOf(o) : boundary # None => Precedes(boundary, m)}, take)

(* Mutant: the offset counts from one. *)
FindPageFromOne(u, take, offset) ==
  {o \in OrganizationsOf(u) :
     Cardinality({p \in OrganizationsOf(u) : p < o}) \in offset + 1 .. offset + take}

(* ORDER BY id, OFFSET and LIMIT. *)
FindPageByUserId(u, take, offset) ==
  {o \in OrganizationsOf(u) :
     Cardinality({p \in OrganizationsOf(u) : p < o}) \in offset .. offset + take - 1}

(* Mutant: the cursor does not say whose list it belongs to. *)
EncodePosition(o, m) == [createdAt |-> m.createdAt, id |-> m.id]

EncodeCursor(o, m) == [organizationId |-> o, createdAt |-> m.createdAt, id |-> m.id]

ValidCursor(cursor, o) == cursor = None \/ cursor.organizationId = o

-----------------------------------------------------------------------------
(* The Membership table changes. *)

(* The reader walks a list of its own organizations. *)
Tours(u) == walk.list = "organizations" /\ walk.user = u

(* A member is added, accepts an invitation or founds an organization. The
   time was taken before the id, and the row may commit later than others. *)
Join(u, o, id, t) ==
  /\ ~IsMember(u, o)
  /\ id \in Ids \ issued
  /\ memberships' =
       memberships \cup {[id |-> id, userId |-> u, organizationId |-> o, createdAt |-> t]}
  /\ issued' = issued \cup {id}
  /\ walk' = [walk EXCEPT !.gained = IF Tours(u) THEN @ + 1 ELSE @]

(* Rows go: one member, all rows of an account, all of an organization. *)
Leave(gone) ==
  LET u == walk.user
      ids == IF walk.list = "organizations"
             THEN {m.organizationId : m \in gone \cap MembershipsOf(u)}
             ELSE {m.id : m \in gone} IN
  /\ gone # {}
  /\ memberships' = memberships \ gone
  /\ walk' = [walk EXCEPT !.stable = @ \ ids,
                          !.lost = IF Tours(u) THEN @ + Cardinality(ids) ELSE @]
  /\ UNCHANGED issued

Leaves ==
  \/ \E m \in memberships : Leave({m})
  \/ \E u \in Users : Leave(MembershipsOf(u))
  \/ \E o \in Organizations : Leave(MembersOf(o))

-----------------------------------------------------------------------------
(* GET /organizations/{id}/members?limit&cursor *)

BeginMembers(u, o) ==
  /\ walk' = [NoWalk EXCEPT !.pc = "ready", !.user = u, !.organization = o]
  /\ UNCHANGED <<memberships, issued>>

(* The client sends the cursor of one organization to another. *)
Redirect(o) ==
  /\ walk.pc = "ready" /\ walk.cursor # None /\ o # walk.cursor.organizationId
  /\ walk' = [NoWalk EXCEPT !.pc = "ready", !.user = walk.user,
                            !.organization = o, !.cursor = walk.cursor]
  /\ UNCHANGED <<memberships, issued>>

(* organizationMembershipMiddleware, on every page. *)
AdmitMember ==
  /\ walk.pc = "ready" /\ walk.list = "members"
  /\ walk' = IF IsMember(walk.user, walk.organization) THEN [walk EXCEPT !.pc = "admitted"]
             ELSE NoWalk
  /\ UNCHANGED <<memberships, issued>>

ListMembers(limit) ==
  LET o == walk.organization
      fetched == FindPageByOrganization(o, limit + 1, walk.cursor)
      items == FirstRows(fetched, limit)
      ids == {m.id : m \in items}
      more == Cardinality(fetched) > limit IN
  /\ walk.pc = "admitted" /\ walk.list = "members"
  /\ walk' =
       IF ~ValidCursor(walk.cursor, o) THEN NoWalk
       ELSE [walk EXCEPT !.pc = IF more THEN "ready" ELSE "done",
                         !.cursor = IF more THEN EncodeCursor(o, LastRow(items)) ELSE None,
                         !.listed = @ \cup ids,
                         !.repeated = @ \cup (walk.listed \cap ids),
                         !.stable = IF walk.listed = {} THEN {m.id : m \in MembersOf(o)} ELSE @]
  /\ UNCHANGED <<memberships, issued>>

-----------------------------------------------------------------------------
(* GET /organizations?limit&offset *)

BeginOrganizations(u) ==
  /\ walk' = [NoWalk EXCEPT !.pc = "ready", !.list = "organizations", !.user = u]
  /\ UNCHANGED <<memberships, issued>>

(* authMiddleware. *)
AdmitUser ==
  /\ walk.pc = "ready" /\ walk.list = "organizations"
  /\ walk' = [walk EXCEPT !.pc = "admitted"]
  /\ UNCHANGED <<memberships, issued>>

ListMine(limit) ==
  LET u == walk.user
      fetched == FindPageByUserId(u, limit + 1, walk.offset)
      items == {o \in fetched : Cardinality({p \in fetched : p < o}) < limit}
      hasNext == Cardinality(fetched) > limit
      first == walk.offset = 0 IN
  /\ walk.pc = "admitted" /\ walk.list = "organizations"
  /\ walk' =
       IF walk.offset \notin Offsets THEN NoWalk
       ELSE [walk EXCEPT !.pc = IF hasNext THEN "ready" ELSE "done",
                         !.offset = @ + limit,
                         !.listed = @ \cup items,
                         !.repeated = @ \cup (walk.listed \cap items),
                         !.stable = IF first THEN OrganizationsOf(u) ELSE @,
                         !.lost = IF first THEN 0 ELSE @,
                         !.gained = IF first THEN 0 ELSE @]
  /\ UNCHANGED <<memberships, issued>>

-----------------------------------------------------------------------------
(* The answer is lost, or another instance fails: the client asks again. *)
LoseAnswer ==
  /\ walk.pc = "admitted"
  /\ walk' = [walk EXCEPT !.pc = "ready"]
  /\ UNCHANGED <<memberships, issued>>

Next ==
  \/ \E u \in Users, o \in Organizations, id \in Ids, t \in Times : Join(u, o, id, t)
  \/ Leaves
  \/ \E u \in Users, o \in Organizations : BeginMembers(u, o)
  \/ \E o \in Organizations : Redirect(o)
  \/ AdmitMember
  \/ \E limit \in Limits : ListMembers(limit) \/ ListMine(limit)
  \/ \E u \in Users : BeginOrganizations(u)
  \/ AdmitUser
  \/ LoseAnswer

Spec == Init /\ [][Next]_vars
=============================================================================
