------------------------------ MODULE Community ------------------------------
(***************************************************************************)
(* internal/domain/community: one community, its members and its           *)
(* announcements, under concurrent requests.  Every statement of the       *)
(* repository commits on its own: a request is a frame that holds what it  *)
(* read, and the checks of the service use those values.                   *)
(***************************************************************************)
EXTENDS Integers, FiniteSets

CONSTANTS Users, Requests, Posts, MaxDbErrors, MaxLikes

VARIABLES comm,    \* the row of communities
          members, \* community_members: user -> role or "none"
          posts,   \* community_announcements: id -> row or NoPost
          req,     \* the frames
          dbErrors
communityVars == <<comm, members, posts, req, dbErrors>>

NoPost == [author |-> "none", pinned |-> FALSE, likes |-> 0]
Idle == [pc |-> "idle", op |-> "none", user |-> "none", target |-> "none",
         post |-> "none", owner |-> "none",
         seen |-> 0, crossed |-> FALSE] \* of the counting statement
Nobody == [live |-> FALSE, slug |-> FALSE, owner |-> "none", count |-> 0,
           birth |-> "new",    \* history: how Create's owner became a member
           crossed |-> FALSE]  \* history: the last count overlapped with another
Count == Cardinality({u \in Users : members[u] # "none"})

CommunityInit ==
    /\ comm = Nobody
    /\ members = [u \in Users |-> "none"]
    /\ posts = [p \in Posts |-> NoPost]
    /\ req = [r \in Requests |-> Idle]
    /\ dbErrors = 0

At(r, op, l) == req[r].op = op /\ req[r].pc = l
Goto(r, l) == req' = [req EXCEPT ![r].pc = l]
Done(r) == req' = [req EXCEPT ![r] = Idle]
DbError == dbErrors < MaxDbErrors /\ dbErrors' = dbErrors + 1
Me(r) == req[r].user

(* A handler parses its request and calls the service. *)
Request(r, op, u, t, p) ==
    /\ req[r].pc = "idle"
    /\ req' = [req EXCEPT ![r] = [Idle EXCEPT !.pc = "start", !.op = op, !.user = u,
                                              !.target = t, !.post = p]]
    /\ UNCHANGED <<comm, members, posts, dbErrors>>

(* FindByID, or the end of the request (not found, or the query fails). *)
FindByID(r, ops, l) ==
    /\ req[r].op \in ops /\ req[r].pc = l
    /\ \/ /\ comm.live
          /\ req' = [req EXCEPT ![r].pc = "found", ![r].owner = comm.owner]
          /\ UNCHANGED dbErrors
       \/ ~comm.live /\ Done(r) /\ UNCHANGED dbErrors
       \/ DbError /\ Done(r)
    /\ UNCHANGED <<comm, members, posts>>

(* Create: the row (the slug is unique, deleted rows included)... *)
Create(r) ==
    /\ At(r, "create", "start")
    /\ \/ /\ ~comm.slug
          /\ comm' = [Nobody EXCEPT !.live = TRUE, !.slug = TRUE, !.owner = Me(r),
                                    !.count = 1]
          /\ Goto(r, "add")
          /\ UNCHANGED dbErrors
       \/ comm.slug /\ Done(r) /\ UNCHANGED <<comm, dbErrors>>
       \/ DbError /\ Done(r) /\ UNCHANGED comm
    /\ UNCHANGED <<members, posts>>

(* ... and when adding the owner fails the row is deleted again, once. *)
CreateUndo(r) ==
    /\ At(r, "create", "undo")
    /\ \/ comm' = [comm EXCEPT !.live = FALSE] /\ UNCHANGED dbErrors
       \/ DbError /\ UNCHANGED comm
    /\ Done(r)
    /\ UNCHANGED <<members, posts>>

(* AddMember's insert; the key is (community, user).  The community need   *)
(* not be live: Join does not look.                                        *)
AddMember(r, role) ==
    /\ \/ /\ members[Me(r)] = "none" /\ comm.slug
          /\ members' = [members EXCEPT ![Me(r)] = role]
          /\ comm' = [comm EXCEPT !.birth =
                        IF @ # "new" THEN @
                        ELSE IF role = "admin" THEN "seated"
                        ELSE IF Me(r) = comm.owner THEN "early" ELSE @]
          /\ Goto(r, "count")
          /\ UNCHANGED dbErrors
       \/ /\ \/ (members[Me(r)] # "none" \/ ~comm.slug) /\ UNCHANGED dbErrors
             \/ DbError
          /\ IF req[r].op = "create" THEN Goto(r, "undo") ELSE Done(r)
          /\ UNCHANGED <<comm, members>>
    /\ UNCHANGED posts

Join(r) == At(r, "join", "start") /\ AddMember(r, "member")
CreateAdd(r) == At(r, "create", "add") /\ AddMember(r, "admin")

(* The second statement of AddMember and RemoveMember: member_count is     *)
(* counted again, by a subselect that sees the members of the statement's  *)
(* snapshot...                                                             *)
CountMembers(r) ==
    LET others == {q \in Requests : q # r /\ req[q].pc = "recount"} IN
    /\ req[r].pc = "count"
    /\ req' = [q \in Requests |->
          IF q = r THEN [req[r] EXCEPT !.pc = "recount", !.seen = Count,
                                       !.crossed = others # {}]
          ELSE IF q \in others THEN [req[q] EXCEPT !.crossed = TRUE] ELSE req[q]]
    /\ UNCHANGED <<comm, members, posts, dbErrors>>

(* ... and is written when the row of the community is free.  AddMember    *)
(* reports a failure, RemoveMember drops it.                               *)
Recount(r) ==
    /\ req[r].pc = "recount"
    /\ \/ /\ comm' = [comm EXCEPT !.count = req[r].seen, !.crossed = req[r].crossed]
          /\ Done(r)
          /\ UNCHANGED dbErrors
       \/ /\ DbError
          /\ IF req[r].op = "create" THEN Goto(r, "undo") ELSE Done(r)
          /\ UNCHANGED comm
    /\ UNCHANGED <<members, posts>>

(* RemoveMember's delete, of a row that may be absent. *)
DeleteMember(r, u) ==
    /\ \/ /\ members' = [members EXCEPT ![u] = "none"]
          /\ Goto(r, "count")
          /\ UNCHANGED dbErrors
       \/ DbError /\ Done(r) /\ UNCHANGED members
    /\ UNCHANGED <<comm, posts>>

(* "owner cannot leave; transfer ownership or delete the community" *)
Leave(r) ==
    /\ At(r, "leave", "found")
    /\ \/ req[r].owner # Me(r) /\ DeleteMember(r, Me(r))
       \/ /\ req[r].owner = Me(r) /\ Done(r)
          /\ UNCHANGED <<comm, members, posts, dbErrors>>

(* The target may be the owner. *)
RemoveMember(r) ==
    /\ At(r, "remove", "found")
    /\ \/ req[r].owner = Me(r) /\ DeleteMember(r, req[r].target)
       \/ /\ req[r].owner # Me(r) /\ Done(r)
          /\ UNCHANGED <<comm, members, posts, dbErrors>>

(* Delete marks the row; members and announcements stay. *)
Delete(r) ==
    /\ At(r, "delete", "found")
    /\ \/ /\ req[r].owner = Me(r)
          /\ comm' = [comm EXCEPT !.live = FALSE]
          /\ UNCHANGED dbErrors
       \/ req[r].owner # Me(r) /\ UNCHANGED <<comm, dbErrors>>
       \/ DbError /\ UNCHANGED comm
    /\ Done(r)
    /\ UNCHANGED <<members, posts>>

(* TransferOwnership, after the owner check: is the new owner a member?    *)
TransferOwnership(r) ==
    /\ At(r, "transfer", "found")
    /\ \/ req[r].owner = Me(r) /\ members[req[r].target] # "none"
          /\ Goto(r, "owner") /\ UNCHANGED dbErrors
       \/ (req[r].owner # Me(r) \/ members[req[r].target] = "none")
          /\ Done(r) /\ UNCHANGED dbErrors
       \/ req[r].owner = Me(r) /\ DbError /\ Done(r)
    /\ UNCHANGED <<comm, members, posts>>

UpdateOwner(r) ==
    /\ At(r, "transfer", "owner")
    /\ \/ /\ comm' = [comm EXCEPT !.owner = req[r].target,
                                 !.birth = IF @ = "new" THEN "early" ELSE @]
          /\ Goto(r, "demote") /\ UNCHANGED dbErrors
       \/ DbError /\ Done(r) /\ UNCHANGED comm
    /\ UNCHANGED <<members, posts>>

(* UpdateMemberRole of the previous owner, when the row is still there. *)
Demote(r) ==
    /\ At(r, "transfer", "demote")
    /\ \/ /\ members' = [members EXCEPT ![Me(r)] =
                           IF @ = "none" THEN @ ELSE "member"]
          /\ UNCHANGED dbErrors
       \/ DbError /\ UNCHANGED members
    /\ Done(r)
    /\ UNCHANGED <<comm, posts>>

(* IsMember, for CreateAnnouncement and LikeAnnouncement.  Liking reads    *)
(* the announcement first.                                                 *)
IsMember(r) ==
    /\ req[r].op \in {"announce", "like"} /\ req[r].pc = "start"
    /\ \/ /\ members[Me(r)] # "none"
          /\ req[r].op = "like" => posts[req[r].post] # NoPost
          /\ Goto(r, "write") /\ UNCHANGED dbErrors
       \/ /\ members[Me(r)] = "none"
             \/ (req[r].op = "like" /\ posts[req[r].post] = NoPost)
          /\ Done(r) /\ UNCHANGED dbErrors
       \/ DbError /\ Done(r)
    /\ UNCHANGED <<comm, members, posts>>

CreateAnnouncement(r) ==
    /\ At(r, "announce", "write")
    /\ \/ /\ posts' = [posts EXCEPT ![req[r].post] = [NoPost EXCEPT !.author = Me(r)]]
          /\ UNCHANGED dbErrors
       \/ DbError /\ UNCHANGED posts
    /\ Done(r)
    /\ UNCHANGED <<comm, members>>

(* One more like, of an announcement that may be gone by now. *)
LikeAnnouncement(r) ==
    /\ At(r, "like", "write")
    /\ \/ /\ posts' = [posts EXCEPT ![req[r].post] =
                         IF @ = NoPost \/ @.likes = MaxLikes THEN @
                         ELSE [@ EXCEPT !.likes = @ + 1]]
          /\ UNCHANGED dbErrors
       \/ DbError /\ UNCHANGED posts
    /\ Done(r)
    /\ UNCHANGED <<comm, members>>

(* GetAnnouncementByID, for DeleteAnnouncement and PinAnnouncement. *)
GetAnnouncementByID(r) ==
    /\ req[r].op \in {"unannounce", "pin"} /\ req[r].pc = "start"
    /\ \/ /\ posts[req[r].post] # NoPost /\ UNCHANGED dbErrors
          /\ Goto(r, IF req[r].op = "unannounce" /\ posts[req[r].post].author = Me(r)
                     THEN "write" ELSE "find")
       \/ posts[req[r].post] = NoPost /\ Done(r) /\ UNCHANGED dbErrors
       \/ DbError /\ Done(r)
    /\ UNCHANGED <<comm, members, posts>>

(* GetMembers: the owner, or a member whose role is admin, may go on. *)
GetMembers(r) ==
    /\ req[r].op \in {"unannounce", "pin"} /\ req[r].pc = "found"
    /\ \/ /\ req[r].owner = Me(r) \/ members[Me(r)] = "admin"
          /\ Goto(r, "write") /\ UNCHANGED dbErrors
       \/ /\ req[r].owner # Me(r) /\ members[Me(r)] # "admin"
          /\ Done(r) /\ UNCHANGED dbErrors
       \/ req[r].owner # Me(r) /\ DbError /\ Done(r)
    /\ UNCHANGED <<comm, members, posts>>

DeleteAnnouncement(r) ==
    /\ At(r, "unannounce", "write")
    /\ \/ posts' = [posts EXCEPT ![req[r].post] = NoPost] /\ UNCHANGED dbErrors
       \/ DbError /\ UNCHANGED posts
    /\ Done(r)
    /\ UNCHANGED <<comm, members>>

PinAnnouncement(r) ==
    /\ At(r, "pin", "write")
    /\ \/ /\ \E pinned \in BOOLEAN :
               posts' = [posts EXCEPT ![req[r].post] =
                           IF @ = NoPost THEN @ ELSE [@ EXCEPT !.pinned = pinned]]
          /\ UNCHANGED dbErrors
       \/ DbError /\ UNCHANGED posts
    /\ Done(r)
    /\ UNCHANGED <<comm, members>>

Ops == {"create", "join", "leave", "remove", "delete", "transfer", "announce",
        "like", "unannounce", "pin"}
Targeted == {"remove", "transfer"}
Posted == {"announce", "like", "unannounce", "pin"}

(* uuid.New: no announcement has the identifier. *)
Unused(p) == posts[p] = NoPost /\ \A r \in Requests : req[r].post # p

CommunityNext ==
    \E r \in Requests :
      \/ \E op \in Ops \ (Targeted \cup Posted), u \in Users :
           Request(r, op, u, "none", "none")
      \/ \E op \in Targeted, u, t \in Users : Request(r, op, u, t, "none")
      \/ \E op \in Posted, u \in Users, p \in Posts :
           /\ op = "announce" => Unused(p)
           /\ Request(r, op, u, "none", p)
      \/ FindByID(r, {"leave", "remove", "delete", "transfer"}, "start")
      \/ FindByID(r, {"unannounce", "pin"}, "find")
      \/ Create(r) \/ CreateAdd(r) \/ CreateUndo(r) \/ Join(r)
      \/ CountMembers(r) \/ Recount(r)
      \/ Leave(r) \/ RemoveMember(r) \/ Delete(r)
      \/ TransferOwnership(r) \/ UpdateOwner(r) \/ Demote(r)
      \/ IsMember(r) \/ CreateAnnouncement(r) \/ LikeAnnouncement(r)
      \/ GetAnnouncementByID(r) \/ GetMembers(r)
      \/ DeleteAnnouncement(r) \/ PinAnnouncement(r)

CommunitySpec == CommunityInit /\ [][CommunityNext]_communityVars

(***************************************************************************)
(* Properties.                                                             *)
(***************************************************************************)
(* The rows have their values; an announcement that is gone has no likes   *)
(* and no pin, although likes and pins may arrive after its deletion.      *)
CommunityTypeOK ==
    /\ comm.owner \in Users \cup {"none"} /\ comm.live \in BOOLEAN
    /\ comm.count \in 0 .. Cardinality(Users)
    /\ \A u \in Users : members[u] \in {"none", "member", "admin"}
    /\ \A p \in Posts : posts[p].author = "none" => posts[p] = NoPost

Resting == \A r \in Requests : req[r].pc \notin {"count", "recount"}

(* member_count is the number of members whenever no request is between    *)
(* the two statements of AddMember or RemoveMember, in whatever order the  *)
(* inserts, deletes and counts of concurrent joins, leaves and removals    *)
(* were executed, unless the last count to be written overlapped with      *)
(* another one: the later write may then carry the older snapshot, and the *)
(* count stays wrong until the next change (as long as no statement        *)
(* failed).                                                                *)
CountIsMembers ==
    (dbErrors = 0 /\ comm.slug /\ Resting /\ ~comm.crossed
       /\ \A r \in Requests : ~At(r, "create", "add"))
      => comm.count = Count

(* The role admin, which Create gives to the owner and with which others'  *)
(* announcements can be pinned and deleted, is only ever held by the owner *)
(* or by one whose TransferOwnership is about to demote them: transfers    *)
(* there and back leave no admin behind (as long as no statement failed,   *)
(* and the owner did not join or transfer before Create had added them).   *)
AdminIsOwner ==
    (dbErrors = 0 /\ comm.birth = "seated") =>
      \A u \in Users : members[u] = "admin" =>
        \/ comm.owner = u
        \/ \E r \in Requests : Me(r) = u /\ At(r, "transfer", "demote")

(* A failed Create leaves no live community behind: with one failing       *)
(* statement, a live community that nobody is creating has had its creator *)
(* as a member.                                                            *)
CreateAllOrNothing ==
    (dbErrors <= 1 /\ comm.live
       /\ \A r \in Requests : req[r].op = "create" => req[r].pc = "start")
      => comm.birth # "new"
=============================================================================
