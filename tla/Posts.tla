------------------------------- MODULE Posts -------------------------------
(***************************************************************************)
(* The posts of a group: lecturers publish them, hide them and set the     *)
(* time for it; a job publishes every minute those whose time has come.    *)
(* Who publishes tells the members, in a later statement.                  *)
(***************************************************************************)
EXTENDS GroupRows

CONSTANT PostIds

VARIABLES
  posts,  \* groups.posts: [group, shown, at], or NoRow
  told    \* ghost: whether the members have been told of a post

postRows == <<posts, told>>

(* publishAt: not set, in the future, or in the past.                      *)
Times == {"never", "later", "passed"}

PostRow == [group : There(groups), shown : BOOLEAN, at : Times]

Due == {p \in PostIds : posts[p] # NoRow /\ ~posts[p].shown /\ posts[p].at = "passed"}

(* notifyPostPublished, and what the caller does then.                     *)
Telling(p, rest) == [group |-> posts[p].group, post |-> p, rest |-> rest]

-----------------------------------------------------------------------------
(* External: the time of a post comes.                                     *)
TimePasses(p) ==
  /\ posts[p] # NoRow /\ posts[p].at = "later"
  /\ posts' = [posts EXCEPT ![p].at = "passed"]
  /\ UNCHANGED <<groups, ranks, members, notices, raced, told, calls>>

(* createPost: without a time the post is a draft.                         *)
CreatePost(r) ==
  \E c \in Callers, g \in Groups, p \in PostIds, at \in Times :
    /\ groups[g] # NoRow /\ OwnsAnywhere(c, groups[g].teacher) /\ Fresh(posts, p)
    /\ IF at = "passed"
       THEN Begin(r, "postTell", [group |-> g, post |-> p, rest |-> {}])
       ELSE AtOnce(r)
    /\ posts' = [posts EXCEPT ![p] =
         [group |-> g, shown |-> at = "passed", at |-> IF at = "passed" THEN "never" ELSE at]]
    /\ told' = [told EXCEPT ![p] = "no"]
    /\ UNCHANGED <<groups, ranks, members, notices, raced>>

(* What updatePost writes: the time decides over isPublished.              *)
Changes == [shown : BOOLEAN \cup {Keep}, at : Times \cup {Keep}]

NewShown(c) == IF c.at \in {"passed", "later"} THEN c.at = "passed" ELSE c.shown
NewTime(c) == IF c.at = "passed" THEN "never" ELSE c.at

(* updatePost reads the post ...                                           *)
UpdatePostRead(r) ==
  \E c \in Callers, p \in PostIds, sent \in Changes :
    /\ posts[p] # NoRow /\ OwnsAnywhere(c, groups[posts[p].group].teacher)
    /\ sent.shown # Keep \/ sent.at # Keep
    /\ Begin(r, "postSave", [group |-> posts[p].group, post |-> p, sent |-> sent,
                             was |-> posts[p].shown])
    /\ UNCHANGED <<groups, ranks, members, notices, raced, postRows>>

(* Mutant: only isPublished is looked at, not the time.                    *)
AnyTime(c) == c.sent.shown = TRUE /\ ~c.was

(* wasPublished and willBePublished.                                       *)
Publishes(c) == ~c.was /\ NewShown(c.sent) = TRUE

(* ... and writes the fields that change, if the post is still there.      *)
UpdatePost(r) ==
  LET p == call[r].post
      sent == call[r].sent
  IN /\ pc[r] = "postSave"
     /\ posts' = IF posts[p] = NoRow \/ posts[p].group # call[r].group THEN posts
                 ELSE [posts EXCEPT ![p].shown = Sent(NewShown(sent), @),
                                    ![p].at = Sent(NewTime(sent), @)]
     /\ IF posts[p] # NoRow /\ posts[p].group = call[r].group /\ Publishes(call[r])
        THEN Goto(r, "postTell", Telling(p, {})) ELSE Done(r)
     /\ UNCHANGED <<groups, ranks, members, notices, raced, told>>

DeletePost(r) ==
  \E c \in Callers, p \in PostIds :
    /\ posts[p] # NoRow /\ OwnsAnywhere(c, groups[posts[p].group].teacher)
    /\ AtOnce(r)
    /\ posts' = [posts EXCEPT ![p] = NoRow]
    /\ UNCHANGED <<groups, ranks, members, notices, raced, told>>

-----------------------------------------------------------------------------
(* handleScheduledPostPublishing finds the posts that are due.             *)
PostJobFind(r) ==
  /\ Due # {}
  /\ Begin(r, "postJob", [rest |-> Due])
  /\ UNCHANGED <<groups, ranks, members, notices, raced, postRows>>

(* The statement matches only a post that is not published yet.            *)
Unpublished(p) == posts[p] # NoRow /\ ~posts[p].shown

(* It publishes one after the other, whatever their time is by now ...     *)
PostJobPublish(r) ==
  /\ pc[r] = "postJob"
  /\ \E p \in call[r].rest :
       LET rest == call[r].rest \ {p} IN
       IF Unpublished(p)
       THEN /\ posts' = [posts EXCEPT ![p] = [@ EXCEPT !.shown = TRUE, !.at = "never"]]
            /\ Goto(r, "postTell", Telling(p, rest))
       ELSE /\ UNCHANGED posts
            /\ IF rest = {} THEN Done(r) ELSE Goto(r, "postJob", [rest |-> rest])
  /\ UNCHANGED <<groups, ranks, members, notices, raced, told>>

(* ... and tells the members of each.                                      *)
Tell(r) ==
  LET c == call[r] IN
  /\ pc[r] = "postTell"
  /\ notices' = Announced(c.group)
  /\ told' = [told EXCEPT ![c.post] = "yes"]
  /\ IF c.rest = {} THEN Done(r) ELSE Goto(r, "postJob", [rest |-> c.rest])
  /\ UNCHANGED <<groups, ranks, members, raced, posts>>

(* The call fails before the members are told, and nobody tells them then. *)
PostFails(r) ==
  told' = IF pc[r] = "postTell" /\ told[call[r].post] = "no"
          THEN [told EXCEPT ![call[r].post] = "missed"] ELSE told

(* getPosts: drafts are for the owner.                                     *)
PostsShown(c, g) ==
  {p \in PostIds : /\ posts[p] # NoRow /\ posts[p].group = g
                   /\ \/ OwnsAnywhere(c, groups[g].teacher)
                      \/ posts[p].shown /\ AccountId(c.user, "student") \in Members(g)}

PostStep(r) ==
  \/ CreatePost(r) \/ UpdatePostRead(r) \/ UpdatePost(r) \/ DeletePost(r)
  \/ PostJobFind(r) \/ PostJobPublish(r) \/ Tell(r)

-----------------------------------------------------------------------------
(* A post that the members can see has been announced to them, is about to *)
(* be, or the call that published it has failed in between: also when two  *)
(* lecturers and the job publish, hide and reschedule it at once, each     *)
(* going by what it has read of the post before.                           *)
PublishedAnnounced ==
  \A p \in PostIds : posts[p] # NoRow /\ posts[p].shown =>
    \/ told[p] \in {"yes", "missed"}
    \/ \E r \in Requests : pc[r] = "postTell" /\ call[r].post = p
=============================================================================
