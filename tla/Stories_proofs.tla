--------------------------- MODULE Stories_proofs ---------------------------
(***************************************************************************)
(* Theorems about Stories, for any number of viewers, contacts, requests   *)
(* and faults. The inductive invariant adds what each request knows of the *)
(* viewers and of the story when it writes.                                *)
(***************************************************************************)
EXTENDS Stories, TLAPS

-----------------------------------------------------------------------------
Viewing == ViewSteps \cup ReactSteps \cup {"notify", "presence", "push"}

(* What a request knows, and what still holds of it.                       *)
Knows(k) ==
  /\ k.at \in AddSteps \cup RemoveSteps \cup Viewing =>
       k.viewer \in Viewers
  /\ k.at \in Viewing => k.viewer \in users
  /\ k.at \in {"mark", "viewed", "react"} => k.viewer \in ever
  /\ k.at \in {"notify", "presence", "push"} => k.viewer \in views
  /\ k.at = "insert" /\ k.user => k.viewer \in users
  /\ k.at = "delete" => story.state # "none"
  /\ k.at = "create" => story.state = "none" /\ k.rest = wish.list
  /\ k.at = "except" =>
       /\ story.state # "none" /\ k.rest \subseteq wish.list
       /\ wish.privacy = "contacts_except" =>
            wish.list \ k.rest \subseteq story.hidden

(* One request at a time creates the story.                                *)
OneCreates == \A s, t \in Tasks :
  s # t /\ task[s].at \in CreateSteps => task[t].at \notin CreateSteps

(* What is in the rows of the story of what was asked for.                 *)
Published ==
  /\ story.state = "none" => story = NoStory /\ ~answered /\ shown = {}
  /\ story.state # "none" => story.privacy = wish.privacy
  /\ wish.privacy = "selected" => story.chosen \subseteq wish.list
  /\ wish.privacy = "contacts_except" /\ answered =>
       wish.list \subseteq story.hidden

(* The inductive invariant.                                                *)
StoriesInv ==
  /\ TypeOK
  /\ \A t \in Tasks : Knows(task[t])
  /\ OneCreates
  /\ Published
  /\ Audience \subseteq ever
  /\ ViewersWereAllowed
  /\ WishHolds

-----------------------------------------------------------------------------
LEMMA StoriesUnpacked ==
  ASSUME StoriesInv
  PROVE  /\ TypeOK /\ OneCreates /\ Published /\ Audience \subseteq ever
         /\ ViewersWereAllowed /\ WishHolds
         /\ MaxContacts \in Nat /\ MaxRequests \in Nat /\ MaxFaults \in Nat
         /\ task \in [Tasks -> Task]
         /\ \A t \in Tasks : Knows(task[t]) /\ task[t] \in Task
BY BoundsAreNaturals DEF StoriesInv, TypeOK

LEMMA IdleKnows ==
  /\ IdleTask \in Task /\ IdleTask.at = "idle"
  /\ Knows(IdleTask) /\ IdleTask.at \notin CreateSteps
<1>1. IdleTask \in Task
  BY BoundsAreNaturals DEF IdleTask, Handler, Task
<1>2. IdleTask.at = "idle"
  BY DEF IdleTask, Handler
<1> QED
  BY <1>1, <1>2 DEF Knows, AddSteps, RemoveSteps, Viewing, ViewSteps,
     ReactSteps, CreateSteps

(* What holds of a request goes on to hold while users, viewers and        *)
(* exceptions are only added.                                              *)
LEMMA KnowsStill ==
  ASSUME NEW t \in Tasks, Knows(task'[t]),
         users \subseteq users', ever \subseteq ever', views \subseteq views',
         UNCHANGED wish, story'.state = "none" <=> story.state = "none",
         story.hidden \subseteq story'.hidden
  PROVE  Knows(task[t])'
BY DEF Knows

(* The same for a step that neither creates the story nor anything of it.  *)
LEMMA StoryKept ==
  ASSUME StoriesInv, task' \in [Tasks -> Task],
         \A s \in Tasks : Knows(task'[s]),
         \A s \in Tasks : task'[s].at \in CreateSteps => task'[s] = task[s],
         UNCHANGED <<users, contact, rows, story, views, reacted, notified,
                     pushed, wish, answered, shown, late>>,
         ever' = ever \cup Audience',
         requests' \in 0..MaxRequests, faults' \in 0..MaxFaults
  PROVE  StoriesInv'
<1>1. Audience' = Audience
  BY DEF Audience, IsContact
<1>2. ever' = ever
  BY <1>1, StoriesUnpacked
<1>3. TypeOK'
  BY <1>2, StoriesUnpacked DEF TypeOK
<1>4. \A s \in Tasks : Knows(task[s])'
  BY <1>2, KnowsStill
<1>5. OneCreates'
  BY StoriesUnpacked DEF OneCreates
<1>6. Published' /\ ViewersWereAllowed' /\ WishHolds'
  BY <1>2, StoriesUnpacked DEF Published, ViewersWereAllowed, WishHolds
<1> QED
  BY <1>1, <1>2, <1>3, <1>4, <1>5, <1>6 DEF StoriesInv

(* One request moves on, and nothing else happens.                         *)
LEMMA OneMoves ==
  ASSUME StoriesInv, NEW t \in Tasks, NEW k \in Task,
         task' = [task EXCEPT ![t] = k], Knows(k), k.at \notin CreateSteps,
         UNCHANGED <<users, contact, rows, story, views, reacted, notified,
                     pushed, wish, answered, shown, late>>,
         ever' = ever \cup Audience',
         requests' \in 0..MaxRequests, faults' \in 0..MaxFaults
  PROVE  StoriesInv'
<1>1. /\ task' \in [Tasks -> Task] /\ task'[t] = k
      /\ \A s \in Tasks : s # t => task'[s] = task[s]
  BY StoriesUnpacked
<1> QED
  BY <1>1, StoriesUnpacked, StoryKept

StNames == AddSteps \cup RemoveSteps \cup CreateSteps
             \cup DeleteSteps \cup Viewing

LEMMA GoesTo ==
  ASSUME NEW k \in Task, NEW step \in StNames, NEW n,
         n = [k EXCEPT !.at = step]
  PROVE  /\ n \in Task /\ n.at = step /\ n.viewer = k.viewer
         /\ n.rest = k.rest /\ n.row = k.row /\ n.user = k.user
         /\ n.what = k.what
BY DEF Task, StNames, Viewing

LEMMA StoryReturn ==
  ASSUME StoriesInv, NEW t \in Tasks, Return(t),
         UNCHANGED <<users, contact, rows, story, views, reacted, notified,
                     pushed, wish, answered, shown, late>>,
         ever' = ever \cup Audience',
         requests' \in 0..MaxRequests, faults' \in 0..MaxFaults
  PROVE  StoriesInv'
BY IdleKnows, OneMoves, StoriesUnpacked DEF Return

(* A check of a handler.                                                   *)
LEMMA StoryCheck ==
  ASSUME StoriesInv, NEW t \in Tasks, NEW good, NEW step \in StNames,
         Check(t, good, step),
         NEW n, n = [task[t] EXCEPT !.at = step],
         good => Knows(n), step \notin CreateSteps,
         UNCHANGED <<users, contact, rows, story, views, reacted, notified,
                     pushed, wish, answered, shown, late, requests, faults>>,
         ever' = ever \cup Audience'
  PROVE  StoriesInv'
<1>1. requests' \in 0..MaxRequests /\ faults' \in 0..MaxFaults
  BY StoriesUnpacked DEF TypeOK
<1>2. CASE Return(t)
  BY <1>1, <1>2, StoryReturn
<1>3. CASE good /\ Goto(t, step)
  <2>1. n \in Task /\ n.at = step
    BY StoriesUnpacked, GoesTo
  <2>2. task' = [task EXCEPT ![t] = n]
    BY <1>3, StoriesUnpacked DEF Goto
  <2> QED
    BY <1>1, <1>3, <2>1, <2>2, OneMoves
<1> QED
  BY <1>2, <1>3 DEF Check

StStill ==
  UNCHANGED <<users, contact, rows, story, views, reacted, notified, pushed,
              wish, answered, shown, late, requests, faults>>

LEMMA StoryChecks ==
  ASSUME StoriesInv, NEW t \in Tasks, ever' = ever \cup Audience',
         \/ FindExisting(t) \/ FindStory(t) \/ Find(t)
         \/ can_user_view_story(t) \/ has_viewed(t)
  PROVE  StoriesInv'
<1> DEFINE k == task[t]
           n(step) == [k EXCEPT !.at = step]
<1>1. k \in Task /\ Knows(k)
  BY StoriesUnpacked
<1>2. ASSUME NEW step \in StNames
      PROVE  /\ n(step) \in Task /\ n(step).at = step
             /\ n(step).viewer = k.viewer /\ n(step).user = k.user
  BY <1>1, GoesTo
<1> USE DEF StNames, AddSteps, RemoveSteps, CreateSteps,
            DeleteSteps, Viewing, ViewSteps, ReactSteps
<1> HIDE DEF n
<1>3. ASSUME NEW step \in {"lookup", "delete", "may", "mayReact", "mark",
                           "viewed", "react"},
             NEW good, Check(t, good, step), StStill, good => Knows(n(step))
      PROVE  StoriesInv'
  BY <1>3, StoryCheck DEF StStill, n
<1> USE DEF StStill, contacts, viewing, history, bounds
<1>4. CASE FindExisting(t)
  <2>1. /\ k.at = "existing" /\ StStill
        /\ Check(t, contact[k.viewer].id = 0, "lookup")
    BY <1>4 DEF FindExisting
  <2>2. Knows(n("lookup"))
    BY <1>1, <1>2, <2>1 DEF Knows
  <2> QED
    BY <1>3, <2>1, <2>2
<1>5. CASE FindStory(t)
  <2>1. /\ k.at = "findStory" /\ StStill
        /\ Check(t, story.state = "live", "delete")
    BY <1>5 DEF FindStory
  <2>2. story.state = "live" => Knows(n("delete"))
    BY <1>1, <1>2, <2>1 DEF Knows
  <2> QED
    BY <1>3, <2>1, <2>2
<1>6. CASE Find(t)
  <2>1. StStill
    BY <1>6 DEF Find
  <2>2. CASE k.at = "find" /\ Check(t, story.state = "live", "may")
    <3>1. Knows(n("may"))
      BY <1>1, <1>2, <2>2 DEF Knows
    <3> QED
      BY <1>3, <2>1, <2>2, <3>1
  <2>3. CASE k.at = "findToReact"
        /\ Check(t, story.state = "live", "mayReact")
    <3>1. Knows(n("mayReact"))
      BY <1>1, <1>2, <2>3 DEF Knows
    <3> QED
      BY <1>3, <2>1, <2>3, <3>1
  <2> QED
    BY <1>6, <2>2, <2>3 DEF Find
<1>7. CASE can_user_view_story(t)
  <2>1. StStill
    BY <1>7 DEF can_user_view_story
  <2>2. CASE k.at = "may" /\ Check(t, k.viewer \in Audience, "mark")
    <3>1. k.viewer \in Audience => Knows(n("mark"))
      BY <1>1, <1>2, <2>2, StoriesUnpacked DEF Knows
    <3> QED
      BY <1>3, <2>1, <2>2, <3>1
  <2>3. CASE k.at = "mayReact"
        /\ Check(t, k.viewer \in Audience, "viewed")
    <3>1. k.viewer \in Audience => Knows(n("viewed"))
      BY <1>1, <1>2, <2>3, StoriesUnpacked DEF Knows
    <3> QED
      BY <1>3, <2>1, <2>3, <3>1
  <2> QED
    BY <1>7, <2>2, <2>3 DEF can_user_view_story
<1>8. CASE has_viewed(t)
  <2>1. /\ k.at = "viewed" /\ StStill
        /\ Check(t, k.viewer \in views, "react")
    BY <1>8 DEF has_viewed
  <2>2. Knows(n("react"))
    BY <1>1, <1>2, <2>1 DEF Knows
  <2> QED
    BY <1>3, <2>1, <2>2
<1> QED
  BY <1>4, <1>5, <1>6, <1>7, <1>8

LEMMA StoryLooks ==
  ASSUME StoriesInv, NEW t \in Tasks, ever' = ever \cup Audience',
         \/ find_id_by_phone(t) \/ FindContact(t) \/ CheckPresence(t)
         \/ QueryFails(t)
  PROVE  StoriesInv'
<1> DEFINE k == task[t]
<1> USE DEF contacts, viewing, history, bounds
<1>1. /\ k \in Task /\ Knows(k)
      /\ requests \in 0..MaxRequests /\ faults \in 0..MaxFaults
      /\ MaxFaults \in Nat
  BY StoriesUnpacked DEF TypeOK
<1>2. CASE find_id_by_phone(t)
  <2> DEFINE n == [k EXCEPT !.at = "insert", !.user = k.viewer \in users]
  <2>1. k.at = "lookup" /\ task' = [task EXCEPT ![t] = n]
    BY <1>2, StoriesUnpacked DEF find_id_by_phone
  <2>2. /\ n \in Task /\ n.at = "insert" /\ n.viewer = k.viewer
        /\ n.user => k.viewer \in users
    <3>1. ASSUME NEW b \in BOOLEAN, NEW m,
                 m = [k EXCEPT !.at = "insert", !.user = b]
          PROVE  /\ m \in Task /\ m.at = "insert" /\ m.viewer = k.viewer
                 /\ m.user = b
      BY <1>1, <3>1 DEF Task, AddSteps
    <3>2. CASE k.viewer \in users
      <4>1. n = [k EXCEPT !.at = "insert", !.user = TRUE]
        BY <3>2
      <4> HIDE DEF n
      <4>2. n \in Task /\ n.at = "insert" /\ n.viewer = k.viewer
        BY <3>1, <4>1
      <4> QED
        BY <3>2, <4>2
    <3>3. CASE k.viewer \notin users
      <4>1. n = [k EXCEPT !.at = "insert", !.user = FALSE]
        <5>1. (k.viewer \in users) = FALSE
          BY <3>3
        <5> QED
          BY <5>1, Zenon
      <4> HIDE DEF n
      <4> QED
        BY <3>1, <3>3, <4>1
    <3> QED
      BY <3>2, <3>3
  <2> HIDE DEF n
  <2>3. Knows(n) /\ n.at \notin CreateSteps
    BY <1>1, <2>1, <2>2 DEF Knows, Viewing, AddSteps, RemoveSteps,
       ViewSteps, ReactSteps, CreateSteps
  <2> QED
    BY <1>1, <1>2, <2>1, <2>2, <2>3, OneMoves DEF find_id_by_phone
<1>3. CASE FindContact(t)
  <2> DEFINE n == [k EXCEPT !.at = "remove", !.row = contact[k.viewer].id]
  <2>1. k.at = "findContact" /\ task' = [task EXCEPT ![t] = n]
    BY <1>3, StoriesUnpacked DEF FindContact
  <2>2. k.viewer \in Viewers /\ contact[k.viewer].id \in 0..MaxContacts
    <3>1. k.viewer \in Viewers
      BY <1>1, <2>1 DEF Knows, RemoveSteps
    <3> QED
      BY <3>1, StoriesUnpacked DEF TypeOK, Contact
  <2>3. n \in Task /\ n.at = "remove" /\ n.viewer = k.viewer
    BY <1>1, <2>2 DEF Task, RemoveSteps
  <2> HIDE DEF n
  <2>4. Knows(n) /\ n.at \notin CreateSteps
    BY <2>2, <2>3 DEF Knows, Viewing, AddSteps, RemoveSteps,
       ViewSteps, ReactSteps, CreateSteps
  <2> QED
    BY <1>1, <1>3, <2>1, <2>3, <2>4, OneMoves DEF FindContact
<1>4. CASE CheckPresence(t)
  <2>1. CASE Return(t)
    BY <1>1, <1>4, <2>1, StoryReturn DEF CheckPresence
  <2>2. CASE Goto(t, "push")
    <3> DEFINE n == [k EXCEPT !.at = "push"]
    <3>1. /\ n \in Task /\ n.at = "push" /\ n.viewer = k.viewer
          /\ k.at = "presence" /\ task' = [task EXCEPT ![t] = n]
      BY <1>1, <1>4, <2>2, GoesTo, StoriesUnpacked
      DEF CheckPresence, Goto, StNames, Viewing
    <3> HIDE DEF n
    <3>2. Knows(n) /\ n.at \notin CreateSteps
      BY <1>1, <3>1 DEF Knows, Viewing, AddSteps, RemoveSteps,
         ViewSteps, ReactSteps, CreateSteps
    <3> QED
      BY <1>1, <1>4, <3>1, <3>2, OneMoves DEF CheckPresence
  <2> QED
    BY <1>4, <2>1, <2>2 DEF CheckPresence
<1>5. CASE QueryFails(t)
  BY <1>1, <1>5, StoryReturn DEF QueryFails, Fault
<1> QED
  BY <1>2, <1>3, <1>4, <1>5

(* Each action keeps the invariant.                                        *)
LEMMA StoryRequest ==
  ASSUME StoriesInv, NEW t \in Tasks, ever' = ever \cup Audience',
         Request(t)
  PROVE  StoriesInv'
<1> USE DEF contacts, viewing, history, bounds
<1>1. /\ requests \in 0..MaxRequests /\ faults \in 0..MaxFaults
      /\ MaxRequests \in Nat
  BY StoriesUnpacked DEF TypeOK
<1>2. ASSUME NEW at \in {"findStory", "existing", "findContact", "find",
                        "findToReact"},
             NEW v \in Viewers \cup {NoViewer},
             at # "findStory" => v \in Viewers,
             at \in {"find", "findToReact"} => v \in users,
             Spawn(t, Handler(at, v)), UNCHANGED history
      PROVE  StoriesInv'
  <2> DEFINE k == Handler(at, v)
  <2>1. k \in Task /\ k.at = at /\ k.viewer = v
    BY StoriesUnpacked
    DEF Handler, Task, AddSteps, RemoveSteps, DeleteSteps,
        ViewSteps, ReactSteps
  <2> HIDE DEF k
  <2>2. Knows(k) /\ k.at \notin CreateSteps
    BY <1>2, <2>1 DEF Knows, Viewing, AddSteps, RemoveSteps,
       ViewSteps, ReactSteps, CreateSteps
  <2>3. /\ task' = [task EXCEPT ![t] = k]
        /\ UNCHANGED <<users, contact, rows, story, views, reacted, notified,
                       pushed, wish, answered, shown, late>>
        /\ requests' = requests + 1 /\ requests < MaxRequests
        /\ faults' = faults
    BY <1>2 DEF Spawn, k
  <2>4. requests' \in 0..MaxRequests /\ faults' \in 0..MaxFaults
    BY <1>1, <2>3
  <2> QED
    BY <2>1, <2>2, <2>3, <2>4, OneMoves
<1>3. CASE create_story(t)
  <2>1. PICK privacy \in Privacies, list \in SUBSET Viewers :
          /\ story.state = "none" /\ \A s \in Tasks : task[s].at # "create"
          /\ Spawn(t, [Handler("create", NoViewer) EXCEPT !.rest = list])
          /\ wish' = [privacy |-> privacy, list |-> list]
          /\ UNCHANGED <<answered, shown, late>>
    BY <1>3 DEF create_story
  <2> DEFINE k == [Handler("create", NoViewer) EXCEPT !.rest = list]
  <2>2. k \in Task /\ k.at = "create" /\ k.rest = list
    <3> DEFINE h == Handler("create", NoViewer)
    <3>1. h \in Task /\ h.at = "create"
      BY StoriesUnpacked DEF Handler, Task, CreateSteps
    <3>2. k = [h EXCEPT !.rest = list]
      OBVIOUS
    <3> HIDE DEF h, k
    <3> QED
      BY <3>1, <3>2 DEF Task
  <2>3. task' = [task EXCEPT ![t] = k]
    BY <2>1 DEF Spawn
  <2> HIDE DEF k
  <2>4. /\ task' \in [Tasks -> Task] /\ task'[t] = k
        /\ \A s \in Tasks : s # t => task'[s] = task[s]
    BY <2>2, <2>3, StoriesUnpacked
  <2>5. /\ wish'.privacy \in Privacies /\ wish'.list = list
        /\ wish' \in [privacy : Privacies, list : SUBSET Viewers]
    BY <2>1
  <2>6. /\ UNCHANGED <<users, contact, rows, story, views, reacted, notified,
                       pushed, answered, shown, late, faults>>
        /\ requests' = requests + 1 /\ requests < MaxRequests
    BY <2>1 DEF Spawn
  <2>7. Audience' = Audience /\ ever' = ever
    BY <2>6, StoriesUnpacked DEF Audience, IsContact
  <2>8. TypeOK'
    BY <1>1, <2>4, <2>5, <2>6, <2>7, StoriesUnpacked DEF TypeOK
  <2>9. \A s \in Tasks : s # t => task[s].at \notin CreateSteps
    BY <2>1, StoriesUnpacked DEF Knows, CreateSteps
  <2>10. \A s \in Tasks : Knows(task[s])'
    <3> SUFFICES ASSUME NEW s \in Tasks PROVE Knows(task[s])'
      OBVIOUS
    <3>1. CASE s = t
      BY <2>1, <2>2, <2>4, <2>5, <2>6, <3>1
      DEF Knows, Viewing, AddSteps, RemoveSteps, ViewSteps,
          ReactSteps
    <3>2. CASE s # t
      <4>1. Knows(task'[s]) /\ task'[s].at \notin {"create", "except"}
        BY <2>4, <2>9, <3>2, StoriesUnpacked DEF CreateSteps
      <4> QED
        BY <2>6, <2>7, <4>1 DEF Knows
    <3> QED
      BY <3>1, <3>2
  <2>11. OneCreates'
    BY <2>4, <2>9 DEF OneCreates
  <2>12. Published' /\ WishHolds'
    <3>1. story = NoStory /\ ~answered /\ shown = {} /\ late \subseteq shown
      BY <2>1, StoriesUnpacked DEF Published, TypeOK
    <3>2. story.chosen = {} /\ story.state = "none"
      BY <2>1, <3>1 DEF NoStory
    <3> QED
      BY <2>6, <3>1, <3>2 DEF Published, WishHolds
  <2>13. ViewersWereAllowed'
    BY <2>6, <2>7, StoriesUnpacked DEF ViewersWereAllowed
  <2> QED
    BY <2>7, <2>8, <2>10, <2>11, <2>12, <2>13, StoriesUnpacked DEF StoriesInv
<1>4. NoViewer \in Viewers \cup {NoViewer}
  OBVIOUS
<1> QED
  BY <1>2, <1>3, <1>4 DEF Request

(* A step that ends the request t, or all but ends it.                     *)
StEnds(t) ==
  /\ Return(t)
  /\ requests' \in 0..MaxRequests /\ faults' \in 0..MaxFaults

LEMMA StoryEnded ==
  ASSUME StoriesInv, NEW t \in Tasks, StEnds(t)
  PROVE  /\ task' \in [Tasks -> Task] /\ task'[t] = IdleTask
         /\ \A s \in Tasks : s # t => task'[s] = task[s]
         /\ \A s \in Tasks : Knows(task'[s])
         /\ OneCreates'
<1>1. /\ task' \in [Tasks -> Task] /\ task'[t] = IdleTask
      /\ \A s \in Tasks : s # t => task'[s] = task[s]
  BY StoriesUnpacked, IdleKnows DEF StEnds, Return
<1>2. \A s \in Tasks : Knows(task'[s])
  BY <1>1, StoriesUnpacked, IdleKnows
<1>3. OneCreates'
  BY <1>1, StoriesUnpacked, IdleKnows DEF OneCreates
<1> QED
  BY <1>1, <1>2, <1>3

(* A step of the contacts, of new users, or of the end of the story: who   *)
(* may see the story changes, what was asked for does not.                 *)
LEMMA AudienceMoves ==
  ASSUME StoriesInv, task' \in [Tasks -> Task],
         \A s \in Tasks : Knows(task'[s]), OneCreates',
         UNCHANGED <<views, reacted, notified, pushed, wish, answered, shown,
                     late>>,
         users \subseteq users', users' \subseteq Viewers,
         contact' \in [Viewers -> Contact], rows' \in 0..MaxContacts,
         \A v \in Viewers : contact'[v].user => v \in users',
         \/ story' = story
         \/ story.state # "none" /\ story' = [story EXCEPT !.state = "gone"],
         ever' = ever \cup Audience',
         requests' \in 0..MaxRequests, faults' \in 0..MaxFaults
  PROVE  StoriesInv'
<1>1. Audience' \subseteq users'
  BY DEF Audience
<1>2. /\ story' \in Story /\ story \in Story
      /\ story'.state = "none" <=> story.state = "none"
      /\ story'.privacy = story.privacy /\ story'.hidden = story.hidden
      /\ story'.chosen = story.chosen
      /\ story.state = "none" => story' = story
  BY StoriesUnpacked DEF TypeOK, Story
<1>3. TypeOK'
  BY <1>1, <1>2, StoriesUnpacked DEF TypeOK
<1>4. \A s \in Tasks : Knows(task[s])'
  BY <1>2, KnowsStill
<1>5. Published'
  BY <1>2, StoriesUnpacked DEF Published
<1>6. ViewersWereAllowed' /\ WishHolds'
  BY StoriesUnpacked DEF ViewersWereAllowed, WishHolds
<1> QED
  BY <1>3, <1>4, <1>5, <1>6, StoriesUnpacked DEF StoriesInv

(* The last writes: of a contact, and of the end of the story.             *)
LEMMA StoryWrites ==
  ASSUME StoriesInv, NEW t \in Tasks, ever' = ever \cup Audience',
         LastWrite(t), StEnds(t)
  PROVE  StoriesInv'
<1> DEFINE k == task[t]
<1> USE DEF contacts, viewing, history, bounds
<1>1. /\ k \in Task /\ Knows(k)
      /\ contact \in [Viewers -> Contact] /\ users \subseteq Viewers
      /\ rows \in 0..MaxContacts /\ MaxContacts \in Nat
      /\ \A v \in Viewers : contact[v].user => v \in users
  BY StoriesUnpacked DEF TypeOK
<1>2. ASSUME create_contact(t) \/ delete_contact(t)
      PROVE  /\ contact' \in [Viewers -> Contact]
             /\ rows' \in 0..MaxContacts
             /\ \A v \in Viewers : contact'[v].user => v \in users
             /\ UNCHANGED <<users, views, reacted, notified, pushed, wish,
                            answered, shown, late, story>>
  <2>1. CASE create_contact(t)
    <3>1. k.at = "insert" /\ rows < MaxContacts
      BY <2>1 DEF create_contact
    <3>2. k.viewer \in Viewers /\ (k.user => k.viewer \in users)
      BY <1>1, <3>1 DEF Knows, AddSteps
    <3>3. CASE UNCHANGED <<contact, rows>>
      BY <1>1, <2>1, <3>3 DEF create_contact
    <3>4. CASE /\ rows' = rows + 1
               /\ contact' = [contact EXCEPT
                    ![k.viewer] = [id |-> rows + 1, user |-> k.user]]
      <4>1. k.user \in BOOLEAN /\ rows + 1 \in 0..MaxContacts
        BY <1>1, <3>1 DEF Task
      <4>2. /\ [id |-> rows + 1, user |-> k.user] \in Contact
            /\ [id |-> rows + 1, user |-> k.user].user = k.user
        BY <4>1 DEF Contact
      <4> QED
        BY <1>1, <2>1, <3>2, <3>4, <4>1, <4>2 DEF create_contact
    <3> QED
      BY <2>1, <3>3, <3>4 DEF create_contact
  <2>2. CASE delete_contact(t)
    <3>1. NoContact \in Contact /\ ~NoContact.user
      BY <1>1 DEF NoContact, Contact
    <3>2. contact' = [v \in Viewers |-> IF contact[v].id = k.row
                        THEN NoContact ELSE contact[v]]
      BY <2>2 DEF delete_contact
    <3> QED
      BY <1>1, <2>2, <3>1, <3>2 DEF delete_contact
  <2> QED
    BY <1>2, <2>1, <2>2
<1>3. CASE create_contact(t) \/ delete_contact(t)
  BY <1>1, <1>2, <1>3, StoryEnded, AudienceMoves DEF StEnds
<1>4. CASE delete_story(t)
  <2>1. story.state # "none"
    BY <1>1, <1>4 DEF delete_story, Knows
  <2> QED
    BY <1>1, <1>4, <2>1, StoryEnded, AudienceMoves DEF StEnds, delete_story
<1> QED
  BY <1>3, <1>4 DEF LastWrite

LEMMA StoryOutside ==
  ASSUME StoriesInv, ever' = ever \cup Audience',
         \/ StoryExpires
         \/ \E v \in Viewers : Register(v) \/ list_stories(v)
  PROVE  StoriesInv'
<1> USE DEF contacts, viewing, history, bounds
<1>1. /\ task \in [Tasks -> Task] /\ \A t \in Tasks : Knows(task[t])
      /\ contact \in [Viewers -> Contact] /\ users \subseteq Viewers
      /\ rows \in 0..MaxContacts
      /\ \A u \in Viewers : contact[u].user => u \in users
      /\ requests \in 0..MaxRequests /\ faults \in 0..MaxFaults
  BY StoriesUnpacked DEF TypeOK
<1>2. task' = task => OneCreates'
  BY StoriesUnpacked DEF OneCreates
<1>3. ASSUME NEW v \in Viewers, Register(v)
      PROVE  StoriesInv'
  <2>1. UNCHANGED <<contact, rows, story, views, reacted, notified, pushed,
                    task, wish, answered, shown, late, requests, faults>>
        /\ users' = users \cup {v}
    BY <1>3 DEF Register
  <2> QED
    BY <1>1, <1>2, <2>1, AudienceMoves
<1>4. CASE StoryExpires
  <2>1. UNCHANGED <<users, contact, rows, views, reacted, notified, pushed,
                    task, wish, answered, shown, late, requests, faults>>
        /\ story' = [story EXCEPT !.state = "gone"] /\ story.state # "none"
    BY <1>4 DEF StoryExpires
  <2> QED
    BY <1>1, <1>2, <2>1, AudienceMoves
<1>5. ASSUME NEW v \in Viewers, list_stories(v)
      PROVE  StoriesInv'
  <2>1. /\ UNCHANGED <<users, contact, rows, story, views, reacted, notified,
                       pushed, task, wish, answered, requests, faults>>
        /\ v \in Audience
        /\ shown' = shown \cup {v}
        /\ late' = IF answered THEN late \cup {v} ELSE late
    BY <1>5 DEF list_stories
  <2>2. Audience' = Audience /\ ever' = ever
    BY <2>1, StoriesUnpacked DEF Audience, IsContact
  <2>3. v \in users /\ story.state = "live"
    BY <2>1 DEF Audience
  <2>4. TypeOK'
    BY <2>1, <2>2, <2>3, StoriesUnpacked DEF TypeOK
  <2>5. \A t \in Tasks : Knows(task[t])'
    BY <1>1, <2>1, <2>2, KnowsStill
  <2>6. OneCreates'
    BY <1>2, <2>1
  <2>7. Published'
    BY <2>1, <2>3, StoriesUnpacked DEF Published
  <2>8. WishHolds'
    <3>1. story.privacy = wish.privacy
      BY <2>3, StoriesUnpacked DEF Published
    <3>2. wish.privacy = "selected" => v \in wish.list
      BY <2>1, <3>1, StoriesUnpacked DEF Published, Audience
    <3>3. wish.privacy = "contacts_except" /\ answered => v \notin wish.list
      BY <2>1, <3>1, StoriesUnpacked DEF Published, Audience
    <3>4. wish.privacy # "only_me"
      BY <2>1, <3>1 DEF Audience
    <3> QED
      BY <2>1, <3>2, <3>3, <3>4, StoriesUnpacked DEF WishHolds
  <2>9. ViewersWereAllowed'
    BY <2>1, <2>2, StoriesUnpacked DEF ViewersWereAllowed
  <2> QED
    BY <2>2, <2>4, <2>5, <2>6, <2>7, <2>8, <2>9, StoriesUnpacked DEF StoriesInv
<1> QED
  BY <1>3, <1>4, <1>5

(* A step of who has viewed, of a viewer who was allowed to.               *)
LEMMA ViewingMoves ==
  ASSUME StoriesInv, task' \in [Tasks -> Task],
         \A s \in Tasks : Knows(task[s])',
         \A s \in Tasks : task'[s].at \in CreateSteps => task'[s] = task[s],
         UNCHANGED <<users, contact, rows, story, wish, answered, shown,
                     late>>,
         NEW v \in users, v \in ever,
         views' \in {views, views \cup {v}},
         reacted' \subseteq views', views \subseteq views',
         notified' \cup pushed' \subseteq
           views' \X {"story_view", "story_reaction"},
         ever' = ever \cup Audience',
         requests' \in 0..MaxRequests, faults' \in 0..MaxFaults
  PROVE  StoriesInv'
<1>1. Audience' = Audience
  BY DEF Audience, IsContact
<1>2. ever' = ever
  BY <1>1, StoriesUnpacked
<1>3. TypeOK'
  BY <1>2, StoriesUnpacked DEF TypeOK
<1>4. OneCreates'
  BY StoriesUnpacked DEF OneCreates
<1>5. Published' /\ ViewersWereAllowed' /\ WishHolds'
  BY <1>2, StoriesUnpacked DEF Published, ViewersWereAllowed, WishHolds
<1> QED
  BY <1>1, <1>2, <1>3, <1>4, <1>5 DEF StoriesInv

(* What the author is told.                                                *)
LEMMA StoryTells ==
  ASSUME StoriesInv, NEW t \in Tasks, ever' = ever \cup Audience',
         create_notification(t) \/ enqueue_push(t)
  PROVE  StoriesInv'
<1> DEFINE k == task[t]
           pair == <<k.viewer, k.what>>
<1> USE DEF contacts, viewing, history, bounds
<1>1. /\ k \in Task /\ Knows(k) /\ k.at \in {"notify", "push"}
      /\ requests \in 0..MaxRequests /\ faults \in 0..MaxFaults
      /\ MaxFaults \in Nat
      /\ views \subseteq users /\ views \subseteq ever
      /\ reacted \subseteq views
      /\ notified \cup pushed \subseteq views \X {"story_view", "story_reaction"}
  BY StoriesUnpacked
  DEF TypeOK, ViewersWereAllowed, create_notification, enqueue_push
<1>2. k.viewer \in views /\ k.what \in {"story_view", "story_reaction"}
  BY <1>1 DEF Knows, Task
<1>3. pair \in views \X {"story_view", "story_reaction"}
  BY <1>2
<1> HIDE DEF pair
<1>4. CASE create_notification(t)
  <2> DEFINE n == [k EXCEPT !.at = "presence"]
  <2>1. /\ k.at = "notify" /\ task' = [task EXCEPT ![t] = n]
        /\ UNCHANGED <<users, contact, rows, story, views, reacted, pushed,
                       wish, answered, shown, late>>
        /\ notified' \in {notified, notified \cup {pair}}
        /\ requests' \in 0..MaxRequests /\ faults' \in 0..MaxFaults
    BY <1>1, <1>4, StoriesUnpacked DEF create_notification, Goto, pair
  <2>2. n \in Task /\ n.at = "presence" /\ n.viewer = k.viewer
    BY <1>1, GoesTo DEF StNames, Viewing
  <2> HIDE DEF n
  <2>3. Knows(n) /\ n.at \notin CreateSteps
    BY <1>1, <2>1, <2>2 DEF Knows, Viewing, AddSteps, RemoveSteps,
       ViewSteps, ReactSteps, CreateSteps
  <2>4. /\ task' \in [Tasks -> Task] /\ task'[t] = n
        /\ \A s \in Tasks : s # t => task'[s] = task[s]
    BY <2>1, <2>2, StoriesUnpacked
  <2>5. \A s \in Tasks : Knows(task[s])'
    <3>1. \A s \in Tasks : Knows(task'[s])
      BY <2>3, <2>4, StoriesUnpacked
    <3> QED
      BY <2>1, <3>1, KnowsStill
  <2>6. notified' \cup pushed' \subseteq views' \X {"story_view", "story_reaction"}
    BY <1>1, <1>3, <2>1
  <2> QED
    BY <1>1, <1>2, <2>1, <2>3, <2>4, <2>5, <2>6, ViewingMoves
<1>5. CASE enqueue_push(t)
  <2>1. /\ Return(t)
        /\ UNCHANGED <<users, contact, rows, story, views, reacted, notified,
                       wish, answered, shown, late, requests, faults>>
        /\ pushed' = pushed \cup {pair}
    BY <1>5 DEF enqueue_push, pair
  <2>2. StEnds(t)
    BY <1>1, <2>1 DEF StEnds
  <2>3. \A s \in Tasks : Knows(task[s])'
    BY <2>1, <2>2, StoryEnded, KnowsStill
  <2>4. notified' \cup pushed' \subseteq views' \X {"story_view", "story_reaction"}
    BY <1>1, <1>3, <2>1
  <2>5. \A s \in Tasks : task'[s].at \in CreateSteps => task'[s] = task[s]
    BY <2>2, StoryEnded, IdleKnows, StoriesUnpacked
  <2> QED
    BY <1>1, <1>2, <2>1, <2>2, <2>3, <2>4, <2>5, StoryEnded,
       ViewingMoves DEF StEnds
<1> QED
  BY <1>4, <1>5

(* A view, and a reaction: by one who was allowed to see the story.        *)
LEMMA StoryViewed ==
  ASSUME StoriesInv, NEW t \in Tasks, ever' = ever \cup Audience',
         mark_viewed(t) \/ add_reaction(t),
         NEW k \in Task, task' = [task EXCEPT ![t] = k],
         \/ k = IdleTask
         \/ k.at = "notify" /\ k.viewer = task[t].viewer,
         requests' \in 0..MaxRequests, faults' \in 0..MaxFaults
  PROVE  StoriesInv'
<1> DEFINE v == task[t].viewer
<1> USE DEF contacts, viewing, history, bounds
<1>1. /\ Knows(task[t]) /\ task[t].at \in {"mark", "react"}
      /\ UNCHANGED <<users, contact, rows, story, notified, pushed, wish,
                     answered, shown, late>>
      /\ views' = views \cup {v}
      /\ reacted' \in {reacted, reacted \cup {v}}
  BY StoriesUnpacked DEF mark_viewed, add_reaction
<1>2. v \in users /\ v \in ever /\ v \in Viewers
  BY <1>1 DEF Knows, Viewing, ViewSteps, ReactSteps
<1> HIDE DEF v
<1>3. /\ task' \in [Tasks -> Task] /\ task'[t] = k
      /\ \A s \in Tasks : s # t => task'[s] = task[s]
      /\ k.at \notin CreateSteps
  BY StoriesUnpacked, IdleKnows DEF CreateSteps
<1>4. \A s \in Tasks : Knows(task[s])'
  <2>1. \A s \in Tasks : s # t => Knows(task'[s])
    BY <1>3, StoriesUnpacked
  <2>2. Audience' = Audience /\ ever' = ever
    BY <1>1, StoriesUnpacked DEF Audience, IsContact
  <2>3. \A s \in Tasks : s # t => Knows(task[s])'
    BY <1>1, <2>1, <2>2, KnowsStill
  <2>4. Knows(task[t])'
    <3>1. CASE k = IdleTask
      BY <1>1, <1>3, <2>2, <3>1, IdleKnows, KnowsStill, StoriesUnpacked
    <3>2. CASE k.at = "notify" /\ k.viewer = v
      BY <1>1, <1>2, <1>3, <3>2 DEF Knows, Viewing, AddSteps,
         RemoveSteps,
         ViewSteps, ReactSteps
    <3> QED
      BY <3>1, <3>2 DEF v
  <2> QED
    BY <2>3, <2>4
<1>5. /\ reacted' \subseteq views'
      /\ notified' \cup pushed' \subseteq
           views' \X {"story_view", "story_reaction"}
  BY <1>1, StoriesUnpacked DEF TypeOK
<1> QED
  BY <1>1, <1>2, <1>3, <1>4, <1>5, ViewingMoves

LEMMA StoryViews ==
  ASSUME StoriesInv, NEW t \in Tasks, ever' = ever \cup Audience',
         MarkViewed(t) \/ React(t)
  PROVE  StoriesInv'
<1> DEFINE k == task[t]
<1>1. /\ k \in Task
      /\ requests' \in 0..MaxRequests /\ faults' \in 0..MaxFaults
  BY StoriesUnpacked DEF TypeOK, MarkViewed, React, bounds
<1>2. CASE MarkViewed(t)
  <2> DEFINE n == [k EXCEPT !.at = "notify"]
  <2>1. n \in Task /\ n.at = "notify" /\ n.viewer = k.viewer
    BY <1>1, GoesTo DEF StNames, Viewing
  <2>2. task' = [task EXCEPT ![t] = n]
    BY <1>2, StoriesUnpacked DEF MarkViewed, Goto
  <2> HIDE DEF n
  <2> QED
    BY <1>1, <1>2, <2>1, <2>2, StoryViewed DEF MarkViewed
<1>3. CASE React(t)
  <2> DEFINE n == [k EXCEPT !.at = "notify", !.what = "story_reaction"]
  <2>1. n \in Task /\ n.at = "notify" /\ n.viewer = k.viewer
    BY <1>1 DEF Task
  <2>2. task' = [task EXCEPT ![t] = n]
    BY <1>3, StoriesUnpacked DEF React
  <2> HIDE DEF n
  <2> QED
    BY <1>1, <1>3, <2>1, <2>2, StoryViewed DEF React
<1> QED
  BY <1>2, <1>3

(* The creation, and the exceptions one by one: what is in the rows is     *)
(* what was asked for, or a part of it.                                    *)
LEMMA CreationMoves ==
  ASSUME StoriesInv, NEW t \in Tasks, task[t].at \in CreateSteps,
         NEW k \in Task, task' = [task EXCEPT ![t] = k],
         Knows(task[t])',
         UNCHANGED <<users, contact, rows, views, reacted, notified, pushed,
                     wish, shown, late>>,
         story' \in Story, story'.state # "none",
         story.hidden \subseteq story'.hidden, answered' \in BOOLEAN,
         Published', WishHolds',
         ever' = ever \cup Audience',
         requests' \in 0..MaxRequests, faults' \in 0..MaxFaults
  PROVE  StoriesInv'
<1>1. /\ task' \in [Tasks -> Task] /\ task'[t] = k
      /\ \A s \in Tasks : s # t => task'[s] = task[s]
  BY StoriesUnpacked
<1>2. Audience' \subseteq users
  BY DEF Audience
<1>3. TypeOK'
  BY <1>1, <1>2, StoriesUnpacked DEF TypeOK
<1>4. \A s \in Tasks : s # t => task'[s].at \notin CreateSteps
  BY <1>1, StoriesUnpacked DEF OneCreates
<1>5. \A s \in Tasks : Knows(task[s])'
  <2> SUFFICES ASSUME NEW s \in Tasks, s # t PROVE Knows(task[s])'
    OBVIOUS
  <2>1. Knows(task'[s]) /\ task'[s].at \notin {"create", "except"}
    BY <1>1, <1>4, StoriesUnpacked DEF CreateSteps
  <2> QED
    BY <2>1 DEF Knows
<1>6. OneCreates'
  BY <1>4 DEF OneCreates
<1>7. ViewersWereAllowed'
  BY StoriesUnpacked DEF ViewersWereAllowed
<1> QED
  BY <1>3, <1>5, <1>6, <1>7, StoriesUnpacked DEF StoriesInv

(* What Answered does: the next exception, or the answer.                  *)
LEMMA AnsweredDoes ==
  ASSUME StoriesInv, NEW t \in Tasks, NEW rest \in SUBSET Viewers,
         Answered(t, rest)
  PROVE  \E k \in Task :
           /\ task' = [task EXCEPT ![t] = k]
           /\ \/ k = IdleTask /\ rest = {} /\ answered' = TRUE
              \/ k.at = "except" /\ k.rest = rest /\ answered' = answered
<1>1. CASE rest = {}
  BY <1>1, IdleKnows, StoriesUnpacked DEF Answered, Return
<1>2. CASE rest # {}
  <2> DEFINE k == [task[t] EXCEPT !.at = "except", !.rest = rest]
  <2>1. k \in Task /\ k.at = "except" /\ k.rest = rest
    BY StoriesUnpacked DEF Task, CreateSteps
  <2>2. task' = [task EXCEPT ![t] = k] /\ answered' = answered
    BY <1>2, StoriesUnpacked DEF Answered
  <2> HIDE DEF k
  <2> QED
    BY <2>1, <2>2
<1> QED
  BY <1>1, <1>2

LEMMA StoryInserted ==
  ASSUME StoriesInv, NEW t \in Tasks, ever' = ever \cup Audience',
         insert_story(t),
         NEW k \in Task, task' = [task EXCEPT ![t] = k],
         \/ k = IdleTask /\ UNCHANGED answered
         \/ k = IdleTask /\ task[t].rest = {} /\ answered' = TRUE
         \/ k.at = "except" /\ k.rest = task[t].rest /\ UNCHANGED answered,
         requests' \in 0..MaxRequests, faults' \in 0..MaxFaults
  PROVE  StoriesInv'
<1> USE DEF contacts, viewing, history, bounds
<1> DEFINE new == [NoStory EXCEPT !.state = "live", !.privacy = wish.privacy]
<1>1. /\ UNCHANGED <<users, contact, rows, views, reacted, notified, pushed,
                     wish, shown, late>>
      /\ story' = new /\ task[t].at = "create" /\ Knows(task[t])
      /\ wish \in [privacy : Privacies, list : SUBSET Viewers]
      /\ task'[t] = k
  BY StoriesUnpacked DEF insert_story, TypeOK
<1>2. /\ new \in Story /\ new.state = "live" /\ new.privacy = wish.privacy
      /\ new.hidden = {} /\ new.chosen = {}
  BY <1>1 DEF NoStory, Story
<1> HIDE DEF new
<1>3. /\ story.state = "none" /\ task[t].rest = wish.list
      /\ ~answered /\ shown = {} /\ late = {} /\ story.hidden = {}
      /\ answered \in BOOLEAN
  BY <1>1, StoriesUnpacked DEF Knows, Published, NoStory, TypeOK
<1>4. Published' /\ WishHolds' /\ answered' \in BOOLEAN
  <2>1. answered' \in BOOLEAN /\ (answered' => wish.list = {})
    <3>1. CASE answered' = answered
      BY <1>3, <3>1
    <3>2. CASE task[t].rest = {} /\ answered' = TRUE
      BY <1>3, <3>2
    <3> QED
      BY <3>1, <3>2
  <2>2. WishHolds'
    BY <1>1, <1>3 DEF WishHolds
  <2>3. /\ story'.state = "live" /\ story'.privacy = wish'.privacy
        /\ story'.chosen = {} /\ (answered' => wish'.list = {})
    BY <1>1, <1>2, <2>1
  <2>4. Published'
    BY <2>3 DEF Published
  <2> QED
    BY <2>1, <2>2, <2>4
<1>5. Knows(task[t])'
  <2>1. CASE k = IdleTask
    <3>1. /\ task'[t].at \notin AddSteps \cup RemoveSteps \cup Viewing
          /\ task'[t].at \notin {"mark", "viewed", "react", "notify", "presence",
                                "push", "insert", "delete", "create", "except"}
      BY <1>1, <2>1, IdleKnows, StoriesUnpacked
      DEF AddSteps, RemoveSteps, Viewing, ViewSteps, ReactSteps
    <3> QED
      BY <3>1 DEF Knows, Viewing
  <2>2. CASE k.at = "except" /\ k.rest = wish.list
    <3>1. /\ task'[t].at = "except" /\ task'[t].rest = wish'.list
          /\ task'[t].at \notin AddSteps \cup RemoveSteps \cup Viewing
          /\ story'.state # "none"
      BY <1>1, <1>2, <2>2
      DEF AddSteps, RemoveSteps, Viewing, ViewSteps, ReactSteps
    <3> QED
      BY <3>1 DEF Knows, Viewing
  <2> QED
    BY <1>3, <2>1, <2>2
<1>6. task[t].at \in CreateSteps /\ story'.state # "none"
      /\ story.hidden \subseteq story'.hidden
  BY <1>1, <1>2, <1>3 DEF CreateSteps
<1> QED
  BY <1>1, <1>2, <1>4, <1>5, <1>6, CreationMoves

LEMMA StoryIsInserted ==
  ASSUME StoriesInv, NEW t \in Tasks, ever' = ever \cup Audience',
         InsertStory(t)
  PROVE  StoriesInv'
<1>1. task[t].rest \in SUBSET Viewers
  BY StoriesUnpacked DEF Task
<1>2. PICK k \in Task :
        /\ task' = [task EXCEPT ![t] = k]
        /\ \/ k = IdleTask /\ task[t].rest = {} /\ answered' = TRUE
           \/ k.at = "except" /\ k.rest = task[t].rest /\ answered' = answered
  BY <1>1, AnsweredDoes DEF InsertStory
<1>3. requests' \in 0..MaxRequests /\ faults' \in 0..MaxFaults
  BY StoriesUnpacked DEF InsertStory, bounds, TypeOK
<1> QED
  BY <1>2, <1>3, StoryInserted DEF InsertStory

LEMMA ExceptionIsInserted ==
  ASSUME StoriesInv, NEW t \in Tasks, ever' = ever \cup Audience',
         InsertException(t)
  PROVE  StoriesInv'
<1> USE DEF contacts, viewing, history, bounds
<1>1. PICK v \in task[t].rest :
        IF v \in users
          THEN /\ add_privacy_exception(v)
               /\ Answered(t, task[t].rest \ {v})
          ELSE Return(t) /\ UNCHANGED <<story, answered>>
  BY DEF InsertException
<1>2. /\ UNCHANGED <<users, contact, rows, views, reacted, notified, pushed,
                     wish, shown, late, requests, faults>>
      /\ requests' \in 0..MaxRequests /\ faults' \in 0..MaxFaults
      /\ task[t] \in Task /\ task[t].at = "except" /\ Knows(task[t])
      /\ story \in Story
  BY StoriesUnpacked DEF InsertException, TypeOK
<1>3. CASE v \notin users
  BY <1>1, <1>2, <1>3, StoryReturn
<1>4. CASE v \in users
  <2> DEFINE rest == task[t].rest \ {v}
  <2>1. /\ task[t].rest \subseteq wish.list /\ rest \in SUBSET Viewers
        /\ v \in wish.list /\ v \in Viewers /\ story.state # "none"
    BY <1>1, <1>2 DEF Knows, Task
  <2>2. /\ story' \in Story /\ story'.state = story.state
        /\ story'.privacy = story.privacy
        /\ story'.hidden = IF wish.privacy = "contacts_except"
                             THEN story.hidden \cup {v} ELSE story.hidden
        /\ story'.chosen = IF wish.privacy = "contacts_except"
                             THEN story.chosen ELSE story.chosen \cup {v}
    <3>1. CASE wish.privacy = "contacts_except"
      <4>1. story' = [story EXCEPT !.hidden = story.hidden \cup {v}]
        BY <1>1, <1>4, <3>1 DEF add_privacy_exception
      <4> QED
        BY <1>2, <2>1, <3>1, <4>1 DEF Story
    <3>2. CASE wish.privacy # "contacts_except"
      <4>1. story' = [story EXCEPT !.chosen = story.chosen \cup {v}]
        BY <1>1, <1>4, <3>2 DEF add_privacy_exception
      <4> QED
        BY <1>2, <2>1, <3>2, <4>1 DEF Story
    <3> QED
      BY <3>1, <3>2
  <2>3. PICK k \in Task :
          /\ task' = [task EXCEPT ![t] = k]
          /\ \/ k = IdleTask /\ rest = {} /\ answered' = TRUE
             \/ k.at = "except" /\ k.rest = rest /\ answered' = answered
    BY <1>1, <1>4, <2>1, AnsweredDoes
  <2>4. task'[t] = k
    BY <2>3, StoriesUnpacked
  <2>5. wish.privacy = "contacts_except" =>
      wish.list \ rest \subseteq story'.hidden
    BY <1>2, <2>1, <2>2 DEF Knows
  <2>6. Published'
    <3>1. wish.privacy = "contacts_except" /\ answered' =>
            wish.list \subseteq story'.hidden
      BY <2>2, <2>3, <2>5, StoriesUnpacked DEF Published
    <3> QED
      BY <1>2, <2>1, <2>2, <3>1, StoriesUnpacked DEF Published
  <2>7. WishHolds'
    BY <1>2, StoriesUnpacked DEF WishHolds
  <2>8. Knows(task[t])'
    <3>1. CASE k = IdleTask
      <4>1. /\ task'[t].at \notin AddSteps \cup RemoveSteps \cup Viewing
            /\ task'[t].at \notin {"mark", "viewed", "react", "notify", "presence",
                                  "push", "insert", "delete", "create", "except"}
        BY <2>4, <3>1, IdleKnows, StoriesUnpacked
        DEF AddSteps, RemoveSteps, Viewing, ViewSteps, ReactSteps
      <4> QED
        BY <4>1 DEF Knows, Viewing
    <3>2. CASE k.at = "except" /\ k.rest = rest
      <4>1. /\ task'[t].at = "except" /\ task'[t].rest = rest
            /\ task'[t].at \notin AddSteps \cup RemoveSteps \cup Viewing
        BY <2>4, <3>2
        DEF AddSteps, RemoveSteps, Viewing, ViewSteps, ReactSteps
      <4>2. rest \subseteq wish.list /\ story'.state # "none"
        BY <2>1, <2>2
      <4> HIDE DEF rest
      <4> QED
        BY <1>2, <2>5, <4>1, <4>2 DEF Knows, Viewing
    <3> QED
      BY <2>3, <3>1, <3>2
  <2>9. /\ task[t].at \in CreateSteps
        /\ story.hidden \subseteq story'.hidden
        /\ answered' \in BOOLEAN
    BY <1>2, <2>2, <2>3, StoriesUnpacked DEF CreateSteps, TypeOK
  <2> QED
    BY <1>2, <2>1, <2>2, <2>3, <2>6, <2>7, <2>8, <2>9, CreationMoves
<1> QED
  BY <1>3, <1>4

LEMMA StoryReplyLost ==
  ASSUME StoriesInv, NEW t \in Tasks, ever' = ever \cup Audience',
         ReplyLost(t)
  PROVE  StoriesInv'
<1>1. /\ requests' \in 0..MaxRequests /\ faults' \in 0..MaxFaults
      /\ Return(t)
      /\ task' = [task EXCEPT ![t] = IdleTask]
      /\ IdleTask \in Task
  BY StoriesUnpacked, IdleKnows DEF ReplyLost, Fault, TypeOK,
     Return
<1>2. CASE LastWrite(t)
  BY <1>1, <1>2, StoryWrites DEF StEnds
<1>3. CASE insert_story(t) /\ UNCHANGED answered
  BY <1>1, <1>3, StoryInserted
<1>4. CASE mark_viewed(t) \/ add_reaction(t)
  BY <1>1, <1>4, StoryViewed
<1> QED
  BY <1>2, <1>3, <1>4 DEF ReplyLost

(* The invariant holds at first, and every step keeps it.                  *)
LEMMA StoriesInductive == Spec => []StoriesInv
<1>1. Init => StoriesInv
  <2> SUFFICES ASSUME Init PROVE StoriesInv
    OBVIOUS
  <2>1. /\ NoContact \in Contact /\ ~NoContact.user
        /\ NoStory \in Story /\ NoStory.state = "none"
        /\ NoStory.chosen = {}
    BY BoundsAreNaturals DEF NoContact, Contact, NoStory, Story, Privacies
  <2>2. /\ \A t \in Tasks : task[t] = IdleTask
        /\ \A v \in Viewers : contact[v] = NoContact
        /\ task \in [Tasks -> Task]
        /\ contact \in [Viewers -> Contact]
    BY <2>1, IdleKnows DEF Init
  <2>3. /\ wish.privacy = "contacts" /\ wish.list = {}
        /\ wish \in [privacy : Privacies, list : SUBSET Viewers]
    BY DEF Init, Privacies
  <2>4. /\ rows \in 0..MaxContacts
        /\ requests \in 0..MaxRequests /\ faults \in 0..MaxFaults
    BY BoundsAreNaturals DEF Init
  <2>5. TypeOK
    BY <2>1, <2>2, <2>3, <2>4 DEF Init, TypeOK
  <2>6. (\A t \in Tasks : Knows(task[t])) /\ OneCreates
    BY <2>2, IdleKnows DEF OneCreates
  <2>7. Published /\ WishHolds
    BY <2>1, <2>3 DEF Init, Published, WishHolds
  <2>8. Audience \subseteq ever /\ ViewersWereAllowed
    BY <2>1 DEF Init, Audience, ViewersWereAllowed
  <2> QED
    BY <2>5, <2>6, <2>7, <2>8 DEF StoriesInv
<1>2. StoriesInv /\ [Next]_vars => StoriesInv'
  <2> SUFFICES ASSUME StoriesInv, [Next]_vars PROVE StoriesInv'
    OBVIOUS
  <2>1. CASE UNCHANGED vars
    <3>1. UNCHANGED <<users, contact, rows, story, views, reacted, notified,
                      pushed, task, wish, answered, shown, late, ever,
                      requests, faults>>
      BY <2>1 DEF vars, contacts, viewing, history, bounds
    <3>2. Audience' = Audience /\ Audience \subseteq ever
      BY <3>1, StoriesUnpacked DEF Audience, IsContact
    <3>3. ever' = ever \cup Audience'
      BY <3>1, <3>2
    <3>4. requests' \in 0..MaxRequests /\ faults' \in 0..MaxFaults
      BY <3>1, StoriesUnpacked DEF TypeOK
    <3> QED
      BY <3>1, <3>3, <3>4, StoryKept, StoriesUnpacked
  <2>2. CASE Next
    <3>1. ever' = ever \cup Audience' /\ Step
      BY <2>2 DEF Next
    <3>2. ASSUME NEW t \in Tasks, Write(t)
          PROVE  StoriesInv'
      <4>1. StEnds(t) /\ LastWrite(t)
        BY <3>2, StoriesUnpacked DEF Write, StEnds, bounds, TypeOK
      <4> QED
        BY <3>1, <4>1, StoryWrites
    <3> QED
      BY <3>1, <3>2, StoryRequest, StoryChecks, StoryLooks, StoryIsInserted,
         ExceptionIsInserted, StoryViews, StoryTells, StoryReplyLost, StoryOutside
      DEF Step
  <2> QED
    BY <2>1, <2>2
<1> QED
  BY <1>1, <1>2, PTL DEF Spec

-----------------------------------------------------------------------------
(* The variables of Stories keep their types, and the rows of views,       *)
(* reactions and notifications are about users who exist                   *)
(* (handlers.rs:172-246).                                                  *)
THEOREM StoriesTypeCorrect == Spec => []TypeOK
<1>1. StoriesInv => TypeOK
  BY DEF StoriesInv
<1> QED
  BY <1>1, StoriesInductive, PTL

(* Whoever is among the viewers was allowed to see the story at some time: *)
(* the check comes before the write, and what it has seen is not forgotten *)
(* (handlers.rs:172-246).                                                  *)
THEOREM StoriesViewersWereAllowed == Spec => []ViewersWereAllowed
<1>1. StoriesInv => ViewersWereAllowed
  BY DEF StoriesInv
<1> QED
  BY <1>1, StoriesInductive, PTL

(* What the author asked for holds, for any number of viewers and          *)
(* exceptions, because no exception is taken back and the privacy is in    *)
(* the first INSERT (handlers.rs:57-68).                                   *)
THEOREM StoriesWishHolds == Spec => []WishHolds
<1>1. StoriesInv => WishHolds
  BY DEF StoriesInv
<1> QED
  BY <1>1, StoriesInductive, PTL
=============================================================================
