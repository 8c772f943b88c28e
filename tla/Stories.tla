------------------------------ MODULE Stories -------------------------------
(***************************************************************************)
(* One story and who gets to see it: its author creates it, with the       *)
(* people it is hidden from or shown to one by one, and deletes it; others *)
(* are given it in their feed, view it and react to it. For most kinds of  *)
(* privacy that depends on the author's contacts, which are added and      *)
(* removed meanwhile. Every query of a handler is a step.                  *)
(***************************************************************************)
EXTENDS Naturals, FiniteSets

CONSTANTS
  Viewers,      \* the others, by their phones; not all are users yet
  Tasks,        \* requests that are served at once
  NoViewer,
  MaxContacts,  \* bound: rows of contacts that are inserted
  MaxRequests,  \* bound: requests in a behaviour
  MaxFaults     \* bound: queries that fail

ASSUME NobodyViews == NoViewer \notin Viewers
ASSUME BoundsAreNaturals == {MaxContacts, MaxRequests, MaxFaults} \subseteq Nat

VARIABLES
  users,     \* those of Viewers with a row in users
  contact,   \* the author's contacts: by phone the row, and if it has a user
  rows,      \* rows of contacts so far: their ids
  story,     \* the rows of stories and story_privacy_exceptions
  views,     \* story_views
  reacted,   \* those with a reaction
  notified,  \* what the author was told of
  pushed,    \* what a push job was made of
  task,
  wish,      \* history: the privacy and the exceptions that were asked for
  answered,  \* history: the creation was answered with success
  shown,     \* history: who was given the story in the feed
  late,      \* history: those of shown who were given it after the answer
  ever,      \* history: who was allowed to see it at some time
  requests, faults

contacts == <<contact, rows>>
viewing == <<views, reacted, notified, pushed>>
history == <<wish, answered, shown, late>>
bounds == <<requests, faults>>
vars == <<users, contacts, story, viewing, task, history, ever, bounds>>

Privacies == {"everyone", "contacts", "contacts_except", "only_me", "selected"}

Story == [state : {"none", "live", "gone"},  \* gone: deleted, or expired
          privacy : Privacies,
          hidden : SUBSET Viewers,           \* exceptions with is_excluded
          chosen : SUBSET Viewers]           \* and those without

NoStory ==
  [state |-> "none", privacy |-> "contacts", hidden |-> {}, chosen |-> {}]

Contact == [id : 0..MaxContacts, user : BOOLEAN]  \* contact_id IS NOT NULL

NoContact == [id |-> 0, user |-> FALSE]

AddSteps == {"existing", "lookup", "insert"}
RemoveSteps == {"findContact", "remove"}
CreateSteps == {"create", "except"}
DeleteSteps == {"findStory", "delete"}
ViewSteps == {"find", "may", "mark"}
ReactSteps == {"findToReact", "mayReact", "viewed", "react"}

Task == [at : {"idle", "notify", "presence", "push"}
              \cup AddSteps \cup RemoveSteps \cup CreateSteps
              \cup DeleteSteps \cup ViewSteps \cup ReactSteps,
         viewer : Viewers \cup {NoViewer},  \* who asks, or whose phone it is
         rest : SUBSET Viewers,             \* exceptions yet to be inserted
         row : 0..MaxContacts,              \* the contact that was found
         user : BOOLEAN,                    \* the phone has a user
         what : {"story_view", "story_reaction"}]

Handler(at, v) ==
  [at |-> at, viewer |-> v, rest |-> {}, row |-> 0, user |-> FALSE,
   what |-> "story_view"]

IdleTask == Handler("idle", NoViewer)

Goto(t, step) == task' = [task EXCEPT ![t].at = step]
Return(t) == task' = [task EXCEPT ![t] = IdleTask]
Check(t, good, step) == IF good THEN Goto(t, step) ELSE Return(t)

Init ==
  /\ users \in SUBSET Viewers
  /\ contact = [v \in Viewers |-> NoContact]
  /\ rows = 0
  /\ story = NoStory
  /\ views = {} /\ reacted = {} /\ notified = {} /\ pushed = {}
  /\ task = [t \in Tasks |-> IdleTask]
  /\ wish = [privacy |-> "contacts", list |-> {}]
  /\ answered = FALSE
  /\ shown = {} /\ late = {} /\ ever = {}
  /\ requests = 0 /\ faults = 0

-----------------------------------------------------------------------------
Spawn(t, handler) ==
  /\ task[t].at = "idle"
  /\ requests < MaxRequests
  /\ requests' = requests + 1
  /\ task' = [task EXCEPT ![t] = handler]
  /\ UNCHANGED <<users, contacts, story, viewing, faults>>

(* The story is created once: later ones have rows of their own. Anybody's *)
(* id may be among the exceptions.                                         *)
create_story(t) ==
  \E privacy \in Privacies, list \in SUBSET Viewers :
    /\ story.state = "none" /\ \A s \in Tasks : task[s].at # "create"
    /\ Spawn(t, [Handler("create", NoViewer) EXCEPT !.rest = list])
    /\ wish' = [privacy |-> privacy, list |-> list]
    /\ UNCHANGED <<answered, shown, late>>

Request(t) ==
  \/ create_story(t)
  \/ /\ \/ Spawn(t, Handler("findStory", NoViewer))
        \/ \E v \in Viewers :
             \/ Spawn(t, Handler("existing", v))
             \/ Spawn(t, Handler("findContact", v))
             \/ /\ v \in users
                /\ \/ Spawn(t, Handler("find", v))
                   \/ Spawn(t, Handler("findToReact", v))
     /\ UNCHANGED history

(* Module SignIn has how. *)
Register(v) ==
  /\ v \notin users
  /\ users' = users \cup {v}
  /\ UNCHANGED <<contacts, story, viewing, task, history, bounds>>

-----------------------------------------------------------------------------
(* create_contact and delete_contact. The phone is looked up once: a row   *)
(* without a user never gets one.                                          *)
FindExisting(t) ==
  /\ task[t].at = "existing"
  /\ Check(t, contact[task[t].viewer].id = 0, "lookup")
  /\ UNCHANGED <<users, contacts, story, viewing, history, bounds>>

find_id_by_phone(t) ==
  /\ task[t].at = "lookup"
  /\ task' = [task EXCEPT ![t].at = "insert",
                          ![t].user = task[t].viewer \in users]
  /\ UNCHANGED <<users, contacts, story, viewing, history, bounds>>

(* A mutant, as HideNobody and MayViewAny below: a definition after it     *)
(* with a plausible mistake, for checking that the properties notice. No   *)
(* other definition uses one.                                              *)
LinkAnyPhone(t) ==
  LET v == task[t].viewer IN
  /\ task[t].at = "insert"
  /\ rows < MaxContacts
  /\ IF contact[v].id # 0 THEN UNCHANGED contacts
     ELSE /\ rows' = rows + 1
          /\ contact' = [contact EXCEPT ![v] = [id |-> rows + 1, user |-> TRUE]]
  /\ UNCHANGED <<users, story, viewing, history>>

(* UNIQUE (owner_id, phone): of two the second fails. *)
create_contact(t) ==
  LET v == task[t].viewer IN
  /\ task[t].at = "insert"
  /\ rows < MaxContacts
  /\ IF contact[v].id # 0 THEN UNCHANGED contacts
     ELSE /\ rows' = rows + 1
          /\ contact' = [contact EXCEPT
               ![v] = [id |-> rows + 1, user |-> task[t].user]]
  /\ UNCHANGED <<users, story, viewing, history>>

FindContact(t) ==
  /\ task[t].at = "findContact"
  /\ contact[task[t].viewer].id # 0
  /\ task' = [task EXCEPT ![t].at = "remove",
                          ![t].row = contact[task[t].viewer].id]
  /\ UNCHANGED <<users, contacts, story, viewing, history, bounds>>

delete_contact(t) ==
  /\ task[t].at = "remove"
  /\ contact' = [v \in Viewers |->
                   IF contact[v].id = task[t].row THEN NoContact ELSE contact[v]]
  /\ UNCHANGED <<users, rows, story, viewing, history>>

-----------------------------------------------------------------------------
(***************************************************************************)
(* create_story: the story is there at once, the exceptions follow. One    *)
(* for an unknown user fails, and with it the request; the story stays.    *)
(***************************************************************************)
insert_story(t) ==
  /\ task[t].at = "create"
  /\ story' = [NoStory EXCEPT !.state = "live", !.privacy = wish.privacy]
  /\ UNCHANGED <<users, contacts, viewing, wish, shown, late>>

Answered(t, rest) ==
  IF rest = {} THEN Return(t) /\ answered' = TRUE
  ELSE /\ task' = [task EXCEPT ![t].at = "except", ![t].rest = rest]
       /\ UNCHANGED answered

InsertStory(t) ==
  insert_story(t) /\ Answered(t, task[t].rest) /\ UNCHANGED bounds

HideNobody(v) == story' = [story EXCEPT !.chosen = @ \cup {v}]

add_privacy_exception(v) ==
  IF wish.privacy = "contacts_except"
    THEN story' = [story EXCEPT !.hidden = @ \cup {v}]
    ELSE story' = [story EXCEPT !.chosen = @ \cup {v}]

InsertException(t) ==
  /\ task[t].at = "except"
  /\ \E v \in task[t].rest :
       IF v \in users
         THEN add_privacy_exception(v) /\ Answered(t, task[t].rest \ {v})
         ELSE Return(t) /\ UNCHANGED <<story, answered>>
  /\ UNCHANGED <<users, contacts, viewing, wish, shown, late, bounds>>

(* delete_story, and the end of the 24 hours. *)
FindStory(t) ==
  /\ task[t].at = "findStory"
  /\ Check(t, story.state = "live", "delete")
  /\ UNCHANGED <<users, contacts, story, viewing, history, bounds>>

delete_story(t) ==
  /\ task[t].at = "delete"
  /\ story' = [story EXCEPT !.state = "gone"]
  /\ UNCHANGED <<users, contacts, viewing, history>>

StoryExpires ==
  /\ story.state = "live"
  /\ story' = [story EXCEPT !.state = "gone"]
  /\ UNCHANGED <<users, contacts, viewing, task, history, bounds>>

-----------------------------------------------------------------------------
(* Whom can_user_view_story, and the query of the feed, let see it. *)
IsContact(v) == contact[v].user

Audience ==
  {v \in users :
     /\ story.state = "live"
     /\ \/ story.privacy = "everyone"
        \/ story.privacy = "contacts" /\ IsContact(v)
        \/ story.privacy = "contacts_except" /\ IsContact(v) /\ v \notin story.hidden
        \/ story.privacy = "selected" /\ v \in story.chosen}

list_stories(v) ==
  /\ v \in Audience
  /\ shown' = shown \cup {v}
  /\ late' = IF answered THEN late \cup {v} ELSE late
  /\ UNCHANGED <<users, contacts, story, viewing, task, wish, answered, bounds>>

(* view_story and react_to_story, of others than the author. *)
Find(t) ==
  /\ \/ task[t].at = "find" /\ Check(t, story.state = "live", "may")
     \/ task[t].at = "findToReact" /\ Check(t, story.state = "live", "mayReact")
  /\ UNCHANGED <<users, contacts, story, viewing, history, bounds>>

MayViewAny(t) ==
  /\ \/ task[t].at = "may" /\ Check(t, story.state = "live", "mark")
     \/ task[t].at = "mayReact" /\ Check(t, story.state = "live", "viewed")
  /\ UNCHANGED <<users, contacts, story, viewing, history, bounds>>

can_user_view_story(t) ==
  /\ \/ task[t].at = "may" /\ Check(t, task[t].viewer \in Audience, "mark")
     \/ task[t].at = "mayReact" /\ Check(t, task[t].viewer \in Audience, "viewed")
  /\ UNCHANGED <<users, contacts, story, viewing, history, bounds>>

mark_viewed(t) ==
  /\ task[t].at = "mark"
  /\ views' = views \cup {task[t].viewer}
  /\ UNCHANGED <<users, contacts, story, reacted, notified, pushed, history>>

MarkViewed(t) == mark_viewed(t) /\ Goto(t, "notify") /\ UNCHANGED bounds

has_viewed(t) ==
  /\ task[t].at = "viewed"
  /\ Check(t, task[t].viewer \in views, "react")
  /\ UNCHANGED <<users, contacts, story, viewing, history, bounds>>

add_reaction(t) ==
  /\ task[t].at = "react"
  /\ views' = views \cup {task[t].viewer}
  /\ reacted' = reacted \cup {task[t].viewer}
  /\ UNCHANGED <<users, contacts, story, notified, pushed, history>>

React(t) ==
  /\ add_reaction(t)
  /\ task' = [task EXCEPT ![t].at = "notify", ![t].what = "story_reaction"]
  /\ UNCHANGED bounds

(* The author is told, and sent a push when not online. Nothing of this    *)
(* makes the request fail.                                                 *)
create_notification(t) ==
  /\ task[t].at = "notify"
  /\ Goto(t, "presence")
  /\ \/ notified' = notified \cup {<<task[t].viewer, task[t].what>>}
        /\ UNCHANGED bounds
     \/ faults < MaxFaults /\ faults' = faults + 1
        /\ UNCHANGED <<notified, requests>>
  /\ UNCHANGED <<users, contacts, story, views, reacted, pushed, history>>

CheckPresence(t) ==
  /\ task[t].at = "presence"
  /\ Goto(t, "push") \/ Return(t)
  /\ UNCHANGED <<users, contacts, story, viewing, history, bounds>>

enqueue_push(t) ==
  /\ task[t].at = "push"
  /\ Return(t)
  /\ pushed' = pushed \cup {<<task[t].viewer, task[t].what>>}
  /\ UNCHANGED <<users, contacts, story, views, reacted, notified, history, bounds>>

-----------------------------------------------------------------------------
(* A write that ends the request, or fails, with its effect or without.    *)
LastWrite(t) == create_contact(t) \/ delete_contact(t) \/ delete_story(t)

Write(t) == LastWrite(t) /\ Return(t) /\ UNCHANGED bounds

Fault == faults < MaxFaults /\ faults' = faults + 1 /\ UNCHANGED requests

QueryFails(t) ==
  /\ Fault
  /\ task[t].at # "idle"
  /\ Return(t)
  /\ UNCHANGED <<users, contacts, story, viewing, history>>

ReplyLost(t) ==
  /\ Fault
  /\ \/ LastWrite(t)
     \/ insert_story(t) /\ UNCHANGED answered
     \/ mark_viewed(t) \/ add_reaction(t)
  /\ Return(t)

-----------------------------------------------------------------------------
Step ==
  \/ \E t \in Tasks :
       \/ Request(t)
       \/ FindExisting(t) \/ find_id_by_phone(t) \/ FindContact(t) \/ Write(t)
       \/ InsertStory(t) \/ InsertException(t) \/ FindStory(t)
       \/ Find(t) \/ can_user_view_story(t) \/ MarkViewed(t)
       \/ has_viewed(t) \/ React(t)
       \/ create_notification(t) \/ CheckPresence(t) \/ enqueue_push(t)
       \/ QueryFails(t) \/ ReplyLost(t)
  \/ \E v \in Viewers : Register(v) \/ list_stories(v)
  \/ StoryExpires

Next == Step /\ ever' = ever \cup Audience'

Spec == Init /\ [][Next]_vars

-----------------------------------------------------------------------------
(* Every variable keeps its type; a contact with a user is one who exists. *)
TypeOK ==
  /\ users \subseteq Viewers
  /\ contact \in [Viewers -> Contact]
  /\ \A v \in Viewers : contact[v].user => v \in users
  /\ rows \in 0..MaxContacts
  /\ story \in Story
  /\ reacted \subseteq views /\ views \subseteq users
  /\ notified \cup pushed \subseteq views \X {"story_view", "story_reaction"}
  /\ task \in [Tasks -> Task]
  /\ wish \in [privacy : Privacies, list : SUBSET Viewers]
  /\ answered \in BOOLEAN
  /\ late \subseteq shown /\ shown \cup ever \subseteq users
  /\ requests \in 0..MaxRequests
  /\ faults \in 0..MaxFaults

(* Nobody is among the viewers of a story, or reacts to it, who was never  *)
(* allowed to see it, though contacts, exceptions and the story itself     *)
(* change between the check and the write (handlers.rs:172-246).           *)
ViewersWereAllowed == views \subseteq ever

(* What the author asked for holds. A story for a selection is never given *)
(* to others, not even before the selection is complete or when it fails   *)
(* half way; a story that is hidden from some is not given to them once    *)
(* the author has the answer, whoever becomes a user or a contact          *)
(* (handlers.rs:57-68).                                                    *)
WishHolds ==
  /\ wish.privacy = "selected" => shown \subseteq wish.list
  /\ wish.privacy = "contacts_except" => late \cap wish.list = {}
  /\ wish.privacy = "only_me" => shown = {}

(* "For "selected": allow-list; for "contacts": block-list"                *)
(* (API_USE_DOC.md:1352). The code stores the list of a story for contacts *)
(* as people to show it to, and does not look at it.                       *)
ContactsListHides == wish.privacy = "contacts" => late \cap wish.list = {}

(* "`contact_id` is `null` if the phone number is not yet registered in    *)
(* the app." (API_USE_DOC.md:1572): a contact who is a user has one.       *)
ContactsAreUsers ==
  \A v \in Viewers : contact[v].id # 0 /\ v \in users => contact[v].user
=============================================================================
