---------------------------- MODULE RecipeDraft ----------------------------
(***************************************************************************)
(* The recipe tools of the sample web client (hooks/useRecipeTools.ts):    *)
(* drafts in memory, the stored recipes (db/recipes.ts), the list on the   *)
(* screen (context/RecipeContext.tsx) and the staged photo                 *)
(* (hooks/photoStaging.ts).                                                *)
(*                                                                         *)
(* A tool call runs from one await to the next: it starts, goes on when    *)
(* its read is answered, and ends when its write is.  The setters and      *)
(* recipe_save are fire_and_forget tools, so the agent does not wait for   *)
(* one before it calls the next.                                           *)
(*                                                                         *)
(* IndexedDB opens and serves the requests of this one store in the order  *)
(* in which they were made, and runs the callback of a request inside its  *)
(* transaction: a read and what its caller does next, up to the next       *)
(* await, are one step, and so are a write, its event and its caller.      *)
(***************************************************************************)
EXTENDS Integers, SequencesExt

CONSTANTS Recipes,     \* recipe ids
          Shelf,       \* the recipes that are stored in the beginning
          Plain,       \* fields a setter replaces: the name, the description
          Lists,       \* fields that are edited: ingredients, instructions
          Edits,       \* edits of lists the agent makes
          None,
          MaxCalls,    \* bound: calls of the agent and acts of the user
          MaxPhotos,   \* bound: photos the user attaches
          MaxFailures  \* bound: writes that fail (quota, aborted transaction)

(* An edit: its op, its index or None, and whether its text is there.  The *)
(* text of a call is the number of the call, 0 is the empty text.          *)
AllEdits == [op : {"set", "add", "remove", "update"}, index : Int \cup {None}, text : BOOLEAN]

ASSUME RecipeAssumption ==
  /\ Shelf \subseteq Recipes
  /\ None \notin Recipes \cup Int /\ None \notin Plain \cup Lists \cup {"photo"}
  /\ Lists \subseteq {"ingredients", "instructions"} /\ "name" \in Plain
  /\ Plain \cap {"ingredients", "instructions", "photo"} = {}
  /\ Edits \subseteq AllEdits
  /\ {MaxCalls, MaxPhotos, MaxFailures} \subseteq Nat

VARIABLES drafts,    \* draftsRef: what is known of a recipe beside the store
          stored,    \* the object store; a recipe without fields is absent
          calls,     \* the calls in the order in which their handlers start
          requests,  \* requests to IndexedDB that are not answered
          list, selected,          \* the screen: RecipeState
          staged, photos, failures \* the staged photo; photos, failures so far

screen == <<list, selected>>
vars == <<drafts, stored, calls, requests, screen, staged, photos, failures>>

Nothing  == <<>>               \* no field: {} or undefined
Blank    == [f \in Plain \cup Lists |-> IF f \in Lists THEN <<>> ELSE 0]
(* The spread {...old, ...new}, and an object of one field.                *)
Over(new, old) ==
  [f \in DOMAIN new \cup DOMAIN old |-> IF f \in DOMAIN new THEN new[f] ELSE old[f]]
Field(f, x) == [g \in {f} |-> x]

Present  == {r \in Recipes : stored[r] # Nothing}
View(r)  == Over(drafts[r], stored[r]) \* what recipe_get_state answers
Running  == {c \in DOMAIN calls : calls[c].state = "running"}
On(r)    == {c \in DOMAIN calls : calls[c].recipe = r}
Reading  == {c \in DOMAIN calls : \E i \in DOMAIN requests : requests[i].kind = "get" /\ requests[i].call = c}

Init ==
  /\ drafts = [r \in Recipes |-> Nothing]
  /\ stored = [r \in Recipes |-> IF r \in Shelf THEN Blank ELSE Nothing]
  /\ calls = <<>>
  /\ requests = <<[kind |-> "load", call |-> 0, value |-> Nothing]>>
  /\ list = {} /\ selected = None
  /\ staged = 0 /\ photos = 0 /\ failures = 0

-----------------------------------------------------------------------------
(* Lists.  Indexes are JavaScript's: slice and splice count a negative     *)
(* index from the end, filter, map and assignment find nothing there.      *)
(* Ingredients count from 0, steps from 1.                                 *)
Place(i, n) == IF i < 0 THEN (IF n + i < 0 THEN 0 ELSE n + i) ELSE IF i > n THEN n ELSE i
Insert(s, i, x) == InsertAt(s, i + 1, x)
Drop(s, i)      == IF i \in DOMAIN s THEN RemoveAt(s, i) ELSE s
Replace(s, i, x) == IF i \in DOMAIN s THEN ReplaceAt(s, i, x) ELSE s
(* The filter of the code: no text is in a list twice (TypeOK).            *)
Without(s, x) ==
  IF \E i \in DOMAIN s : s[i] = x THEN RemoveAt(s, CHOOSE i \in DOMAIN s : s[i] = x) ELSE s

(* An add without a text inserts nothing; a remove by text names the text  *)
(* of the first call.                                                      *)
EditIngredients(e, s, x) ==
  CASE e.op = "add"    -> IF ~e.text THEN s
                          ELSE Insert(s, IF e.index = None THEN Len(s) ELSE Place(e.index, Len(s)), x)
    [] e.op = "remove" -> IF e.index # None THEN Drop(s, e.index + 1)
                          ELSE Without(s, 1)
    [] e.op = "update" -> Replace(s, e.index + 1, x)
    [] e.op = "set"    -> <<x>>

(* An update behind the end leaves a hole, which the next parse drops.     *)
EditSteps(e, s, x) ==
  CASE e.op = "add"    -> Insert(s, IF e.index = None THEN Len(s) ELSE Place(e.index - 1, Len(s)), x)
    [] e.op = "remove" -> Drop(s, Place(e.index - 1, Len(s)) + 1)
    [] e.op = "update" -> IF e.index > Len(s) THEN Append(s, x) ELSE Replace(s, e.index, x)
    [] e.op = "set"    -> <<x>>

(* Arguments the handlers refuse, after they have awaited the store.       *)
Refused(f, e) ==
  \/ ~e.text /\ \/ e.op \in {"set", "update"}
                \/ e.op = "add" /\ f = "instructions"
                \/ e.op = "remove" /\ f = "ingredients" /\ e.index = None
  \/ e.op = "update" /\ e.index = None
  \/ e.op = "remove" /\ e.index = None /\ f = "instructions"

Edited(f, e, s, x) == IF f = "ingredients" THEN EditIngredients(e, s, x) ELSE EditSteps(e, s, x)

-----------------------------------------------------------------------------
(* A call: the draft its handler has seen, what it writes (field and       *)
(* value), and the calls on its recipe that ran when it started, of which  *)
(* some had still to read the store.                                       *)
Call(tool, r, state, seen, field, edit, value) ==
  [tool |-> tool, recipe |-> r, state |-> state, seen |-> seen, field |-> field,
   edit |-> edit, value |-> value, behind |-> Running \cap On(r), reading |-> Reading \cap On(r)]
Id == Len(calls) + 1                   \* the number of the call that starts
Ask(kind, value) == Append(requests, [kind |-> kind, call |-> Id, value |-> value])
MayCall == Len(calls) < MaxCalls

Create(r) ==
  /\ MayCall
  /\ r \notin Present /\ On(r) = {}    \* crypto.randomUUID()
  /\ LET draft == [Blank EXCEPT !["name"] = Id]
     IN  /\ drafts' = [drafts EXCEPT ![r] = draft]
         /\ calls' = Append(calls, Call("create", r, "running", draft, "name", None, Id))
         /\ requests' = Ask("put", draft)
  /\ UNCHANGED <<stored, screen, staged, photos, failures>>

(* Seeded fault: the setter replaces the draft instead of extending it.    *)
SetForgetsDraft(r, f) ==
  /\ MayCall
  /\ drafts' = [drafts EXCEPT ![r] = Field(f, Id)]
  /\ calls' = Append(calls, Call("set", r, "running", Field(f, Id), f, None, Id))
  /\ requests' = Ask("get", Nothing)
  /\ UNCHANGED <<stored, screen, staged, photos, failures>>

(* recipe_set_title and recipe_set_description.                            *)
Set(r, f) ==
  /\ MayCall
  /\ LET draft == Over(Field(f, Id), drafts[r])
     IN  /\ drafts' = [drafts EXCEPT ![r] = draft]
         /\ calls' = Append(calls, Call("set", r, "running", draft, f, None, Id))
  /\ requests' = Ask("get", Nothing)
  /\ UNCHANGED <<stored, screen, staged, photos, failures>>

(* recipe_set_ingredients and recipe_set_directions up to their await.     *)
Edit(r, f, e) ==
  /\ MayCall
  /\ calls' = Append(calls, Call("edit", r, "running", drafts[r], f, e, None))
  /\ requests' = Ask("get", Nothing)
  /\ UNCHANGED <<drafts, stored, screen, staged, photos, failures>>

Save(r) ==
  /\ MayCall
  /\ calls' = Append(calls, Call("save", r, "running", drafts[r], None, None, None))
  /\ requests' = Ask("get", Nothing)
  /\ UNCHANGED <<drafts, stored, screen, staged, photos, failures>>

(* recipe_delete of the agent, and the bin on the screen.                  *)
Delete(r, tool) ==
  /\ MayCall
  /\ tool = "discard" => r \in list
  /\ calls' = Append(calls, Call(tool, r, "running", Nothing, None, None, None))
  /\ requests' = Ask("delete", Nothing)
  /\ UNCHANGED <<drafts, stored, screen, staged, photos, failures>>

StagePhoto ==
  /\ photos < MaxPhotos
  /\ photos' = photos + 1 /\ staged' = photos + 1
  /\ UNCHANGED <<drafts, stored, calls, requests, screen, failures>>

(* recipe_set_photo consumes the photo before anything else.               *)
SetPhoto(r) ==
  /\ MayCall
  /\ staged' = 0
  /\ IF staged = 0
     THEN /\ calls' = Append(calls, Call("photo", r, "refused", Nothing, None, None, None))
          /\ UNCHANGED requests
     ELSE /\ calls' = Append(calls, Call("photo", r, "running", Nothing, "photo", None, staged))
          /\ requests' = Ask("get", Nothing)
  /\ UNCHANGED <<drafts, stored, screen, photos, failures>>

(* recipe_load selects whatever id it is given, a click what is listed.    *)
Select(r, tool) ==
  /\ MayCall
  /\ tool = "click" => r \in list
  /\ calls' = Append(calls, Call(tool, r, "ok", Nothing, None, None, None))
  /\ selected' = r
  /\ UNCHANGED <<drafts, stored, requests, list, staged, photos, failures>>

-----------------------------------------------------------------------------
(* The store answers its oldest request.                                   *)
Then(kind, c, value) == <<[kind |-> kind, call |-> c, value |-> value]>>
Ends(c, state) == calls' = [calls EXCEPT ![c].state = state]

(* The handler writes with what it read as the base.                       *)
GoesOnToPut(c, value) ==
  /\ requests' = Tail(requests) \o Then("put", c, value)
  /\ UNCHANGED calls
EndsWithoutPut(c, state) ==
  /\ requests' = Tail(requests)
  /\ Ends(c, state)

(* Seeded fault: the setters write even if the recipe is not stored.       *)
IsStoredAlways(old) == TRUE
IsStored(old)       == old # Nothing

AfterRead(c) ==
  LET call == calls[c]
      r    == call.recipe
      old  == stored[r]
      base == IF old = Nothing THEN Blank ELSE old   \* as recipe_save and recipe_set_photo have it
  IN  CASE call.tool = "set" ->
             /\ IF IsStored(old) THEN GoesOnToPut(c, Over(call.seen, old))
                                 ELSE EndsWithoutPut(c, "ok")
             /\ UNCHANGED drafts
        [] call.tool = "edit" /\ Refused(call.field, call.edit) ->
             EndsWithoutPut(c, "refused") /\ UNCHANGED drafts
        [] call.tool = "edit" /\ ~Refused(call.field, call.edit) ->
             LET f       == call.field
                 current == Over(Over(call.seen, old), Blank)[f]
                 next    == Edited(f, call.edit, current, c)
                 draft   == Over(Field(f, next), call.seen)
             IN  /\ drafts' = [drafts EXCEPT ![r] = draft]
                 /\ calls' = [calls EXCEPT ![c].value = next,
                                           ![c].state = IF IsStored(old) THEN @ ELSE "ok"]
                 /\ requests' = Tail(requests) \o
                                  (IF IsStored(old) THEN Then("put", c, Over(draft, old)) ELSE <<>>)
        [] call.tool = "save" ->
             GoesOnToPut(c, Over(call.seen, base)) /\ UNCHANGED drafts
        [] call.tool = "photo" ->
             GoesOnToPut(c, Over(Field("photo", call.value), Over(drafts[r], base))) /\ UNCHANGED drafts

Read ==
  /\ requests # <<>> /\ Head(requests).kind = "get"
  /\ AfterRead(Head(requests).call)
  /\ UNCHANGED <<stored, screen, staged, photos, failures>>

(* Seeded fault: the mutation does not fire the event.                     *)
ReloadForgotten == <<>>
(* saveRecipe and deleteRecipe fire recipes-updated before they return.    *)
Reload == Then("load", 0, Nothing)

(* What the handlers do after their write: recipe_save deletes the draft,  *)
(* recipe_create selects the recipe.                                       *)
Written(c) ==
  LET tool == calls[c].tool
      r    == calls[c].recipe
  IN  /\ drafts' = [drafts EXCEPT ![r] = IF tool = "save" THEN Nothing ELSE @]
      /\ selected' = IF tool = "create" THEN r ELSE selected

Put ==
  /\ requests # <<>> /\ Head(requests).kind = "put"
  /\ LET c == Head(requests).call
     IN  /\ stored' = [stored EXCEPT ![calls[c].recipe] = Head(requests).value]
         /\ Written(c)
         /\ Ends(c, "ok")
  /\ requests' = Tail(requests) \o Reload
  /\ UNCHANGED <<list, staged, photos, failures>>

(* The write rejects, and nothing is loaded again: useLocalToolHandler     *)
(* answers with an error, deleteById catches it.                           *)
WriteFails ==
  /\ requests # <<>> /\ Head(requests).kind \in {"put", "delete"}
  /\ failures < MaxFailures
  /\ failures' = failures + 1
  /\ EndsWithoutPut(Head(requests).call, "failed")
  /\ UNCHANGED <<drafts, stored, screen, staged, photos>>

(* deleteById reads the list again itself.                                 *)
Deleted ==
  /\ requests # <<>> /\ Head(requests).kind = "delete"
  /\ LET c == Head(requests).call
         r == calls[c].recipe
     IN  /\ stored' = [stored EXCEPT ![r] = Nothing]
         /\ drafts' = [drafts EXCEPT ![r] = IF calls[c].tool = "delete" THEN Nothing ELSE @]
         /\ requests' = Tail(requests) \o Reload \o
                          (IF calls[c].tool = "discard" THEN Reload ELSE <<>>)
         /\ Ends(c, "ok")
  /\ UNCHANGED <<screen, staged, photos, failures>>

(* SET_RECIPES: a selection that is not listed falls back to the first     *)
(* recipe, that is the one written last, here any.                         *)
Load ==
  /\ requests # <<>> /\ Head(requests).kind = "load"
  /\ list' = Present
  /\ selected' \in IF selected \in Present THEN {selected}
                   ELSE IF Present = {} THEN {None} ELSE Present
  /\ requests' = Tail(requests)
  /\ UNCHANGED <<drafts, stored, calls, staged, photos, failures>>

Handlers ==
  \E r \in Recipes :
    \/ Create(r) \/ Save(r) \/ SetPhoto(r)
    \/ \E f \in Plain : Set(r, f)
    \/ \E f \in Lists, e \in Edits : Edit(r, f, e)
    \/ \E tool \in {"delete", "discard"} : Delete(r, tool)
    \/ \E tool \in {"load", "click"} : Select(r, tool)
Storage == Read \/ Put \/ Deleted \/ WriteFails \/ Load
Next == Handlers \/ StagePhoto \/ Storage

Spec == Init /\ [][Next]_vars

-----------------------------------------------------------------------------
IsRecord(v) ==
  /\ DOMAIN v \subseteq Plain \cup Lists \cup {"photo"}
  /\ \A f \in DOMAIN v : IF f \in Lists THEN v[f] \in Seq(Nat) /\ IsInjective(v[f])
                          ELSE v[f] \in Nat

(* Drafts and recipes hold fields, numbers in plain ones and sequences in  *)
(* lists, where no text is twice; the calls that run are those that have a *)
(* request with the store.                                                 *)
TypeOK ==
  /\ \A r \in Recipes : IsRecord(drafts[r]) /\ IsRecord(stored[r])
  /\ list \subseteq Recipes /\ selected \in Recipes \cup {None}
  /\ staged \in 0..photos /\ photos \in 0..MaxPhotos /\ failures \in 0..MaxFailures
  /\ \A c \in DOMAIN calls :
       (c \in Running) <=> (\E i \in DOMAIN requests : requests[i].call = c)

(* A call is alone when no other call on its recipe ran beside it.         *)
Alone(c) == calls[c].behind = {} /\ \A d \in DOMAIN calls : c \notin calls[d].behind

Undoes(d, f) == \/ calls[d].tool \in {"delete", "discard"}
                \/ calls[d].field = f /\ calls[d].state # "refused"
Kept(c) == LET f == calls[c].field
               v == View(calls[c].recipe)
           IN  f \in DOMAIN v /\ v[f] = calls[c].value
Standing(c) == /\ calls[c].state = "ok" /\ calls[c].field # None
               /\ \A d \in On(calls[c].recipe) : d > c => ~Undoes(d, calls[c].field)

(* An edit that was confirmed while no other call on its recipe ran is     *)
(* what the agent and, after recipe_save, the store show, until a later    *)
(* call replaces it: whatever else runs at once afterwards, and whichever  *)
(* writes fail (useRecipeTools.ts:128-379).  A removal is a later call     *)
(* even if it fails.                                                       *)
SoloEditsSurvive == \A c \in DOMAIN calls : Standing(c) /\ Alone(c) => Kept(c)

(* The same of every confirmed edit of a recipe nobody deletes: the agent  *)
(* "can call the setter tools freely before committing with recipe_save"   *)
(* (useRecipeTools.ts:18).                                                 *)
EditsSurvive ==
  \A c \in DOMAIN calls :
    /\ Standing(c)
    /\ \A d \in On(calls[c].recipe) : calls[d].tool \notin {"delete", "discard"}
    => Kept(c)

(* A recipe on which only setters are called after its deletion began      *)
(* stays deleted: they write to the store what they found there and        *)
(* nothing else.  The exception is a call that had still to read when the  *)
(* deletion began: it finds the recipe, and writes it back behind the      *)
(* deletion (useRecipeTools.ts:160, 171, 230, 306, 345).                   *)
SettersOnlyAfter(c) ==
  /\ calls[c].tool \in {"delete", "discard"} /\ calls[c].state = "ok"
  /\ \A d \in On(calls[c].recipe) : d > c => calls[d].tool \in {"set", "edit", "delete", "discard", "load"}
SettersNeverResurrect ==
  \A c \in DOMAIN calls :
    SettersOnlyAfter(c) /\ calls[c].reading = {} => calls[c].recipe \notin Present

(* When no reload is outstanding the screen lists what is stored, and a    *)
(* recipe the agent created stays selected until something else is chosen  *)
(* or the recipe is deleted: the selection precedes the reload that lists  *)
(* it (db/recipes.ts:60, RecipeContext.tsx:52, useRecipeTools.ts:148).     *)
ScreenFollowsStorage ==
  /\ (\A i \in DOMAIN requests : requests[i].kind # "load") => list = Present
  /\ \A c \in DOMAIN calls :
       /\ calls[c].tool = "create" /\ calls[c].state = "ok"
       /\ \A d \in DOMAIN calls : d > c => calls[d].tool \notin {"create", "load", "click", "delete", "discard"}
       => selected = calls[c].recipe
=============================================================================
