----------------------------- MODULE IntakeForm -----------------------------
(***************************************************************************)
(* The intake of one report in one tab: the steps of the form              *)
(* (apps/web/src/intake/intake-form.tsx), what Continue sends              *)
(* (connected-intake.tsx, intake-client.ts) and the intent on the server   *)
(* (Drafts has its repository; here it is one record).                     *)
(*                                                                         *)
(* Answers and requests are lost, the page is loaded again in the middle   *)
(* of a request, and a deployment may change the privacy notice.  Names    *)
(* are values with the places of their Ys; e-mail, analytics and marketing *)
(* choices are left out, billing is not asked for here.  A version is only *)
(* compared with the server's: "fresh" says that they agree.               *)
(***************************************************************************)
EXTENDS Naturals, Sequences, FiniteSets, SequencesExt

CONSTANTS Fields,      \* birthName and currentName
          Texts(_),    \* what may be typed into a field
          Spellings,   \* Latin spellings to calculate with
          NonLatin,    \* the texts that need one
          YPlaces(_),  \* where a text or a spelling has a Y
          Unfilled,    \* an empty field
          MaxEdits,    \* bound on edits
          MaxFailures  \* bound on lost answers and reloads

Steps == <<"name", "birth-date", "delivery", "review", "preview">>
Classes == {"vowel", "consonant"}

VARIABLES
  values,     \* the answers in the form
  requested,  \* requestedStep, as a place in Steps
  current,    \* the intent the client knows; NoIntent
  addressed,  \* the page's address names the intent
  sent,       \* the request it waits for (saving); NoRequest
  orphan,     \* a request of a page that was left
  shownPreview, \* the answers the shown preview was calculated from; NoAnswers
  server,     \* the intent on the server; NoIntent
  notice,     \* the privacy notice the site shows
  chosen,     \* history: the classes the customer chose, by field and place
  edits, failures

formVars == <<values, requested, current, addressed, sent, orphan, shownPreview, server, notice, chosen,
              edits, failures>>

NoAnswers == <<>>
NoIntent == [status |-> "none", fresh |-> TRUE, draft |-> NoAnswers]
NoRequest == [op |-> "none", fresh |-> TRUE, body |-> NoAnswers, stage |-> "none"]
EmptyName == [text |-> Unfilled, spelling |-> Unfilled, confirmed |-> FALSE, ys |-> <<>>]
EmptyValues == [names |-> [f \in Fields |-> EmptyName], date |-> "none", consent |-> FALSE]

FormInit ==
  /\ values = EmptyValues /\ requested = 1
  /\ current = NoIntent /\ addressed = FALSE /\ sent = NoRequest /\ orphan = NoRequest
  /\ shownPreview = NoAnswers
  /\ server = NoIntent
  /\ notice = 1
  /\ chosen = {} /\ edits = 0 /\ failures = 0

-----------------------------------------------------------------------------
(* The steps.                                                              *)

\* yOccurrences: of the spelling where one is needed, of the text elsewhere.
CalculatedText(name) == IF name.text \in NonLatin THEN name.spelling ELSE name.text
Occurrences(name) == IF CalculatedText(name) = Unfilled THEN {} ELSE YPlaces(CalculatedText(name))

NameComplete(name) ==
  /\ name.text # Unfilled
  /\ name.text \in NonLatin => name.spelling # Unfilled /\ name.confirmed
  /\ Occurrences(name) \subseteq DOMAIN name.ys

\* stepIsComplete
StepIsComplete(s) ==
  CASE Steps[s] = "name" -> \A f \in Fields : NameComplete(values.names[f])
    [] Steps[s] = "birth-date" -> values.date = "adult"
    [] Steps[s] = "delivery" -> values.consent
    [] OTHER -> TRUE

\* The step shown: the first incomplete one before the requested one.
SafeRequested == IF Steps[requested] = "preview" /\ shownPreview = NoAnswers THEN 4 ELSE requested
Step == LET open == {s \in 1 .. SafeRequested - 1 : ~StepIsComplete(s)}
        IN IF open = {} THEN SafeRequested ELSE Min(open)

Saving == sent # NoRequest
Completed == current.status \notin {"none", "draft"}
Locked == current.status = "checkout_created"
Editable(step) == ~Saving /\ ~Locked /\ Steps[Step] = step /\ edits < MaxEdits

-----------------------------------------------------------------------------
(* The customer.                                                           *)

SetName(f, name) ==
  /\ values' = [values EXCEPT !.names[f] = name]
  /\ edits' = edits + 1
  /\ UNCHANGED <<requested, current, addressed, sent, orphan, shownPreview, server, notice, failures>>

\* Another text or spelling leaves the other answers about the name as they are.
TypeName(f) ==
  /\ Editable("name")
  /\ \E t \in Texts(f) \ {values.names[f].text} :
       SetName(f, [values.names[f] EXCEPT !.text = t])
  /\ UNCHANGED chosen
TypeSpelling(f) ==
  /\ Editable("name") /\ values.names[f].text \in NonLatin
  /\ \/ \E t \in Spellings \ {values.names[f].spelling} :
          SetName(f, [values.names[f] EXCEPT !.spelling = t])
     \/ SetName(f, [values.names[f] EXCEPT !.confirmed = ~@])
  /\ UNCHANGED chosen

With(ys, place, class) ==
  [p \in DOMAIN ys \cup {place} |-> IF p = place THEN class ELSE ys[p]]
\* Mutant: the radio buttons of one name set the class of the other.
ChooseClass_OtherField(f, place, class) ==
  LET other == CHOOSE g \in Fields : g # f \/ Cardinality(Fields) = 1 IN
  /\ Editable("name") /\ place \in Occurrences(values.names[f])
  /\ SetName(other, [values.names[other] EXCEPT !.ys = With(@, place, class)])
  /\ chosen' = chosen \cup {<<f, place, class>>}
ChooseClass(f, place, class) ==
  /\ Editable("name") /\ place \in Occurrences(values.names[f])
  /\ SetName(f, [values.names[f] EXCEPT !.ys = With(@, place, class)])
  /\ chosen' = chosen \cup {<<f, place, class>>}

Answer ==
  /\ \/ /\ Editable("birth-date")
        /\ \E d \in {"adult", "minor"} \ {values.date} : values' = [values EXCEPT !.date = d]
     \/ Editable("delivery") /\ values' = [values EXCEPT !.consent = ~@]
  /\ edits' = edits + 1
  /\ UNCHANGED <<requested, current, addressed, sent, orphan, shownPreview, server, notice, chosen, failures>>

\* Mutant: Back is offered as long as there is no preview.
Back_Completed ==
  /\ ~Saving /\ ~Locked /\ Step > 1 /\ shownPreview = NoAnswers
  /\ requested' = Step - 1
  /\ UNCHANGED <<values, current, addressed, sent, orphan, shownPreview, server, notice, chosen, edits, failures>>
\* The Back button, and the finished steps of the progress bar.
Back ==
  /\ ~Saving /\ ~Locked /\ ~Completed /\ shownPreview = NoAnswers
  /\ requested' \in 1 .. Step - 1
  /\ UNCHANGED <<values, current, addressed, sent, orphan, shownPreview, server, notice, chosen, edits, failures>>

Request(op, fresh, body) == [op |-> op, fresh |-> fresh, body |-> body, stage |-> "sent"]
\* valuesToPatch: names that were filled in, with the spelling where one is needed.
ToPatch ==
  [names |-> [f \in Fields |->
     LET name == values.names[f] IN
     IF name.text \in NonLatin THEN name
     ELSE [name EXCEPT !.spelling = Unfilled, !.confirmed = FALSE]],
   date |-> values.date, consent |-> IF values.consent THEN notice ELSE 0]

\* advance(), up to the request it sends, if it sends one.
Continue ==
  /\ ~Saving /\ ~Locked /\ Step < 5 /\ StepIsComplete(Step)
  /\ IF Steps[Step] = "review" \/ (~Completed /\ values.consent)
     THEN /\ sent' = IF Steps[Step] # "review"
                     THEN IF current = NoIntent THEN Request("create", TRUE, ToPatch)
                          ELSE Request("patch", current.fresh, ToPatch)
                     ELSE IF Completed THEN Request("preview", TRUE, NoAnswers)
                          ELSE Request("complete", current.fresh, ToPatch)
          /\ UNCHANGED requested
     ELSE requested' = Step + 1 /\ UNCHANGED sent
  /\ UNCHANGED <<values, current, addressed, orphan, shownPreview, server, notice, chosen, edits, failures>>

\* A new intake; the old intent and the requests about it are out of sight.
NewIntake ==
  /\ values' = EmptyValues /\ requested' = 1 /\ shownPreview' = NoAnswers /\ chosen' = {}
  /\ current' = NoIntent /\ addressed' = FALSE /\ server' = NoIntent /\ orphan' = NoRequest

\* clearProgress
StartOver ==
  /\ ~Saving /\ ~Locked /\ Steps[Step] = "preview"
  /\ NewIntake
  /\ UNCHANGED <<sent, notice, edits, failures>>

-----------------------------------------------------------------------------
(* The server.                                                             *)

\* The intent after a request, or the intent unchanged when it is refused.
Served(r) ==
  CASE r.op = "create" /\ server = NoIntent -> [NoIntent EXCEPT !.status = "draft"]
    [] r.op = "patch" /\ server.status = "draft" /\ r.fresh ->
         [server EXCEPT !.draft = r.body]
    [] r.op = "complete" /\ server.status = "draft" /\ r.fresh
         /\ \A f \in Fields : NameComplete(r.body.names[f]) ->
         [server EXCEPT !.status = "complete", !.draft = r.body]
    [] OTHER -> server
\* create is replayed with its key; preview reads a completed intent.
Accepted(r) ==
  CASE r.op = "create" -> server.status \in {"none", "draft"}
    [] r.op = "preview" -> server.status \notin {"none", "draft"}
    [] OTHER -> server.status = "draft" /\ r.fresh
                /\ (r.op = "complete" => \A f \in Fields : NameComplete(r.body.names[f]))
Stale(x) == IF x \in {NoIntent, NoRequest} THEN x ELSE [x EXCEPT !.fresh = FALSE]

\* The answer carries the intent; complete() also refuses what the engine cannot
\* read.  A change makes every other version held a stale one.
Serve ==
  /\ sent.stage = "sent"
  /\ \/ /\ Accepted(sent)
        /\ server' = Served(sent)
        /\ sent' = [sent EXCEPT !.stage = "accepted", !.fresh = TRUE]
        /\ IF sent.op = "preview" THEN UNCHANGED <<current, orphan>>
           ELSE current' = Stale(current) /\ orphan' = Stale(orphan)
     \/ /\ ~Accepted(sent) \/ sent.op = "complete"
        /\ sent' = [sent EXCEPT !.stage = "refused"]
        /\ UNCHANGED <<server, current, orphan>>
  /\ UNCHANGED <<values, requested, addressed, shownPreview, notice, chosen, edits, failures>>

\* A request of a page that was left reaches the server, or does not.
ServeOrphan ==
  /\ orphan # NoRequest
  /\ \/ /\ Accepted(orphan) /\ orphan.op # "preview"
        /\ server' = Served(orphan)
        /\ current' = Stale(current) /\ sent' = Stale(sent)
     \/ UNCHANGED <<server, current, sent>>
  /\ orphan' = NoRequest
  /\ UNCHANGED <<values, requested, addressed, shownPreview, notice, chosen, edits, failures>>

CheckoutOpens ==
  /\ shownPreview # NoAnswers /\ server.status = "complete"
  /\ server' = [server EXCEPT !.status = "checkout_created"]
  /\ UNCHANGED <<values, requested, current, addressed, sent, orphan, shownPreview, notice, chosen, edits, failures>>

NoticeChanges ==
  /\ notice = 1 /\ notice' = 2
  /\ UNCHANGED <<values, requested, current, addressed, sent, orphan, shownPreview, server, chosen, edits, failures>>

-----------------------------------------------------------------------------
(* Answers.                                                                *)

\* The awaits of advance(): create is followed by patch, complete by preview.
AnswerArrives ==
  /\ sent.stage = "accepted"
  /\ current' = IF sent.op = "preview" THEN current
                ELSE [server EXCEPT !.fresh = sent.fresh, !.draft = NoAnswers]
  /\ sent' = CASE sent.op = "create" -> Request("patch", sent.fresh, sent.body)
               [] sent.op = "complete" -> Request("preview", TRUE, NoAnswers)
               [] OTHER -> NoRequest
  /\ shownPreview' = IF sent.op = "preview" THEN server.draft ELSE shownPreview
  /\ requested' = IF sent.op \in {"patch", "preview"} THEN Step + 1 ELSE requested
  /\ addressed' = (addressed \/ sent.op = "patch")
  /\ UNCHANGED <<values, orphan, server, notice, chosen, edits, failures>>

Refused ==
  /\ sent.stage = "refused"
  /\ sent' = NoRequest
  /\ UNCHANGED <<values, requested, current, addressed, orphan, shownPreview, server, notice, chosen, edits, failures>>

\* The request or its answer is lost.
Lost ==
  /\ Saving /\ failures < MaxFailures
  /\ sent' = NoRequest /\ failures' = failures + 1
  /\ UNCHANGED <<values, requested, current, addressed, orphan, shownPreview, server, notice, chosen, edits>>

\* draftToValues; consent to another notice is asked for again.
FromDraft(draft) ==
  IF draft = NoAnswers THEN EmptyValues
  ELSE [names |-> draft.names, date |-> draft.date, consent |-> draft.consent = notice]

\* The page is loaded again.  Its address names the intent once a save was answered; a
\* completed one is shown with its preview or not at all.
Reload ==
  /\ failures < MaxFailures /\ failures' = failures + 1
  /\ sent' = NoRequest
  /\ IF ~addressed THEN NewIntake
     ELSE /\ IF sent.stage = "sent" THEN orphan = NoRequest /\ orphan' = sent ELSE UNCHANGED orphan
          /\ values' = FromDraft(server.draft)
          /\ current' = [server EXCEPT !.draft = NoAnswers]
          /\ shownPreview' = IF server.status = "draft" THEN NoAnswers ELSE server.draft
          /\ requested' \in IF server.status = "draft" THEN 1 .. 5 ELSE {5}
          /\ UNCHANGED <<addressed, server, chosen>>
  /\ UNCHANGED <<notice, edits>>

FormNext ==
  \/ \E f \in Fields : \/ TypeName(f) \/ TypeSpelling(f)
                       \/ \E p \in Occurrences(values.names[f]), c \in Classes : ChooseClass(f, p, c)
  \/ Answer \/ Back \/ Continue \/ StartOver
  \/ Serve \/ ServeOrphan \/ CheckoutOpens \/ NoticeChanges
  \/ AnswerArrives \/ Refused \/ Lost \/ Reload

FormSpec == FormInit /\ [][FormNext]_formVars

-----------------------------------------------------------------------------
(* Properties.                                                             *)

\* The preview offered for sale was calculated from the names and the birth date
\* the form shows, whatever was lost, retried, edited or reloaded on the way.
ReviewedIsCalculated ==
  Steps[Step] = "preview" /\ shownPreview # NoAnswers =>
    /\ shownPreview.date = values.date
    /\ \A f \in Fields : /\ shownPreview.names[f].text = values.names[f].text
                         /\ CalculatedText(shownPreview.names[f]) = CalculatedText(values.names[f])
                         /\ \A p \in Occurrences(values.names[f]) :
                              shownPreview.names[f].ys[p] = values.names[f].ys[p]

\* A completed intake counts a Y as the customer once chose for that place of
\* that name, and was completed with every answer the form asks for.
CompletedWasAnswered ==
  server.status \notin {"none", "draft"} =>
    /\ server.draft.date = "adult" /\ server.draft.consent > 0
    /\ \A f \in Fields :
         /\ NameComplete(server.draft.names[f])
         /\ \A p \in Occurrences(server.draft.names[f]) :
              <<f, p, server.draft.names[f].ys[p]>> \in chosen
=============================================================================
