---------------------------- MODULE InquiryForms ----------------------------
(***************************************************************************)
(* The inquiry form of a public page: publicInquiryForms and the hand-over *)
(* of typed text between two renderings of it (inquiryContinuity). The     *)
(* host may render the page anew at any moment, also while a form is being *)
(* sent; records of that wait for the observers of the form runtime        *)
(* (records) and of the page (due).                                        *)
(***************************************************************************)
EXTENDS Naturals, FiniteSets

CONSTANTS Markups,     \* compiled forms: what inquiryIdentity tells apart at first
          FirstMarkup, \* the one the page is opened with
          Texts,       \* what a visitor types
          MaxForms,    \* bound on the nodes the host puts in the document
          MaxPresses   \* bound on the presses of the submit button

ASSUME InquiryFormsAssumption ==
    /\ FirstMarkup \in Markups /\ "altered" \notin Markups
    /\ MaxForms \in Nat \ {0} /\ MaxPresses \in Nat

VARIABLES form,      \* the nodes, and the one that is in the document (0: none)
          mount,     \* the InquiryMount
          retired,   \* the InquiryDraft that waits for the next boot
          sending,   \* submissions that wait for an answer
          inbox,     \* texts the server has accepted
          typed      \* what the visitor may expect in the form, for the properties

inquiryVars == <<form, mount, retired, sending, inbox, typed>>
-----------------------------------------------------------------------------
NoText == "no text"
AnyText == Texts \cup {NoText}
FormNodes == 1 .. MaxForms

\* The identity of a form that the runtime has written into: a mount fills the hidden
\* inputs (the time it starts), which no compiled form has filled, and sending leaves a
\* message.
Altered == "altered"
Identities == Markups \cup {Altered}

\* written: the form that is in the document has been mounted before.
Form == [at : 0 .. MaxForms, made : FormNodes, markup : [FormNodes -> Markups],
         text : [FormNodes -> AnyText], disabled : [FormNodes -> BOOLEAN],
         removed : SUBSET FormNodes, written : BOOLEAN, due : BOOLEAN]

\* node 0: nothing is mounted. identity: of the form as it was found. job: the
\* submission it waits for, 0 for none.
Mount == [node : 0 .. MaxForms, identity : Identities, job : 0 .. MaxPresses, presses : 0 .. MaxPresses]

NoDraft == [identity |-> NoText, text |-> NoText]
Draft == {NoDraft} \cup [identity : Identities, text : Texts]

Sending == [job : 1 .. MaxPresses, node : FormNodes, text : AnyText,
            at : {"csrf", "post", "accepted", "refused"}]

InquiryInit ==
    /\ form = [at |-> 1, made |-> 1, markup |-> [n \in FormNodes |-> FirstMarkup],
               text |-> [n \in FormNodes |-> NoText],
               disabled |-> [n \in FormNodes |-> FALSE], removed |-> {},
               written |-> TRUE, due |-> FALSE]
    /\ mount = [node |-> 1, identity |-> FirstMarkup, job |-> 0, presses |-> 0]
    /\ retired = NoDraft /\ sending = {} /\ inbox = {} /\ typed = NoDraft
-----------------------------------------------------------------------------
\* Mutated: the draft of a form that is being sent is kept like any other.
DraftOfAny(f, m) == IF f.text[m.node] = NoText THEN NoDraft
                    ELSE [identity |-> m.identity, text |-> f.text[m.node]]

\* draft(): nothing while it is being sent, nothing when nothing was typed.
DraftOf(f, m) == IF m.job # 0 \/ f.text[m.node] = NoText THEN NoDraft
                 ELSE [identity |-> m.identity, text |-> f.text[m.node]]

\* Mutated: dispose leaves the button as it is.
ReleasedButton(f, m) == f

\* dispose(): a button that waits for an answer is given back.
Released(f, m) == IF m.job = 0 THEN f ELSE [f EXCEPT !.disabled[m.node] = FALSE]

\* reconcile: [form, mount, retired] once the records have been looked at. A node
\* that is not in the document any more leaves its draft.
ReconciledForm ==
    LET seen == [form EXCEPT !.removed = {}]
    IN  IF mount.node = 0 \/ (mount.node \notin form.removed /\ form.at = mount.node)
        THEN [form |-> seen, mount |-> mount, retired |-> retired]
        ELSE [form |-> Released(seen, mount), mount |-> [mount EXCEPT !.node = 0, !.job = 0],
              retired |-> IF form.at = mount.node THEN retired ELSE DraftOf(form, mount)]

\* Mutated: a draft goes into whatever form comes next.
RestoresAny(s) == s.retired # NoDraft

\* inquiryIdentity of the form that is in the document.
InquiryIdentity(f) == IF f.written THEN Altered ELSE f.markup[f.at]

\* The same compiled form, at the same address. No two that were written into are alike.
Restores(s) == /\ s.retired # NoDraft /\ s.retired.identity # Altered
               /\ s.retired.identity = InquiryIdentity(s.form)

\* bootInquiryForms, after a reconciliation: mount what is there as it is found, and
\* write into it; drop the draft. The nodes that have left the document are forgotten.
BootedForm(s) ==
    LET mounts == s.form.at # 0 /\ s.mount.node # s.form.at
        own == [n \in FormNodes |-> IF n = s.form.at THEN s.form.text[n] ELSE NoText]
        text == IF mounts /\ Restores(s) THEN [own EXCEPT ![s.form.at] = s.retired.text] ELSE own
    IN  [form |-> [s.form EXCEPT !.text = text, !.due = FALSE,
                                 !.written = @ \/ mounts],
         mount |-> IF mounts THEN [s.mount EXCEPT !.node = s.form.at,
                                                  !.identity = InquiryIdentity(s.form)]
                   ELSE s.mount,
         retired |-> NoDraft]

TakesForm(s) == form' = s.form /\ mount' = s.mount /\ retired' = s.retired

\* current(): after a reconciliation the submission is the one the mount waits for.
CurrentForm(c, s) == s.mount.node = c.node /\ s.mount.job = c.job
-----------------------------------------------------------------------------
\* The visitor may expect his text in another rendering: not of a form that is being
\* sent, nor of one that the host has moved (it was mounted again since, as it had
\* been written into), nor of one that is not mounted and has left no draft.
HandsOver == IF mount.node = 0 THEN retired # NoDraft /\ retired.identity # Altered
             ELSE mount.job = 0 /\ mount.identity # Altered

\* The host renders the page anew, in one task.
HostReplacesForm(m) ==
    /\ form.at # 0 /\ form.made < MaxForms
    /\ form' = [form EXCEPT !.at = form.made + 1, !.made = @ + 1,
                            !.markup[form.made + 1] = m,
                            !.removed = @ \cup {form.at}, !.written = FALSE, !.due = TRUE]
    /\ typed' = IF HandsOver THEN typed ELSE NoDraft
    /\ UNCHANGED <<mount, retired, sending, inbox>>

\* The host takes the form out (and puts one in again in a later task).
HostRemovesForm ==
    /\ form.at # 0 /\ form.made < MaxForms
    /\ form' = [form EXCEPT !.at = 0, !.removed = @ \cup {form.at}, !.due = TRUE]
    /\ typed' = NoDraft
    /\ UNCHANGED <<mount, retired, sending, inbox>>

HostInsertsForm ==
    /\ form.at = 0 /\ form.removed = {} /\ ~form.due /\ form.made < MaxForms
    /\ form' = [form EXCEPT !.at = form.made + 1, !.made = @ + 1,
                            !.written = FALSE, !.due = TRUE]
    /\ UNCHANGED <<mount, retired, sending, inbox, typed>>

\* The node is taken out and put back.
HostMovesForm ==
    /\ form.at # 0 /\ form.at \notin form.removed
    /\ form' = [form EXCEPT !.removed = @ \cup {form.at}, !.due = TRUE]
    /\ UNCHANGED <<mount, retired, sending, inbox, typed>>

\* The observers run, in the microtasks of the task that changed the document.
FormObserversRun ==
    /\ form.due
    /\ TakesForm(BootedForm(ReconciledForm))
    /\ typed' = IF form.at # 0 /\ form.markup[form.at] = typed.identity THEN typed ELSE NoDraft
    /\ UNCHANGED <<sending, inbox>>

Type(t) ==
    /\ form.at # 0 /\ ~form.due /\ t # form.text[form.at]
    /\ form' = [form EXCEPT !.text[form.at] = t]
    /\ typed' = [identity |-> form.markup[form.at], text |-> t]
    /\ UNCHANGED <<mount, retired, sending, inbox>>

\* The handler of "submit": a snapshot of the fields, and the session's cookie first.
Press ==
    /\ form.at # 0 /\ ~form.due /\ mount.node = form.at /\ mount.job = 0
    /\ ~form.disabled[form.at] /\ form.text[form.at] # NoText
    /\ mount.presses < MaxPresses
    /\ mount' = [mount EXCEPT !.job = mount.presses + 1, !.presses = @ + 1]
    /\ form' = [form EXCEPT !.disabled[form.at] = TRUE]
    /\ sending' = sending \cup {[job |-> mount.presses + 1, node |-> form.at,
                                 text |-> form.text[form.at], at |-> "csrf"]}
    /\ UNCHANGED <<retired, inbox, typed>>

\* finally: the button comes back.
EndedForm(s) == [form |-> [s.form EXCEPT !.disabled[s.mount.node] = FALSE],
                 mount |-> [s.mount EXCEPT !.job = 0], retired |-> s.retired]

\* The cookie is there, or not; a form that is gone is not sent any more.
CsrfAnswered(c, ok) ==
    /\ c \in sending /\ c.at = "csrf"
    /\ LET s == ReconciledForm
       IN  IF ~CurrentForm(c, s) THEN TakesForm(s) /\ sending' = sending \ {c}
           ELSE IF ~ok THEN TakesForm(EndedForm(s)) /\ sending' = sending \ {c}
           ELSE TakesForm(s) /\ sending' = (sending \ {c}) \cup {[c EXCEPT !.at = "post"]}
    /\ UNCHANGED <<inbox, typed>>

\* The server accepts the inquiry or refuses it; its answer may be lost.
ServerHandlesInquiry(c, at) ==
    /\ c \in sending /\ c.at = "post" /\ at \in {"accepted", "refused"}
    /\ \/ at = "accepted" /\ inbox' = inbox \cup {c.text}
       \/ at = "refused" /\ UNCHANGED inbox
       \/ at = "refused" /\ inbox' = inbox \cup {c.text}
    /\ sending' = (sending \ {c}) \cup {[c EXCEPT !.at = at]}
    /\ UNCHANGED <<form, mount, retired, typed>>

\* Mutated: the form is emptied when its inquiry has been accepted.
EmptiedAlways(c, s) == TRUE

\* sameSubmission: nothing was typed since.
Emptied(c, s) == s.form.text[c.node] = c.text

InquiryAnswered(c) ==
    /\ c \in sending /\ c.at \in {"accepted", "refused"}
    /\ sending' = sending \ {c}
    /\ LET s == ReconciledForm
           ended == IF CurrentForm(c, s) THEN EndedForm(s) ELSE s
           empties == CurrentForm(c, s) /\ c.at = "accepted" /\ Emptied(c, s)
       IN  /\ form' = IF empties THEN [ended.form EXCEPT !.text[c.node] = NoText] ELSE ended.form
           /\ mount' = ended.mount /\ retired' = ended.retired
           /\ typed' = IF empties /\ typed.text = c.text THEN NoDraft ELSE typed
    /\ UNCHANGED inbox
-----------------------------------------------------------------------------
FormAnswers(c) == \/ InquiryAnswered(c)
                  \/ \E ok \in BOOLEAN : CsrfAnswered(c, ok)
                  \/ \E at \in {"accepted", "refused"} : ServerHandlesInquiry(c, at)

InquiryNext ==
    \/ HostRemovesForm \/ HostInsertsForm \/ HostMovesForm \/ FormObserversRun \/ Press
    \/ \E m \in Markups : HostReplacesForm(m)
    \/ \E t \in Texts : Type(t)
    \/ \E c \in sending : FormAnswers(c)

\* Observers run and requests end.
InquiryFairness == WF_inquiryVars(FormObserversRun)
                   /\ WF_inquiryVars(\E c \in sending : FormAnswers(c))

InquirySpec == InquiryInit /\ [][InquiryNext]_inquiryVars /\ InquiryFairness
-----------------------------------------------------------------------------
(* Properties *)

\* Every variable keeps its type.
InquiryTypeOK == /\ form \in Form /\ mount \in Mount /\ retired \in Draft
                 /\ sending \subseteq Sending /\ inbox \subseteq Texts /\ typed \in Draft

\* What the visitor has typed is in the form, wherever the host moves it, and in every
\* rendering of the same form that takes its place while it is not being sent and has
\* not been moved before, until the server has accepted just that; and a form never
\* shows what was typed into a different one.
TypedTextIsKept ==
    ~form.due /\ form.at # 0 =>
        form.text[form.at] = typed.text

\* The text of a form disappears at an answer only when the server has it.
OnlyAcceptedIsCleared ==
    [][\A c \in sending :
          InquiryAnswered(c) /\ form'.text[c.node] # form.text[c.node]
              => form.text[c.node] \in inbox]_inquiryVars

\* The button of the form that is shown does not stay disabled.
ButtonComesBack == []<>(form.at = 0 \/ ~form.disabled[form.at])
=============================================================================
