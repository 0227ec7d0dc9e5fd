---------------------------- MODULE PromptInput ----------------------------
(***************************************************************************)
(* The chat's input (components/ai-elements/prompt-input.tsx) as the chat  *)
(* panel uses it: text, attached files with the browser's object URLs for  *)
(* them, screenshots, and submissions, which convert every file before     *)
(* they hand the message on.  With a PromptInputProvider around it, text   *)
(* and files live in the provider and outlive the input.                   *)
(*                                                                         *)
(* React renders what an event of the user changed before the next one, so *)
(* a handler sees the state as it is; a continuation behind an await sees  *)
(* it as it was, unless it goes through a state updater.  Updates of a     *)
(* component that is gone change nothing that is shown, but their updater  *)
(* may still run: React calls it at once when the hook has no update       *)
(* waiting, before it looks for what to render.                            *)
(***************************************************************************)
EXTENDS Naturals, Sequences, FiniteSetsExt, Functions

CONSTANTS
    Submission, Shot,   \* submissions and screenshots under way at once
    Batch,              \* what is offered at once: a sequence of kinds of files
    MaxFiles,           \* the property of that name
    MaxUrls, MaxTexts,  \* files attached and texts typed in all
    MaxInstances        \* times the input is mounted

ASSUME InputAssumption ==
    /\ IsFiniteSet(Submission)
    /\ Batch \subseteq Seq({"good", "other type", "too large", "no file"})
    /\ {MaxFiles, MaxUrls, MaxTexts} \subseteq Nat /\ MaxInstances \in Nat \ {0}

Url == 1 .. MaxUrls
Text == 0 .. MaxTexts       \* 0 is no text

VARIABLES
    provider,           \* is there a provider?
    mounted, alive,     \* the input, and the page with its provider
    instance,           \* the input's number: each mounting makes a new one
    files, text,        \* attached (their URLs) and typed
    urls, made,         \* the browser's live object URLs; those made so far
    submits, shots, screens,    \* under way; screens that are being recorded
    sent,               \* how often the chat panel sent each text
    typed,              \* texts typed so far
    dropped,            \* history: texts that went with the input
    late                \* history: URLs made for an input that was gone

box == <<files, text>>
tree == <<provider, mounted, alive, instance>>
vars == <<tree, box, urls, made, late, submits, shots, screens, sent, typed, dropped>>

Idle == [at |-> "idle"]
Often == 2      \* bound of what "sent" counts: twice or more

TypeOK ==
    /\ provider \in BOOLEAN /\ mounted \in BOOLEAN /\ alive \in BOOLEAN
    /\ mounted => alive
    /\ instance \in 1 .. MaxInstances
    /\ files \subseteq Url /\ text \in Text
    /\ urls \subseteq 1 .. made /\ made \in 0 .. MaxUrls /\ late \subseteq urls
    /\ \A s \in Submission : submits[s].at \in {"idle", "converting", "waiting"}
    /\ \A q \in Shot : shots[q].at \in {"idle", "asking", "recording"}
    /\ screens \subseteq Shot
    /\ sent \in [Text \ {0} -> 0 .. Often]

Init ==
    /\ provider \in BOOLEAN
    /\ mounted = TRUE /\ alive = TRUE /\ instance = 1
    /\ files = {} /\ text = 0
    /\ urls = {} /\ made = 0 /\ late = {}
    /\ submits = [s \in Submission |-> Idle]
    /\ shots = [q \in Shot |-> Idle] /\ screens = {}
    /\ sent = [t \in Text \ {0} |-> 0]
    /\ typed = 0 /\ dropped = {}

\* Does an update of the files by this instance of the input have an effect?
Updates(of) == IF provider THEN alive ELSE mounted /\ of = instance

-----------------------------------------------------------------------------
(* Attachments *)

matchesAccept(kind) == kind # "other type"
withinSize(kind) == kind # "too large"

\* With nothing left onError is called, with too many left the rest is cut off.
Sized(batch) ==
    Cardinality({i \in DOMAIN batch : matchesAccept(batch[i]) /\ withinSize(batch[i])})
Capacity == IF Cardinality(files) < MaxFiles THEN MaxFiles - Cardinality(files) ELSE 0

NewUrls(n) == made + 1 .. made + n

createObjectURLs(n) ==
    /\ made + n <= MaxUrls
    /\ made' = made + n
    /\ urls' = urls \cup NewUrls(n)

AttachNew(n) == createObjectURLs(n) /\ files' = files \cup NewUrls(n) /\ UNCHANGED late

\* Mutant: the capacity is the one of the last rendering here as well.
addLocal_Stale(batch, room) == AttachNew(Min({Sized(batch), room}))

\* The capacity is computed in the updater, from the files as they are by then.
addLocal(batch, room) == AttachNew(Min({Sized(batch), Capacity}))

\* The capacity is computed from the number of files when "add" was rendered.
addWithProviderValidation(batch, room) == AttachNew(Min({Sized(batch), room}))

\* The updater is what makes the URLs.  For an input (or a provider) that is gone
\* it runs or does not, and what room its last files left is not kept here.
addUnmounted(batch, room) ==
    \E n \in 0 .. Min({Sized(batch), IF provider THEN room ELSE MaxFiles}) :
        /\ createObjectURLs(n)
        /\ late' = late \cup NewUrls(n)
        /\ UNCHANGED files

add(of, batch, room) ==
    IF ~Updates(of) THEN addUnmounted(batch, room)
    ELSE IF provider THEN addWithProviderValidation(batch, room)
    ELSE addLocal(batch, room)

\* A handler adds what it is given, with the "add" of its rendering.
Attach(batch) ==
    /\ mounted
    /\ add(instance, batch, Capacity)
    /\ UNCHANGED <<tree, text, submits, shots, screens, sent, typed, dropped>>

\* On the form, or with globalDrop on the document.
onDrop(batch) == batch # <<>> /\ Attach(batch)

\* Chosen in the dialog.
handleChange(batch) == Attach(batch)

handlePaste(items) ==
    LET pasted == {i \in DOMAIN items : items[i] # "no file"} IN
    pasted # {} /\ Attach(Restrict(items, pasted))

\* What is around the input adds without a check (useProviderAttachments).
ProviderAdd(n) ==
    /\ provider /\ alive
    /\ AttachNew(n)
    /\ UNCHANGED <<tree, text, submits, shots, screens, sent, typed, dropped>>

\* The user takes files from under the submissions that convert them (here, or
\* on the disk: see convertBlobUrlToDataUrl).
Disturbed(taken) ==
    [s \in Submission |->
        IF submits[s].at = "converting" /\ taken \cap submits[s].pending # {}
        THEN [submits[s] EXCEPT !.disturbed = TRUE] ELSE submits[s]]

\* A provider's remove and clear, and those of an input of its own.
Revoked(taken) ==
    /\ files' = files \ taken
    /\ urls' = urls \ taken

\* Mutant: an attachment goes and its URL stays.
remove_Leaks(url) ==
    /\ files' = files \ {url}
    /\ urls' = urls
    /\ submits' = Disturbed({url})

remove(url) == Revoked({url}) /\ submits' = Disturbed({url})

\* The attachment's own button, or Backspace in an empty box for the last one.
TakeAway ==
    /\ mounted \/ (provider /\ alive)
    /\ \E url \in files : remove(url)
    /\ UNCHANGED <<tree, text, made, late, shots, screens, sent, typed, dropped>>

-----------------------------------------------------------------------------
(* Screenshots: the request, the screen's recording, and what comes of it *)

TakeScreenshot(q) ==
    /\ mounted /\ shots[q] = Idle
    /\ shots' = [shots EXCEPT ![q] = [at |-> "asking", of |-> instance, room |-> Capacity]]
    /\ UNCHANGED <<tree, box, urls, made, late, submits, screens, sent, typed, dropped>>

getDisplayMedia(q) ==
    /\ shots[q].at = "asking"
    /\ \/ /\ shots' = [shots EXCEPT ![q].at = "recording"]
          /\ screens' = screens \cup {q}
       \/ shots' = [shots EXCEPT ![q] = Idle] /\ UNCHANGED screens
    /\ UNCHANGED <<tree, box, urls, made, late, submits, sent, typed, dropped>>

\* With a picture or without one, the tracks are stopped.
captureScreenshot(q) ==
    /\ shots[q].at = "recording"
    /\ shots' = [shots EXCEPT ![q] = Idle]
    /\ screens' = screens \ {q}
    /\ add(shots[q].of, <<"good">>, shots[q].room) \/ UNCHANGED <<files, urls, made, late>>
    /\ UNCHANGED <<tree, text, submits, sent, typed, dropped>>

-----------------------------------------------------------------------------
(* Text and submissions *)

Type ==
    /\ mounted /\ text = 0 /\ typed < MaxTexts
    /\ text' = typed + 1 /\ typed' = typed + 1
    /\ UNCHANGED <<tree, files, urls, made, late, submits, shots, screens, sent, dropped>>

Converting == [at |-> "converting", of |-> instance, text |-> text, pending |-> files,
               kept |-> FALSE, disturbed |-> FALSE]

\* Mutant: the attachments are cleared with the text.
handleSubmit_ClearsFirst(s) ==
    /\ mounted /\ submits[s] = Idle
    /\ submits' = [submits EXCEPT ![s] = Converting]
    /\ text' = IF provider THEN text ELSE 0
    /\ Revoked(files)

\* Mutant: the form is reset behind the conversion (see OnSubmit).
handleSubmit_ResetsLate(s) ==
    /\ mounted /\ submits[s] = Idle
    /\ submits' = [submits EXCEPT ![s] = Converting]
    /\ UNCHANGED <<box, urls>>

\* Up to the first await: the form is reset at once, a provider's text is not.
handleSubmit(s) ==
    /\ mounted /\ submits[s] = Idle
    /\ submits' = [submits EXCEPT ![s] = Converting]
    /\ text' = IF provider THEN text ELSE 0
    /\ UNCHANGED <<files, urls>>

\* Enter, outside a composition and without Shift.
Enter(s) ==
    /\ handleSubmit(s)
    /\ UNCHANGED <<tree, made, late, shots, screens, sent, typed, dropped>>

\* The button.  ChatPanel stops the reply in its onClick and gives it no onStop:
\* the button submits also when it says "Stop".
Click(s) ==
    /\ handleSubmit(s)
    /\ UNCHANGED <<tree, made, late, shots, screens, sent, typed, dropped>>

\* Mutant: nobody hears of a URL that cannot be fetched.
convertBlobUrlToDataUrl_Hangs(s, url) ==
    /\ submits[s].at = "converting" /\ url \in submits[s].pending /\ url \in urls
    /\ submits' = [submits EXCEPT ![s].pending = @ \ {url}]
    /\ UNCHANGED <<tree, box, urls, made, late, shots, screens, sent, typed, dropped>>

\* A URL that was revoked by now cannot be fetched, and the browser may fail to
\* read the file itself: the URL is kept as it is.
convertBlobUrlToDataUrl(s, url) ==
    /\ submits[s].at = "converting" /\ url \in submits[s].pending
    /\ \E readable \in BOOLEAN :
          submits' = [submits EXCEPT ![s].pending = @ \ {url},
                                     ![s].kept = @ \/ url \notin urls \/ ~readable,
                                     ![s].disturbed = @ \/ ~readable]
    /\ UNCHANGED <<tree, box, urls, made, late, shots, screens, sent, typed, dropped>>

\* All attachments go, those that came after the submission too; with a
\* provider so does the text.
Clear(s) ==
    LET cleared == IF Updates(submits[s].of) THEN files ELSE {} IN
    /\ submits' = [Disturbed(cleared) EXCEPT ![s] = Idle]
    /\ Revoked(cleared)
    /\ text' = IF provider /\ alive THEN 0 ELSE text

KeepForRetry(s) == submits' = [submits EXCEPT ![s] = Idle] /\ UNCHANGED <<box, urls>>

\* ChatPanel's submit(): a message without text goes nowhere.
sendMessage(t) ==
    sent' = IF t = 0 THEN sent ELSE [sent EXCEPT ![t] = Min({Often, @ + 1})]

\* onSubmit returns, throws, or is a promise.
OnSubmit(s) ==
    /\ submits[s].at = "converting" /\ submits[s].pending = {}
    /\ sendMessage(submits[s].text)
    /\ \/ Clear(s)
       \/ KeepForRetry(s)
       \/ submits' = [submits EXCEPT ![s] = [at |-> "waiting", of |-> @.of]] /\ UNCHANGED <<box, urls>>
    /\ UNCHANGED <<tree, made, late, shots, screens, typed, dropped>>

Settle(s) ==
    /\ submits[s].at = "waiting"
    /\ Clear(s) \/ KeepForRetry(s)
    /\ UNCHANGED <<tree, made, late, shots, screens, sent, typed, dropped>>

-----------------------------------------------------------------------------
(* Mounting: the panels of the page's tabs are mounted while they are shown *)

\* What lives in the component that goes: its cleanup revokes the files that
\* filesRef, or the provider's attachmentsRef, has.
Cleanup ==
    /\ Revoked(files) /\ text' = 0
    /\ submits' = Disturbed(files)
    /\ dropped' = dropped \cup ({text} \ {0})

UnmountInput ==
    /\ mounted /\ mounted' = FALSE
    /\ IF provider THEN UNCHANGED <<box, urls, submits, dropped>> ELSE Cleanup
    /\ UNCHANGED <<provider, alive, instance, made, late, shots, screens, sent, typed>>

\* The page goes, with the input and a provider.
UnmountAll ==
    /\ alive /\ alive' = FALSE /\ mounted' = FALSE
    /\ Cleanup
    /\ UNCHANGED <<provider, instance, made, late, shots, screens, sent, typed>>

MountInput ==
    /\ alive /\ ~mounted /\ mounted' = TRUE
    /\ instance < MaxInstances /\ instance' = instance + 1
    /\ UNCHANGED <<provider, alive, box, urls, made, late, submits, shots, screens, sent, typed, dropped>>

Next ==
    \/ \E batch \in Batch : onDrop(batch) \/ handleChange(batch) \/ handlePaste(<<"no file">> \o batch)
    \/ ProviderAdd(1) \/ TakeAway \/ Type
    \/ \E q \in Shot : TakeScreenshot(q) \/ getDisplayMedia(q) \/ captureScreenshot(q)
    \/ \E s \in Submission :
          \/ Enter(s) \/ Click(s) \/ OnSubmit(s) \/ Settle(s)
          \/ \E url \in Url : convertBlobUrlToDataUrl(s, url)
    \/ UnmountInput \/ UnmountAll \/ MountInput

Spec == Init /\ [][Next]_vars

\* The browser answers and promises settle; nothing is assumed of the user.
FairSpec ==
    /\ Spec
    /\ \A s \in Submission :
          /\ WF_vars(OnSubmit(s)) /\ WF_vars(Settle(s))
          /\ WF_vars(\E url \in Url : convertBlobUrlToDataUrl(s, url))

-----------------------------------------------------------------------------
(* Properties *)

\* Nothing of the browser's is leaked, nor taken from what still uses it, while
\* the input is there: the object URLs are those of the attached files (remove,
\* clear and the cleanup), and a screen is recorded only while its screenshot is
\* taken (:166), whatever ends meanwhile.  The URLs that a screenshot makes once
\* its input is gone (late) are left out: they come after the cleanup of :310 and
\* :544, and stay.
NothingLeaks ==
    /\ urls = files \cup late
    /\ screens = {q \in Shot : shots[q].at = "recording"}

\* An input of its own never holds more than maxFiles, although a screenshot
\* is added long after it was asked for.
CapacityKept == ~provider => Cardinality(files) <= MaxFiles

\* Every file that was attached at the submission is handed on as data, unless
\* the user or a submission that ended meanwhile took it away, or the browser
\* could not read it.
FilesArrive ==
    \A s \in Submission : submits[s].at = "converting" /\ submits[s].kept => submits[s].disturbed

\* What is typed while a submission converts its files is neither lost (the
\* comment at :856) nor sent twice: without a provider each text is in the box,
\* in one submission, or has been sent once.
TextOnce ==
    ~provider =>
       \A t \in 1 .. typed :
          t \in dropped \/
          1 = (IF text = t THEN 1 ELSE 0)
              + Cardinality({s \in Submission : submits[s].at = "converting" /\ submits[s].text = t})
              + sent[t]

\* Every submission ends, also if its files were taken away.
SubmissionsEnd == \A s \in Submission : submits[s] # Idle ~> submits[s] = Idle
=============================================================================
