------------------------------ MODULE BriefDesk ------------------------------
(***************************************************************************)
(* The finished briefs: service._fulfill writes a draft in three formats,  *)
(* the stage machine records, publishes and mails it, and the server hands *)
(* it out to whoever has a link signed by delivery.py, or sits at the      *)
(* machine itself (access.py).  A draft is a number; a file holds one.     *)
(***************************************************************************)
EXTENDS Integers, FiniteSets

CONSTANTS Ordered,   \* jobs
          LinkLife,  \* 7 days, in clock steps
          DeskTime, MaxDrafts, MaxSecrets  \* bounds

ASSUME DeskAssumption ==
    LinkLife \in Nat /\ DeskTime \in Nat /\ MaxDrafts \in Nat /\ MaxSecrets \in Nat \ {0}

VARIABLES deskClock,
          localMode, \* SOLVENT_LOCAL_ACCESS
          secret,    \* SOLVENT_DELIVERY_SECRET, 0 when it is unset or a placeholder
          folder,    \* the draft in each file of reports_dir; 0: no file
          drafts,    \* drafts begun for each job
          making,    \* where the job is
          recorded,  \* the fulfil stage's result: [draft, pdf], draft 0 before it
          links,     \* every token that was signed: [job, secret, ts]
          inbox      \* mails: [job, text, pdf, link], pdf 0 when none is attached

deskVars == <<deskClock, localMode, secret, folder, drafts, making, recorded, links, inbox>>

Formats == {"md", "html", "pdf"}
Steps == {"ordered", "awaiting", "paid", "md", "html", "pdf", "made", "published", "mailed",
          "delivered", "review", "closed"}
Unrecorded == [draft |-> 0, pdf |-> FALSE]

BriefDeskTypeOK ==
    /\ deskClock \in 0..DeskTime /\ localMode \in {"auto", "never", "peer"} /\ secret \in 0..MaxSecrets
    /\ folder \in [Ordered -> [Formats -> 0..MaxDrafts]] /\ drafts \in [Ordered -> 0..MaxDrafts]
    /\ making \in [Ordered -> Steps]
    /\ recorded \in [Ordered -> [draft : 0..MaxDrafts, pdf : BOOLEAN]]
    /\ links \subseteq [job : Ordered, secret : 1..MaxSecrets, ts : 0..DeskTime]
    /\ \A m \in inbox : m.link \in links /\ m.text \in 0..MaxDrafts /\ m.pdf \in 0..MaxDrafts

BriefDeskInit ==
    /\ deskClock = 0 /\ localMode \in {"auto", "never", "peer"} /\ secret = 1
    /\ folder = [j \in Ordered |-> [f \in Formats |-> 0]] /\ drafts = [j \in Ordered |-> 0]
    /\ making = [j \in Ordered |-> "ordered"]
    /\ recorded = [j \in Ordered |-> Unrecorded]
    /\ links = {} /\ inbox = {}

-----------------------------------------------------------------------------
(* The job's way.                                                          *)

Move(j, from, to) == making[j] = from /\ making' = [making EXCEPT ![j] = to]
Sign(j) == [job |-> j, secret |-> secret, ts |-> deskClock]
Elsewhere == <<deskClock, localMode, secret>>

\* _stage_checkout: Stripe sends the customer back to a link to the brief,
\* signed before there is a brief; without a secret the stage raises.
SignCheckout(j) ==
    /\ secret # 0 /\ Move(j, "ordered", "awaiting") /\ links' = links \cup {Sign(j)}
    /\ UNCHANGED <<Elsewhere, folder, drafts, recorded, inbox>>

PayOrder(j) ==
    /\ Move(j, "awaiting", "paid")
    /\ UNCHANGED <<Elsewhere, folder, drafts, recorded, links, inbox>>

\* _fulfill has its text and writes the files one after the other.
WriteMd(j) ==
    /\ drafts[j] < MaxDrafts /\ Move(j, "paid", "md")
    /\ drafts' = [drafts EXCEPT ![j] = @ + 1]
    /\ folder' = [folder EXCEPT ![j]["md"] = drafts'[j]]
    /\ UNCHANGED <<Elsewhere, recorded, links, inbox>>

WriteHtml(j) ==
    /\ Move(j, "md", "html") /\ folder' = [folder EXCEPT ![j]["html"] = drafts[j]]
    /\ UNCHANGED <<Elsewhere, drafts, recorded, links, inbox>>

\* A failure to render is swallowed; the file of an earlier draft stays.
WritePdf(j) ==
    /\ Move(j, "html", "pdf") /\ folder' \in {folder, [folder EXCEPT ![j]["pdf"] = drafts[j]]}
    /\ UNCHANGED <<Elsewhere, drafts, recorded, links, inbox>>

\* Mutant: any PDF in the folder is taken for this draft's.
RecordDraftAnyway(j) ==
    /\ Move(j, "pdf", "made")
    /\ recorded' = [recorded EXCEPT ![j] = [draft |-> drafts[j], pdf |-> folder[j]["pdf"] # 0]]
    /\ UNCHANGED <<Elsewhere, folder, drafts, links, inbox>>

\* The fulfil stage: pdf_path is kept only when this draft's PDF was written.
RecordDraft(j) ==
    /\ Move(j, "pdf", "made")
    /\ recorded' = [recorded EXCEPT ![j] =
                      [draft |-> drafts[j], pdf |-> folder[j]["pdf"] = drafts[j]]]
    /\ UNCHANGED <<Elsewhere, folder, drafts, links, inbox>>

\* Every charge is settled and the publish stage is written.
PublishDraft(j) ==
    /\ Move(j, "made", "published")
    /\ UNCHANGED <<Elsewhere, folder, drafts, recorded, links, inbox>>

\* send_brief_email, with the text and the PDF as they lie in the folder.
MailDraft(j) ==
    /\ secret # 0 /\ Move(j, "published", "mailed") /\ links' = links \cup {Sign(j)}
    /\ inbox' = inbox \cup {[job |-> j, text |-> folder[j]["md"], link |-> Sign(j),
                             pdf |-> IF recorded[j].pdf THEN folder[j]["pdf"] ELSE 0]}
    /\ UNCHANGED <<Elsewhere, folder, drafts, recorded>>

RecordDelivery(j) ==
    /\ Move(j, "mailed", "delivered")
    /\ UNCHANGED <<Elsewhere, folder, drafts, recorded, links, inbox>>

\* Something raises: before publication the job is refunded and closed, and
\* after it (no secret to sign with, no mail server) a human has to look.
Stumble(j) ==
    /\ \/ \E s \in {"paid", "md", "html", "made"} : Move(j, s, "closed")
       \/ Move(j, "published", "review")
    /\ UNCHANGED <<Elsewhere, folder, drafts, recorded, links, inbox>>

\* The process dies: what no stage records is done again.
DieWriting(j) ==
    /\ \/ \E s \in {"md", "html", "pdf"} : Move(j, s, "paid")
       \/ Move(j, "mailed", "published")
    /\ UNCHANGED <<Elsewhere, folder, drafts, recorded, links, inbox>>

\* The operator sets another secret, or a bad one, and restarts the agent.
Rotate(s) ==
    /\ s # secret /\ secret' = s
    /\ UNCHANGED <<deskClock, localMode, folder, drafts, making, recorded, links, inbox>>

DeskTick ==
    /\ deskClock < DeskTime /\ deskClock' = deskClock + 1
    /\ UNCHANGED <<localMode, secret, folder, drafts, making, recorded, links, inbox>>

BriefDeskNext ==
    \/ DeskTick \/ \E s \in 0..MaxSecrets : Rotate(s)
    \/ \E j \in Ordered :
         \/ SignCheckout(j) \/ PayOrder(j) \/ WriteMd(j) \/ WriteHtml(j) \/ WritePdf(j)
         \/ RecordDraft(j) \/ PublishDraft(j) \/ MailDraft(j) \/ RecordDelivery(j)
         \/ Stumble(j) \/ DieWriting(j)

BriefDeskSpec == BriefDeskInit /\ [][BriefDeskNext]_deskVars

-----------------------------------------------------------------------------
(* What the server answers; answering changes nothing.                     *)

Caller == [loopback : BOOLEAN, proxied : BOOLEAN]
AtTheMachine(caller) == caller.loopback /\ ~caller.proxied

\* access.is_local_request
IsLocal(caller) ==
    /\ localMode # "never" /\ caller.loopback
    /\ localMode = "peer" \/ ~caller.proxied

\* verify_delivery_token
Verifies(j, link) ==
    link.job = j /\ link.secret = secret /\ deskClock - link.ts <= LinkLife

Published(j) == making[j] \in {"published", "mailed", "delivered", "review"}

\* The page if there is one, else the text.
Page(j) == IF folder[j]["html"] # 0 THEN folder[j]["html"] ELSE folder[j]["md"]

\* GET /briefs/{id} and GET /api/briefs/{id}, as the draft they show; 0 is an
\* error.  Callers come with a link or, at the machine, without.
GetBrief(j, link, format) ==
    IF ~(Verifies(j, link) /\ Published(j)) THEN 0
    ELSE IF format = "pdf" THEN folder[j]["pdf"] ELSE Page(j)
GetBriefApi(j, link, caller) ==
    IF IsLocal(caller) \/ (Verifies(j, link) /\ Published(j)) THEN Page(j) ELSE 0

\* GET /api/briefs, and GET /api/receipt/{id} (which asks for no publication).
ListBriefs(caller) == IF IsLocal(caller) THEN {j \in Ordered : Page(j) # 0} ELSE {}
GetReceipt(j, link, caller) == IsLocal(caller) \/ Verifies(j, link)

-----------------------------------------------------------------------------
(* Properties.                                                             *)

\* Nobody away from the machine sees a draft before every charge behind it is
\* settled, nor another customer's brief or receipt, nor the list of them; in
\* the mode "peer" a proxy's callers count as local (access.py).
NothingLeaks ==
    \A caller \in Caller : localMode = "peer" \/ AtTheMachine(caller) \/
        /\ ListBriefs(caller) = {}
        /\ \A j \in Ordered, l \in links :
             /\ GetReceipt(j, l, caller) => l.job = j /\ making[j] # "ordered"
             /\ GetBriefApi(j, l, caller) # 0 \/ GetBrief(j, l, "pdf") # 0 =>
                  l.job = j /\ recorded[j].draft # 0 /\ making[j] # "closed"

\* However often a process died over it, a customer gets one brief: page, text
\* and mail are of the draft that was recorded, and so is the PDF, attached or
\* hosted, unless rendering it failed, when an earlier draft's may still be
\* there; and each mailed link opens it for LinkLife under the same secret.
OneBriefIsShown ==
    /\ \A j \in Ordered : Published(j) =>
         /\ recorded[j].draft = Page(j) /\ recorded[j].draft = folder[j]["md"]
         /\ folder[j]["pdf"] = recorded[j].draft \/ ~recorded[j].pdf
    /\ \A m \in inbox :
         /\ m.text = recorded[m.job].draft /\ m.pdf \in {0, m.text}
         /\ secret = m.link.secret /\ deskClock <= m.link.ts + LinkLife =>
              GetBrief(m.job, m.link, "html") = m.text
         /\ m.pdf # 0 => recorded[m.job].pdf

BriefsHold == BriefDeskTypeOK /\ NothingLeaks /\ OneBriefIsShown
=============================================================================
