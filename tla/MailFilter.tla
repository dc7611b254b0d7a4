------------------------------- MODULE MailFilter -------------------------------
(* The way of one submitted mail from Postfix through the content filter
   tracking_injector.py and back into Postfix.  The queue manager hands the mail
   to the pipe transport once per recipient domain; each run of the filter reads
   it, decides whom to send it to, has the tracking service put a pixel and links
   of its own into the HTML, and reinjects the mail over SMTP at 127.0.0.1:10026.
   Its exit code tells Postfix what became of the recipients it was started for.
   Mails share nothing but the number of filter processes, so one is enough.

   The HTML is as its author wrote it or with the service's additions, which name
   the first recipient of the headers, whoever reads the copy.  An operator whose
   comment begins with "Slip:" is a faulty variant of the definition after it. *)
EXTENDS Naturals, FiniteSets

CONSTANTS
    Address,
    Sender,             \* the envelope sender, one of the addresses
    DomainOf,           \* the domain of each address
    LocalDomain,        \* the domains this server takes mail for
    NonAscii,           \* the addresses that ASCII cannot write
    MaxFaults           \* bound: how often something goes wrong with this mail

Domain == {DomainOf[a] : a \in Address}

ASSUME FilterAssumption ==
    /\ IsFiniteSet(Address)
    /\ Sender \in Address
    /\ NonAscii \subseteq Address
    /\ MaxFaults \in Nat

VARIABLES
    tracking_enabled,
    envelope,   \* the recipients of the SMTP transaction, aliases expanded
    named,      \* the recipients its To, Cc and Bcc headers come to
    from,       \* From: holds no valid address (or headers that cannot be shown),
                \* one in ASCII, or another
    prints,     \* the email package can write the stamped message out again
    html,       \* the mail has an HTML part that is not empty
    hosted,     \* the domain of From: is an active one in MySQL
    pymysql,    \* PyMySQL is installed; in the image of mailer/postfix it is not
    left,       \* the recipients Postfix has still to deliver the mail to
    deferred,   \* those of them whose last attempt failed
    run,        \* domain -> the run of the filter for its recipients
    got,        \* address -> copies Postfix accepted for it from the filter
    tracked,    \* the addresses a copy with a pixel was accepted for
    refused,    \* addresses the listener refused in a transaction it accepted
    returned,   \* recipients reported to the sender as undeliverable
    faults

mailVars == <<tracking_enabled, envelope, named, from, prints, html, hosted,
              pymysql>>
queueVars == <<left, deferred, returned>>
vars == <<mailVars, queueVars, run, got, tracked, refused, faults>>

NoRun == [at |-> "none", for |-> {}, to |-> {}, body |-> "original"]

Init ==
    /\ tracking_enabled \in BOOLEAN
    /\ envelope \in (SUBSET (Address \ {Sender})) \ {{}}
    /\ named \in SUBSET (Address \ {Sender})
    /\ from \in {"none", "ascii", "other"}
    /\ prints \in BOOLEAN
    /\ html \in BOOLEAN
    /\ hosted \in BOOLEAN
    /\ pymysql \in BOOLEAN
    /\ left = envelope
    /\ deferred = {}
    /\ run = [d \in Domain |-> NoRun]
    /\ got = [a \in Address |-> 0]
    /\ tracked = {}
    /\ refused = {}
    /\ returned = {}
    /\ faults = 0

Fault ==
    /\ faults < MaxFaults
    /\ faults' = faults + 1

-------------------------------------------------------------------------------
(* Exit codes and what pipe(8) makes of them: 0 is delivered, 75 is tried again,
   anything else is returned to the sender. *)

Delivered(d) ==
    /\ left' = left \ run[d].for
    /\ run' = [run EXCEPT ![d] = NoRun]
    /\ UNCHANGED <<deferred, returned>>

TempFail(d) ==
    /\ deferred' = deferred \cup run[d].for
    /\ run' = [run EXCEPT ![d] = NoRun]
    /\ UNCHANGED <<left, returned>>

Bounced(d) ==
    /\ left' = left \ run[d].for
    /\ returned' = returned \cup run[d].for
    /\ run' = [run EXCEPT ![d] = NoRun]
    /\ UNCHANGED deferred

-------------------------------------------------------------------------------
(* Postfix. *)

Waiting(d) == {a \in left : DomainOf[a] = d}

(* The next hop of content_filter=tracking-filter: is the recipient's domain, so
   that each domain is a delivery, and a command line, of its own. *)
Start(d) ==
    /\ run[d].at = "none"
    /\ Waiting(d) # {}
    /\ run' = [run EXCEPT ![d] = [at |-> "reading", for |-> Waiting(d), to |-> {},
                                 body |-> "original"]]
    /\ deferred' = deferred \ Waiting(d)
    /\ UNCHANGED <<mailVars, left, returned, got, tracked, refused, faults>>

(* Recipients that failed until the queue's lifetime was over. *)
Expire(d) ==
    /\ run[d].at = "none"
    /\ Waiting(d) # {}
    /\ Waiting(d) \subseteq deferred
    /\ left' = left \ Waiting(d)
    /\ deferred' = deferred \ Waiting(d)
    /\ returned' = returned \cup Waiting(d)
    /\ UNCHANGED <<mailVars, run, got, tracked, refused, faults>>

(* The time limit of pipe(8) or a restart of the container. *)
Kill(d) ==
    /\ run[d].at # "none"
    /\ Fault
    /\ TempFail(d)
    /\ UNCHANGED <<mailVars, got, tracked, refused>>

-------------------------------------------------------------------------------
(* tracking_injector.py *)

(* Without a valid sender or any recipient in the headers there is no metadata. *)
HasMetadata == from # "none" /\ named # {}

(* With metadata the mail goes to the recipients its headers name, whomever this
   run is for.  Without, it goes to every argument of the command line: the
   sender behind -f is one, and "-f" and "--" themselves are always refused. *)
Recipients(d) ==
    IF tracking_enabled /\ HasMetadata THEN named ELSE run[d].for \cup {Sender}

Sending(d, body) ==
    [at |-> "sending", for |-> run[d].for, to |-> Recipients(d), body |-> body]

(* Only mails with metadata and HTML are tracked, where tracking is on. *)
Tracks == tracking_enabled /\ HasMetadata /\ html

(* Slip: no fallback for a mail that cannot be written. *)
FallsBackNever == prints

(* Every error on the way falls back to the original mail; that handler reads
   metadata, which is not bound yet when the mail of a filter without tracking
   cannot be written. *)
FallsBack == prints \/ tracking_enabled

(* Slip: the check for an HTML part is gone. *)
PrepareWithoutHtml(d) ==
    /\ run[d].at = "reading"
    /\ (tracking_enabled /\ HasMetadata) \/ FallsBack
    /\ run' = [run EXCEPT ![d] = IF tracking_enabled /\ HasMetadata
                                 THEN [@ EXCEPT !.at = "resolving"]
                                 ELSE Sending(d, "original")]
    /\ UNCHANGED <<mailVars, queueVars, got, tracked, refused, faults>>

(* Slip: a mail without metadata is refused for good. *)
PrepareWithMetadata(d) ==
    /\ run[d].at = "reading"
    /\ Tracks \/ FallsBack
    /\ IF HasMetadata
       THEN /\ run' = [run EXCEPT ![d] = IF Tracks THEN [@ EXCEPT !.at = "resolving"]
                                                 ELSE Sending(d, "original")]
            /\ UNCHANGED queueVars
       ELSE Bounced(d)
    /\ UNCHANGED <<mailVars, got, tracked, refused, faults>>

Prepare(d) ==
    /\ run[d].at = "reading"
    /\ Tracks \/ FallsBack
    /\ run' = [run EXCEPT ![d] = IF Tracks THEN [@ EXCEPT !.at = "resolving"]
                                           ELSE Sending(d, "original")]
    /\ UNCHANGED <<mailVars, queueVars, got, tracked, refused, faults>>

PrepareFails(d) ==
    /\ run[d].at = "reading"
    /\ ~Tracks
    /\ ~FallsBack
    /\ TempFail(d)
    /\ UNCHANGED <<mailVars, got, tracked, refused, faults>>

(* The sender's domain is looked up; MySQL may not answer. *)
Found == {hosted, FALSE}

(* Without PyMySQL, as deployed, every sender gets the default ids.  With it, the
   domain's own switch for tracking is read and not used; for a sender that is not
   hosted here, and when MySQL does not answer, the default id is read from an
   attribute that does not exist, and the mail goes on as it is. *)
Resolve(d) ==
    /\ run[d].at = "resolving"
    /\ \E found \in Found :
          run' = [run EXCEPT ![d] = IF found \/ ~pymysql
                                    THEN [@ EXCEPT !.at = "injecting"]
                                    ELSE Sending(d, "original")]
    /\ UNCHANGED <<mailVars, queueVars, got, tracked, refused, faults>>

(* The tracking service gives back another HTML; or it refuses, fails, does not
   answer in time or has no such route, or its HTML cannot be written out, and
   the mail goes on as it is. *)
Inject(d) ==
    /\ run[d].at = "injecting"
    /\ \E body \in {"original", "tracked"} :
          run' = [run EXCEPT ![d] = Sending(d, IF prints THEN body ELSE "original")]
    /\ UNCHANGED <<mailVars, queueVars, got, tracked, refused, faults>>

(* The listener's own restrictions let 127.0.0.1 in; those on relaying it has from
   main.cf, which take mail for this server's domains and, without SASL, for no
   other: a recipient elsewhere is refused each time. *)
Relayed(to) == {a \in to : DomainOf[a] \in LocalDomain}

(* smtplib writes each address of the transaction in ASCII, or raises. *)
Writes(to) ==
    /\ to \cap NonAscii = {}
    /\ tracking_enabled /\ HasMetadata => from = "ascii"

Passes(to) == Writes(to) /\ Relayed(to) # {}

(* The listener takes the mail for the recipients it accepts. *)
Accept(accepted) ==
    got' = [a \in Address |-> IF a \in accepted THEN got[a] + 1 ELSE got[a]]

Mark(d, accepted) ==
    tracked' = IF run[d].body = "tracked" THEN tracked \cup accepted ELSE tracked

(* sendmail() returns the recipients that were refused, which nobody looks at,
   and raises only when none was accepted. *)
Send(d) ==
    /\ run[d].at = "sending"
    /\ Writes(run[d].to)
    /\ \E accepted \in (SUBSET Relayed(run[d].to)) \ {{}} :
          /\ Accept(accepted)
          /\ Mark(d, accepted)
          /\ refused' = refused \cup (run[d].to \ accepted)
          /\ IF accepted = Relayed(run[d].to) THEN UNCHANGED faults ELSE Fault
    /\ run' = [run EXCEPT ![d].at = "quitting"]
    /\ UNCHANGED <<mailVars, queueVars>>

(* Slip: a failed reinjection is only logged. *)
SendFailsLogged(d) ==
    /\ run[d].at = "sending"
    /\ Fault
    /\ Delivered(d)
    /\ UNCHANGED <<mailVars, got, tracked, refused>>

(* No recipient is of this server's domains, or an address is not ASCII: so it is at
   every retry.  Else something went wrong: no connection, no recipient accepted,
   or the message itself refused, as over a quota of the rate limiter. *)
SendFails(d) ==
    /\ run[d].at = "sending"
    /\ IF Passes(run[d].to) THEN Fault ELSE UNCHANGED faults
    /\ TempFail(d)
    /\ UNCHANGED <<mailVars, got, tracked, refused>>

(* The mail is accepted, the answer to its last line comes after the timeout. *)
AnswerLost(d) ==
    /\ run[d].at = "sending"
    /\ Passes(run[d].to)
    /\ Fault
    /\ Accept(Relayed(run[d].to))
    /\ Mark(d, Relayed(run[d].to))
    /\ TempFail(d)
    /\ UNCHANGED <<mailVars, refused>>

(* Slip: EX_TEMPFAIL after a successful reinjection, too. *)
QuitTempFails(d) ==
    /\ run[d].at = "quitting"
    /\ TempFail(d)
    /\ UNCHANGED <<mailVars, got, tracked, refused, faults>>

Quit(d) ==
    /\ run[d].at = "quitting"
    /\ Delivered(d)
    /\ UNCHANGED <<mailVars, got, tracked, refused, faults>>

(* quit() stands in the same try as sendmail(). *)
QuitFails(d) ==
    /\ run[d].at = "quitting"
    /\ Fault
    /\ TempFail(d)
    /\ UNCHANGED <<mailVars, got, tracked, refused>>

(* The handler of SIGTERM and SIGINT exits with 1. *)
Terminate(d) ==
    /\ run[d].at # "none"
    /\ Fault
    /\ Bounced(d)
    /\ UNCHANGED <<mailVars, got, tracked, refused>>

Filter(d) ==
    \/ Prepare(d)
    \/ PrepareFails(d)
    \/ Resolve(d)
    \/ Inject(d)
    \/ Send(d)
    \/ SendFails(d)
    \/ AnswerLost(d)
    \/ Quit(d)
    \/ QuitFails(d)
    \/ Terminate(d)

Next == \E d \in Domain : Start(d) \/ Expire(d) \/ Kill(d) \/ Filter(d)

Spec == Init /\ [][Next]_vars

(* Postfix tries again and the filter, bounded by timeouts everywhere, gets on;
   the expiry of the queue is not relied on. *)
FairSpec == Spec /\ \A d \in Domain : WF_vars(Start(d)) /\ WF_vars(Filter(d))

-------------------------------------------------------------------------------
(* Properties *)

(* Every variable keeps its type, what is deferred is left, the recipients of a
   run are left until it ends, and what is left was in the envelope. *)
TypeOK ==
    /\ tracking_enabled \in BOOLEAN
    /\ envelope \in SUBSET Address
    /\ named \in SUBSET Address
    /\ from \in {"none", "ascii", "other"}
    /\ prints \in BOOLEAN
    /\ html \in BOOLEAN
    /\ hosted \in BOOLEAN
    /\ pymysql \in BOOLEAN
    /\ left \in SUBSET envelope
    /\ deferred \in SUBSET left
    /\ returned \in SUBSET (envelope \ left)
    /\ run \in [Domain -> [at : {"none", "reading", "resolving", "injecting",
                                "sending", "quitting"},
                          for : SUBSET left, to : SUBSET Address,
                          body : {"original", "tracked"}]]
    /\ got \in [Address -> Nat]
    /\ tracked \in SUBSET Address
    /\ refused \in SUBSET Address
    /\ faults \in 0..MaxFaults

(* The recipients a reinjection can miss. *)
Unnamed(a) == tracking_enabled /\ HasMetadata /\ a \notin named

(* A recipient Postfix is done with has a copy or was reported to the sender,
   unless the headers do not name it or the listener refused it beside others:
   no connection, timeout, kill or signal at whatever step loses the mail. *)
NothingVanishes ==
    \A a \in envelope \ left : got[a] > 0 \/ a \in returned \/ a \in refused \/ Unnamed(a)

(* Without metadata a recipient has at most one copy more than things went wrong.
   With metadata every domain of the envelope sends a copy to everybody named. *)
CopiesBounded ==
    \A a \in Address \ {Sender} :
       got[a] <= faults + IF tracking_enabled /\ HasMetadata
                          THEN Cardinality({DomainOf[r] : r \in envelope})
                          ELSE 1

(* To whom the filter sends what Postfix hands it for a domain. *)
Transaction(d) ==
    IF tracking_enabled /\ HasMetadata THEN named
    ELSE {r \in envelope : DomainOf[r] = d} \cup {Sender}

(* The recipients whose mail has a fallback for every error, and an addressee the
   listener takes it for. *)
Deliverable ==
    {a \in envelope : (prints \/ tracking_enabled) /\ Passes(Transaction(DomainOf[a]))}

(* A recipient is reported as undeliverable only after something went wrong, when
   the filter cannot write the mail out and has no fallback, or when the listener
   refuses for good all that the mail for its domain is sent to. *)
ReturnsAreEarned == faults = 0 => returned \cap Deliverable = {}

(* A pixel is put only into a mail with HTML, with tracking on, and goes to
   recipients its headers name; where the lookup works, only for a sender this
   server hosts.  Every failure on the way, of the lookup, of the service, of an
   earlier attempt, leaves the mail as its author wrote it. *)
PixelsAreWarranted ==
    tracked # {} =>
       /\ tracking_enabled /\ HasMetadata /\ html /\ prints
       /\ tracked \subseteq named
       /\ pymysql => hosted

(* Deliverable mail leaves the queue, whatever goes wrong and without the queue's
   lifetime: only a permanent refusal makes the filter fail for ever. *)
MailGetsOut == <>(left \cap Deliverable = {})
=============================================================================
