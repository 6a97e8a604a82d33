------------------------------ MODULE Translation ------------------------------
(***************************************************************************)
(* The words of the ECU that is shown, in the language chosen: setLocale   *)
(* fetches a bundle, selectEcu loads an ECU, and both hash the ECU's       *)
(* strings (primeOverlay) before the overlay can resolve them              *)
(* (packages/i18n/src/overlay.ts). Bundles and ECUs arrive in any order.   *)
(***************************************************************************)
EXTENDS Integers, FiniteSets

CONSTANTS
    Ecus,           \* the slugs
    GroupOf(_),     \* the group of each
    Strings(_),     \* what each may display
    Bundle,         \* the bundle: a translation for some keys, [scope, of] and the string
    Source(_),      \* the string itself, when it has no translation
    MaxCalls,       \* bound: calls of setLocale
    MaxSelections   \* bound: calls of selectEcu

ASSUME WordsAssumption == MaxCalls \in Nat /\ MaxSelections \in Nat /\ "none" \notin Ecus

VARIABLES
    locale,         \* app.locale
    overlay,        \* the call of setLocale that made the overlay, 0 for Overlay.none()
    hashed,         \* the strings each call's overlay has hashed
    calls,          \* calls of setLocale so far
    fetching,       \* those whose bundle has not arrived
    selected, ecuPhase, \* app.selected, app.ecuPhase
    selections,     \* selectionToken
    loading,        \* selections whose definitions have not arrived: [token, ecu]
    ecu,            \* the ECU that is loaded, "none" before the first
    priming,        \* batches being hashed: [into, of, token]; token 0 for setLocale's
    rendered,       \* what the components show of the ECU's strings
    fetchFailed     \* history: a bundle did not arrive since "en" was last chosen

wordsVars == <<locale, overlay, hashed, calls, fetching, selected, ecuPhase, selections, loading, ecu, priming,
               rendered, fetchFailed>>

languages == <<locale, calls, fetching, fetchFailed>>
chosenEcu == <<selected, selections, loading>>

------------------------------------------------------------------------------
(* Overlay.resolve: the narrowest scope that has the string, else the source. *)

Scopes(slug) ==
    <<[scope |-> "ecu", of |-> slug], [scope |-> "group", of |-> GroupOf(slug)], [scope |-> "all", of |-> ""]>>

Narrowest(slug, s) ==
    LET keys == [n \in 1..3 |-> <<Scopes(slug)[n], s>>]
        hits == {n \in 1..3 : keys[n] \in DOMAIN Bundle}
    IN IF hits = {} THEN Source(s) ELSE Bundle[keys[CHOOSE n \in hits : \A m \in hits : n <= m]]

\* A string that was not hashed passes through, and so does every string of the empty overlay.
resolve(o, known, slug, s) == IF o # 0 /\ s \in known[o] THEN Narrowest(slug, s) ELSE Source(s)

\* Bumping overlayVersion, or mounting the components, reads every string again.
Rendered(o, known, slug) ==
    IF slug = "none" THEN <<>> ELSE [s \in Strings(slug) |-> resolve(o, known, slug, s)]

------------------------------------------------------------------------------
(* primeOverlay: nothing to do for the original, or without an ECU. *)

\* A wrong build of it: the locale is not looked at.
PrimesAlways(slug) == slug # "none"

Primes(slug) == slug # "none" /\ locale # "fr"

\* The batch goes into the overlay of now, which may be another's when it is done.
primeOverlay(o, slug, token, then) ==
    \/ /\ Primes(slug)
       /\ priming' = priming \cup {[into |-> o, of |-> slug, token |-> token]} /\ UNCHANGED <<ecuPhase, rendered>>
    \/ ~Primes(slug) /\ UNCHANGED priming /\ then

WordsInit ==
    /\ locale = "fr" /\ overlay = 0 /\ hashed = [n \in 1..MaxCalls |-> {}]
    /\ calls = 0 /\ fetching = {} /\ fetchFailed = FALSE
    /\ selected = "none" /\ ecuPhase = "none" /\ selections = 0 /\ loading = {} /\ ecu = "none"
    /\ priming = {} /\ rendered = <<>>

------------------------------------------------------------------------------
(* setLocale. *)

\* The original needs no bundle: there is no overlay at once.
Original ==
    /\ locale # "fr" /\ calls < MaxCalls
    /\ locale' = "fr" /\ calls' = calls + 1 /\ overlay' = 0
    /\ rendered' = Rendered(0, hashed, selected)
    /\ UNCHANGED <<hashed, fetching, fetchFailed, ecuPhase, ecu, priming, chosenEcu>>

\* Another language: until its bundle is there the overlay stays what it was.
Translated ==
    /\ locale = "fr" /\ calls < MaxCalls
    /\ locale' = "en" /\ calls' = calls + 1 /\ fetching' = fetching \cup {calls'} /\ fetchFailed' = FALSE
    /\ UNCHANGED <<overlay, hashed, ecuPhase, ecu, priming, rendered, chosenEcu>>

\* Nothing says whether a bundle is still wanted when it arrives, or does not.
BundleArrives(n, arrived) ==
    /\ n \in fetching
    /\ fetching' = fetching \ {n}
    /\ overlay' = IF arrived THEN n ELSE 0
    /\ fetchFailed' = (fetchFailed \/ ~arrived)
    /\ primeOverlay(overlay', ecu, 0, rendered' = Rendered(overlay', hashed, selected) /\ UNCHANGED ecuPhase)
    /\ UNCHANGED <<locale, hashed, calls, ecu, chosenEcu>>

------------------------------------------------------------------------------
(* selectEcu. *)

Selects(slug) ==
    /\ selections < MaxSelections
    /\ selected' = slug /\ ecuPhase' = "loading" /\ selections' = selections + 1
    /\ loading' = loading \cup {[token |-> selections', of |-> slug]}
    /\ rendered' = Rendered(overlay, hashed, slug)
    /\ UNCHANGED <<languages, overlay, hashed, ecu, priming>>

\* Only the last selection is used; its strings are hashed before it is shown.
EcuArrives(load) ==
    /\ load \in loading /\ loading' = loading \ {load}
    /\ IF load.token = selections
       THEN /\ ecu' = load.of
            /\ primeOverlay(overlay, load.of, load.token,
                            ecuPhase' = "ready" /\ rendered' = Rendered(overlay, hashed, selected))
       ELSE UNCHANGED <<ecu, priming, ecuPhase, rendered>>
    /\ UNCHANGED <<languages, overlay, hashed, selected, selections>>

EcuFails(load) ==
    /\ load \in loading /\ loading' = loading \ {load}
    /\ ecuPhase' = IF load.token = selections THEN "error" ELSE ecuPhase
    /\ UNCHANGED <<languages, overlay, hashed, ecu, priming, rendered, selected, selections>>

\* A batch is hashed: what is shown is read again, and a selection that waited for it is ready.
Hashed(batch) ==
    /\ batch \in priming /\ priming' = priming \ {batch}
    /\ hashed' = [n \in 1..MaxCalls |-> IF n = batch.into THEN hashed[n] \cup Strings(batch.of) ELSE hashed[n]]
    /\ rendered' = Rendered(overlay, hashed', selected)
    /\ ecuPhase' = IF batch.token # 0 /\ batch.token = selections THEN "ready" ELSE ecuPhase
    /\ UNCHANGED <<languages, overlay, ecu, chosenEcu>>

WordsNext ==
    \/ Original \/ Translated
    \/ \E n \in 1..MaxCalls, arrived \in BOOLEAN : BundleArrives(n, arrived)
    \/ \E slug \in Ecus : Selects(slug)
    \/ \E load \in loading : EcuArrives(load) \/ EcuFails(load)
    \/ \E batch \in priming : Hashed(batch)

------------------------------------------------------------------------------
\* When everything asked for has arrived, the strings on screen are the ECU's own under the original, and
\* the narrowest translation of each under another language ("Resolution, most specific first",
\* overlay.ts:9), whatever order bundles and ECUs arrived in; unless a bundle failed since it was chosen.
SpeaksTheLanguageChosen ==
    fetching = {} /\ priming = {} /\ loading = {} /\ ecuPhase = "ready" =>
        /\ locale = "fr" => rendered = [s \in Strings(selected) |-> Source(s)]
        /\ locale = "en" /\ ~fetchFailed => rendered = [s \in Strings(selected) |-> Narrowest(selected, s)]
=============================================================================
