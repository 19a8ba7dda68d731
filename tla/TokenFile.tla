----------------------------- MODULE TokenFile -----------------------------
(***************************************************************************)
(* Logging in with OAuth2 (internal/imap/auth/xoauth2.go).  A login reads  *)
(* the account's token file, has the provider refresh an access token that *)
(* ran out, and writes the file again when the token changed.  The daemon  *)
(* and the rules process log in on their own, and auth-setup writes the    *)
(* same file.  os.WriteFile empties the file, then fills it.               *)
(***************************************************************************)
EXTENDS Integers, FiniteSets

CONSTANTS
    Process,        \* processes that log in to the account
    Setup,          \* the auth-setup command
    Rotates,        \* the provider gives a new refresh token and the old one ends
    MaxTokens,      \* bound: tokens the provider gives out
    MaxDeaths       \* bound: deaths of a process

\* auth-setup is a process besides the others; what bounds an instance counts.
ParamAssumption == Setup \notin Process /\ MaxTokens \in Nat /\ MaxDeaths \in Nat

VARIABLES
    file,       \* None, Torn, or the number of the token that is in it
    given,      \* tokens the provider gave out so far
    live,       \* tokens whose access token has not run out
    accepted,   \* tokens whose refresh token the provider takes
    work,       \* [Process or Setup -> [step, token]]
    spoilt,     \* a process died with a token it had not written, or two wrote at once
    deaths

tokenVars == <<file, given, live, accepted, work, spoilt, deaths>>

None     == 0       \* tokens are numbered from 1, in the order they are given out
Torn     == -1
Everyone == Process \cup {Setup}
Rest     == [step |-> "rest", token |-> None]
Tokens   == 1..MaxTokens

Init ==
    /\ file = None /\ given = 0 /\ live = {} /\ accepted = {}
    /\ work = [p \in Everyone |-> Rest] /\ spoilt = FALSE /\ deaths = 0

Turns(p, step, token) == work' = [work EXCEPT ![p] = [step |-> step, token |-> token]]

-----------------------------------------------------------------------------
\* Authenticate: a file that is missing or does not parse ends the login.
LoadToken(p) ==
    /\ work[p].step = "rest" /\ file \notin {None, Torn} /\ Turns(p, "loaded", file)
    /\ UNCHANGED <<file, given, live, accepted, spoilt, deaths>>

\* TokenSource.Token, the library's: the access token as long as it lasts.
Grant(n, ended) ==
    /\ n <= MaxTokens /\ given' = n /\ live' = live \cup {n} /\ accepted' = (accepted \ ended) \cup {n}

\* saveToken follows when the token is another one.  Variant: when it is the same.
ChangedNot(old, new) == new = old
Changed(old, new) == new # old

Token(p) ==
    /\ work[p].step = "loaded"
    /\ LET old == work[p].token IN
       \/ /\ old \in live /\ Turns(p, IF Changed(old, old) THEN "save" ELSE "login", old)
          /\ UNCHANGED <<given, live, accepted>>
       \/ /\ old \notin live /\ old \in accepted /\ Grant(given + 1, IF Rotates THEN {old} ELSE {})
          /\ Turns(p, IF Changed(old, given + 1) THEN "save" ELSE "login", given + 1)
       \/ /\ old \notin live /\ old \notin accepted /\ work' = [work EXCEPT ![p] = Rest]
          /\ UNCHANGED <<given, live, accepted>>
    /\ UNCHANGED <<file, spoilt, deaths>>

\* The connection logs in; the server takes an access token that lasts.
Login(p) ==
    /\ work[p].step = "login" /\ work' = [work EXCEPT ![p] = Rest]
    /\ UNCHANGED <<file, given, live, accepted, spoilt, deaths>>

\* auth-setup: a callback with the state it sent brings a code, which is
\* exchanged; every other callback is turned away, or ends the command.
Callback ==
    /\ work[Setup].step = "rest" /\ Turns(Setup, "code", None)
    /\ UNCHANGED <<file, given, live, accepted, spoilt, deaths>>

Exchange ==
    /\ work[Setup].step = "code" /\ Grant(given + 1, {}) /\ Turns(Setup, "save", given + 1)
    /\ UNCHANGED <<file, spoilt, deaths>>

-----------------------------------------------------------------------------
(* saveToken: os.WriteFile opens the file empty, then writes.              *)

Writing == {p \in Everyone : work[p].step = "write"}

Truncate(p) ==
    /\ work[p].step = "save" /\ Turns(p, "write", work[p].token) /\ file' = Torn
    /\ spoilt' = (spoilt \/ Writing # {})
    /\ UNCHANGED <<given, live, accepted, deaths>>

\* Over what another process wrote meanwhile, a shorter text leaves its end.
Fill(p) ==
    /\ work[p].step = "write" /\ Turns(p, "login", work[p].token)
    /\ file' \in {work[p].token} \cup (IF file = Torn THEN {} ELSE {Torn})
    /\ UNCHANGED <<given, live, accepted, spoilt, deaths>>

Expire(t) ==
    /\ t \in live /\ live' = live \ {t}
    /\ UNCHANGED <<file, given, accepted, work, spoilt, deaths>>

\* The process dies; a failing write ends the login in the same way.
Death(p) ==
    /\ work[p] # Rest /\ deaths < MaxDeaths /\ deaths' = deaths + 1 /\ work' = [work EXCEPT ![p] = Rest]
    /\ spoilt' = (spoilt \/ work[p].step \in {"save", "write"})
    /\ UNCHANGED <<file, given, live, accepted>>

Next ==
    \/ \E p \in Process : LoadToken(p) \/ Token(p)
    \/ \E p \in Everyone : Login(p) \/ Truncate(p) \/ Fill(p) \/ Death(p)
    \/ Callback \/ Exchange \/ \E t \in Tokens : Expire(t)

Spec == Init /\ [][Next]_tokenVars

-----------------------------------------------------------------------------
\* The variables keep their types.
TypeOK ==
    /\ given \in 0..MaxTokens /\ file \in {None, Torn} \cup 1..given
    /\ live \subseteq 1..given /\ accepted \subseteq 1..given
    /\ work \in [Everyone -> [step : {"rest", "loaded", "login", "code", "save", "write"}, token : 0..given]]
    /\ spoilt \in BOOLEAN /\ deaths \in 0..MaxDeaths

\* However logins and auth-setup come together, the file holds a token the
\* provider still refreshes, or somebody is about to write one, so that no
\* browser sign-in is needed again: unless a process died between a refresh
\* and the end of its write, or two wrote the file at once.
FileStaysGood ==
    (~spoilt /\ given > 0) => \/ file \in accepted
                              \/ \E p \in Everyone : work[p].step \in {"save", "write"} /\ work[p].token \in accepted
=============================================================================
