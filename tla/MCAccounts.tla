----------------------------- MODULE MCAccounts -----------------------------
(* Small instances of Accounts. *)
EXTENDS Accounts, TLC

CONSTANTS a1, b1, b2, t1, t2

TheAdmins == {a1}
TheBrowsers == (t1 :> b1) @@ (t2 :> b2)

\* Session ids are interchangeable, and so are the browsers with their tabs.
SwapBrowsers == (t1 :> t2) @@ (t2 :> t1) @@ (b1 :> b2) @@ (b2 :> b1)
Same == (t1 :> t1) @@ (t2 :> t2) @@ (b1 :> b1) @@ (b2 :> b2)
Symmetric == {p @@ q : p \in Permutations(Sids), q \in {Same, SwapBrowsers}}

\* Resets and sessions share nothing but the slots of requests: a behaviour
\* explores one or the other.
ResetOrSessions == (\E k \in Tokens : token[k] # "none") => \A s \in Sids : owner[s] = None
=============================================================================
