--------------------------- MODULE ProviderSearch ---------------------------
(***************************************************************************)
(* The search for providers (src/tools.py): the location is looked up,     *)
(* through a cache of the process, and the providers are asked for in up   *)
(* to four ways, each tried when the one before it found nobody.           *)
(*                                                                         *)
(* Calls of one process interleave at their awaits:                        *)
(*   zip, coords  - the operator is asked for the location                 *)
(*   located      - it has said where, and the call has not resumed        *)
(*   geo, text, city, nearby - it is asked for providers                   *)
(* Asking the cache awaits nothing, nor does writing it.  What a provider  *)
(* search is answered matters to its call alone, so that the answer and    *)
(* its arrival are one step.                                               *)
(*                                                                         *)
(* A location is its canonical city; its coordinates go with it.  What an  *)
(* input means is the operator's to say, and it may say something else     *)
(* each time it is asked.                                                  *)
(*                                                                         *)
(* Providers are matched by substrings: what place or service a text names *)
(* is not known to the program, only which tokens and stems occur in it,   *)
(* wherever they do: "ca" in "chicago, il", "carpe" in "carpentry".        *)
(***************************************************************************)
EXTENDS Naturals, FiniteSets

CONSTANTS
  Calls,      \* calls of search_providers
  Zips,       \* ZIP codes, after _coerce_location_input
  Texts,      \* other inputs, in lower case
  Cities,     \* canonical cities
  NoCity,     \* the operator gave coordinates and no name
  CityOf,     \* CityOf[l]: the part of l before the comma, or all of it
  StateOf,    \* StateOf[l]: the part after it, or all of it
  Queries,    \* services that are looked for
  Stems,      \* Stems[q]: of each word of q of four letters or more, the first five
  Providers,
  Areas,      \* Areas[p]: the operational_areas of p
  Trades,     \* Trades[p]: its categories and services
  Contains,   \* Contains[t]: the tokens and stems that occur in text t
  Replies,    \* lists of providers the operator may answer with
  Limit,      \* `limit'
  TTL,        \* CACHE_TTL_SECONDS
  Span,       \* the timeout of a lookup: 8 seconds
  MaxTime     \* bound on the clock

Where == Zips \cup Texts
Locations == Cities \cup {NoCity}

ASSUME SearchAssumption ==
  /\ NoCity \notin Cities
  /\ Zips \cap Texts = {}
  /\ IsFiniteSet(Providers)
  /\ Replies \subseteq SUBSET Providers
  /\ Limit \in Nat \ {0} /\ TTL \in Nat /\ Span \in Nat /\ MaxTime \in Nat \ {0}

VARIABLES
  now,      \* the clock, from 1
  expires,  \* expires[w]: until when the cache answers for w; 0: no entry
  place,    \* place[w]: what it answers
  where,    \* where[c]: the input of c
  query,    \* query[c]: the service it looks for
  pc,       \* pc[c]: how far it is
  since,    \* since[c]: when it was made
  sent,     \* sent[c]: when its present lookup was sent; 0: there is none
  loc,      \* loc[c]: `resolved', and before it the city of the ZIP code
  answer,   \* answer[c]: the note of its result
  shown,    \* shown[c]: the providers of its result
  heard,    \* heard[c][s]: the list that search s came back with, if it has
            \* been made (a ghost)
  told      \* told[w][l]: when the operator last said that w is l (a ghost)

input == <<where, query>>
found == <<answer, shown>>
vars == <<now, expires, place, input, pc, since, sent, loc, found, heard, told>>

Lookups == {"zip", "coords", "located"}
Searches == {"geo", "text", "city", "nearby"}
Stages == {"idle", "done"} \cup Lookups \cup Searches
Answers == {"none",         \* not answered
            "no location",  \* LOCATION_NOT_FOUND and the other errors
            "raised",       \* an exception left search_providers
            "matches",      \* providers, no note
            "local",        \* "Found local providers in ..."
            "nearby",       \* "No exact matches ... showing nearby providers"
            "nothing"}      \* "No providers came back ..."

Init ==
  /\ now = 1
  /\ expires = [w \in Where |-> 0]
  /\ place = [w \in Where |-> NoCity]
  /\ where \in [Calls -> Where]
  /\ query \in [Calls -> Queries]
  /\ pc = [c \in Calls |-> "idle"]
  /\ since = [c \in Calls |-> 0]
  /\ sent = [c \in Calls |-> 0]
  /\ loc = [c \in Calls |-> NoCity]
  /\ answer = [c \in Calls |-> "none"]
  /\ shown = [c \in Calls |-> {}]
  /\ heard = [c \in Calls |-> [s \in Searches |-> {}]]
  /\ told = [w \in Where |-> [l \in Locations |-> 0]]

Go(c, p) == pc' = [pc EXCEPT ![c] = p]

(* Slip: the call ends and says nothing. *)
GiveNothing(c, a, S) ==
  /\ Go(c, "done")
  /\ shown' = [shown EXCEPT ![c] = S]
  /\ UNCHANGED answer

Give(c, a, S) ==
  /\ Go(c, "done")
  /\ answer' = [answer EXCEPT ![c] = a]
  /\ shown' = [shown EXCEPT ![c] = S]

------------------------------------------------------------------------------
(* Slip: the expiry is not looked at. *)
Cached(w) == expires[w] # 0

(* Slip: an entry is dropped in its last second. *)
FreshBefore(w) == now < expires[w]

(* _cache_get: an entry counts up to its expiry and at it. *)
Fresh(w) == now <= expires[w]

(* validate_location_input refuses the input. *)
AskInVain(c) ==
  /\ pc[c] = "idle"
  /\ since' = [since EXCEPT ![c] = now]
  /\ Give(c, "no location", {})
  /\ UNCHANGED <<now, expires, place, input, sent, loc, heard, told>>

AskCached(c) ==
  /\ pc[c] = "idle"
  /\ Fresh(where[c])
  /\ since' = [since EXCEPT ![c] = now]
  /\ loc' = [loc EXCEPT ![c] = place[where[c]]]
  /\ Go(c, "geo")
  /\ UNCHANGED <<now, expires, place, input, sent, found, heard, told>>

(* An expired entry is dropped, and the operator is asked. *)
AskOperator(c) ==
  /\ pc[c] = "idle"
  /\ ~Fresh(where[c])
  /\ since' = [since EXCEPT ![c] = now]
  /\ sent' = [sent EXCEPT ![c] = now]
  /\ expires' = [expires EXCEPT ![where[c]] = 0]
  /\ place' = [place EXCEPT ![where[c]] = NoCity]
  /\ Go(c, IF where[c] \in Zips THEN "zip" ELSE "coords")
  /\ UNCHANGED <<now, input, loc, found, heard, told>>

(* The ZIP code has a city, and its coordinates are asked for. *)
HearZip(c, l) ==
  /\ pc[c] = "zip"
  /\ loc' = [loc EXCEPT ![c] = l]
  /\ sent' = [sent EXCEPT ![c] = now]
  /\ Go(c, "coords")
  /\ UNCHANGED <<now, expires, place, input, since, found, heard, told>>

(* The operator gives the coordinates; without a canonical city a ZIP code *)
(* keeps the city it was asked with.                                       *)
Tell(c, l) ==
  LET r == IF l = NoCity THEN loc[c] ELSE l
  IN  /\ pc[c] = "coords"
      /\ loc' = [loc EXCEPT ![c] = r]
      /\ told' = [told EXCEPT ![where[c]][r] = now]
      /\ Go(c, "located")
      /\ UNCHANGED <<now, expires, place, input, since, sent, found, heard>>

(* _cache_set, whatever the cache holds by now, and on to the search. *)
HearCoords(c) ==
  /\ pc[c] = "located"
  /\ expires' = [expires EXCEPT ![where[c]] = now + TTL]
  /\ place' = [place EXCEPT ![where[c]] = loc[c]]
  /\ sent' = [sent EXCEPT ![c] = 0]
  /\ Go(c, "geo")
  /\ UNCHANGED <<now, input, since, loc, found, heard, told>>

(* 404, no coordinates, an invalid answer, RATE_LIMITED, CIRCUIT_OPEN: the *)
(* caller is asked for another location, and nothing is cached.            *)
MissLocation(c) ==
  /\ pc[c] \in {"zip", "coords"}
  /\ sent' = [sent EXCEPT ![c] = 0]
  /\ Give(c, "no location", {})
  /\ UNCHANGED <<now, expires, place, input, since, loc, heard, told>>

(* raise_for_status, a timeout, an invalid body; in a provider search also *)
(* the refusals of the guard.                                              *)
Raise(c) ==
  /\ pc[c] \in Lookups \cup Searches
  /\ sent' = [sent EXCEPT ![c] = 0]
  /\ Give(c, "raised", {})
  /\ UNCHANGED <<now, expires, place, input, since, loc, heard, told>>

------------------------------------------------------------------------------
(* _location_tokens *)
Tokens(l) == {l, CityOf[l], StateOf[l]}

(* Some token, be it the state's, occurs in some area. *)
Serves(p, l) == \E a \in Areas[p] : Tokens(l) \cap Contains[a] # {}

(* Some stem occurs in some category; without stems everyone matches. *)
Matches(p, q) == Stems[q] = {} \/ \E k \in Trades[p] : Stems[q] \cap Contains[k] # {}

Local(c, p) == Serves(p, loc[c]) /\ Matches(p, query[c])

(* items[:limit]; the operator's order is any. *)
Cut(S) ==
  {T \in SUBSET S :
     Cardinality(T) = IF Cardinality(S) < Limit THEN Cardinality(S) ELSE Limit}

Show(c, a, S) ==
  \E T \in Cut(S) : Give(c, IF T = {} THEN "nothing" ELSE a, T)

(* The search that c is making comes back with the list R. *)
Hear(c, R) == heard' = [heard EXCEPT ![c][pc[c]] = @ \cup {R}]

(* The search by coordinates.  Without a canonical city the text searches  *)
(* are skipped.                                                            *)
SearchGeo(c, R) ==
  /\ pc[c] = "geo"
  /\ Hear(c, R)
  /\ \/ R # {} /\ Show(c, "matches", R)
     \/ /\ R = {}
        /\ Go(c, IF loc[c] = NoCity THEN "nearby" ELSE "text")
        /\ UNCHANGED found
  /\ UNCHANGED <<now, expires, place, input, since, sent, loc, told>>

(* Slip: the city's search falls back to the combined one. *)
AfterForever(p) == IF p = "text" THEN "city" ELSE "text"

(* Slip: fallback B is left out. *)
AfterText(p) == "nearby"

After(p) == IF p = "text" THEN "city" ELSE "nearby"

(* Slip: the list is cut off before it is filtered. *)
SearchFirst(c, R) ==
  /\ pc[c] \in {"text", "city"}
  /\ Hear(c, R)
  /\ \E T \in Cut(R) :
       LET local == {p \in T : Local(c, p)}
       IN  \/ local # {} /\ Give(c, "local", local)
           \/ local = {} /\ Go(c, After(pc[c])) /\ UNCHANGED found
  /\ UNCHANGED <<now, expires, place, input, since, sent, loc, told>>

(* Fallbacks A (query and city) and B (city alone), filtered alike. *)
SearchText(c, R) ==
  LET local == {p \in R : Local(c, p)}
  IN  /\ pc[c] \in {"text", "city"}
      /\ Hear(c, R)
      /\ \/ local # {} /\ Show(c, "local", local)
         \/ local = {} /\ Go(c, After(pc[c])) /\ UNCHANGED found
      /\ UNCHANGED <<now, expires, place, input, since, sent, loc, told>>

(* The last resort: anyone near the coordinates. *)
SearchNearby(c, R) ==
  /\ pc[c] = "nearby"
  /\ Hear(c, R)
  /\ Show(c, "nearby", R)
  /\ UNCHANGED <<now, expires, place, input, since, sent, loc, told>>

(* A lookup ends, or times out, within Span of its sending.  The clock     *)
(* starts with the first call.                                             *)
Tick ==
  /\ now < MaxTime
  /\ \E c \in Calls : pc[c] # "idle"
  /\ \A c \in Calls : pc[c] \in Lookups => now < sent[c] + Span
  /\ now' = now + 1
  /\ UNCHANGED <<expires, place, input, pc, since, sent, loc, found, heard, told>>

Ask(c) == AskInVain(c) \/ AskCached(c) \/ AskOperator(c)

Resume(c) ==
  \/ \E l \in Cities : HearZip(c, l)
  \/ \E l \in Locations : Tell(c, l)
  \/ HearCoords(c) \/ MissLocation(c) \/ Raise(c)
  \/ \E R \in Replies : SearchGeo(c, R) \/ SearchText(c, R) \/ SearchNearby(c, R)

Next == Tick \/ \E c \in Calls : Ask(c) \/ Resume(c)

Spec == Init /\ [][Next]_vars

(* Every await has a timeout, and the event loop resumes what it woke. *)
Fairness == \A c \in Calls : WF_vars(Resume(c))
FairSpec == Spec /\ Fairness

------------------------------------------------------------------------------
(* A call is answered when, and only when, it is done. *)
Answered == \A c \in Calls : (answer[c] # "none") <=> (pc[c] = "done")

TypeOK ==
  /\ now \in 1..MaxTime
  /\ expires \in [Where -> 0..(MaxTime + TTL)]
  /\ place \in [Where -> Locations]
  /\ where \in [Calls -> Where]
  /\ query \in [Calls -> Queries]
  /\ pc \in [Calls -> Stages]
  /\ since \in [Calls -> 0..MaxTime]
  /\ sent \in [Calls -> 0..MaxTime]
  /\ loc \in [Calls -> Locations]
  /\ answer \in [Calls -> Answers]
  /\ shown \in [Calls -> SUBSET Providers]
  /\ heard \in [Calls -> [Searches -> SUBSET Replies]]
  /\ told \in [Where -> [Locations -> 0..MaxTime]]
  /\ Answered

(* The location a search uses, from the cache or not, is what the operator *)
(* said of this very input, at most the cache's lifetime and one request   *)
(* before the search was made: however lookups of the same input overlap,  *)
(* and whichever of them writes the cache last (src/tools.py _cache_get).  *)
Used(c) ==
  pc[c] \in Searches \/ answer[c] \in {"matches", "local", "nearby", "nothing"}

AnswersAreRecent ==
  \A c \in Calls : Used(c) =>
    LET t == told[where[c]][loc[c]]
    IN  t # 0 /\ t + TTL + Span >= since[c]

(* While an entry of the cache is good, nothing takes its place except the *)
(* result of a lookup that was under way when the entry was written: the   *)
(* cache spares the operator every later one (src/tools.py _cache_set).    *)
FreshStays ==
  [][\A w \in Where :
       now <= expires[w] /\ <<expires'[w], place'[w]>> # <<expires[w], place[w]>> =>
         \E c \in Calls : /\ where[c] = w
                          /\ pc[c] = "located" /\ pc'[c] = "geo"
                          /\ since[c] + TTL <= expires[w]]_vars

(* A provider who was found is not withheld.  A result falls back on a wider *)
(* search only after every narrower one that the location allows was made    *)
(* and gave nobody: "local" after the search by coordinates found nobody, an *)
(* apology ("No exact matches ...") only when moreover none of those who     *)
(* came back from either text search, on whatever place of the list, passes  *)
(* the tests of place and service, and "No providers came back ..." only     *)
(* when the last resort found nobody either (the chain of fallbacks in       *)
(* search_providers).  What the tests let through is another matter, see     *)
(* CityIsAuthoritative.                                                      *)
NoMatchIsWithheld ==
  \A c \in Calls :
    /\ answer[c] \in {"local", "nearby", "nothing"} => heard[c]["geo"] = {{}}
    /\ answer[c] \in {"nearby", "nothing"} => \A s \in {"text", "city"} :
         /\ loc[c] # NoCity => heard[c][s] # {}
         /\ \A R \in heard[c][s] : \A p \in R : ~(Serves(p, loc[c]) /\ Matches(p, query[c]))
    /\ answer[c] = "nothing" => heard[c]["nearby"] = {{}}

(* Every search that is under way ends (the four attempts end, and none    *)
(* leads back to an earlier one; src/tools.py search_providers).           *)
EverySearchEnds ==
  \A c \in Calls : <>[](pc[c] \in {"idle", "done"})

(* _provider_serves_location: "We treat the city token as authoritative; a *)
(* state-only match is allowed only if no city token is provided."  A      *)
(* canonical city always gives one.                                        *)
CityIsAuthoritative ==
  \A c \in Calls : answer[c] = "local" =>
    \A p \in shown[c] : \E a \in Areas[p] : CityOf[loc[c]] \in Contains[a]
=============================================================================
