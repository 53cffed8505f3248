------------------------------- MODULE Admin -------------------------------
(***************************************************************************)
(* What an operator does to streams: reading one back (Replay), provisioning *)
(* it and its durables (Provision), listing what there is (Listing), and     *)
(* bringing dead letters home (Journey); and requests and replies, whose     *)
(* payloads travel as those of a stream do (Exchange). They share nothing    *)
(* but the server; side says which of them a behaviour is about.             *)
(***************************************************************************)
EXTENDS Replay, Provision, Listing, Journey, Exchange

CONSTANT Sides

VARIABLE side

vars == <<side, replayVars, provisionVars, listingVars, journeyVars, exchangeVars>>

TypeOK == side \in Sides /\ ReplayTypeOK /\ ProvisionTypeOK /\ ListingTypeOK /\ JourneyTypeOK /\ ExchangeTypeOK

\* The sides a behaviour is not about stay in one of their initial states.
Init ==
    /\ side \in Sides
    /\ ReplayInit /\ (side # "replay" => lastSeq = 0 /\ job = CHOOSE j \in ReplayJobs : TRUE)
    /\ ProvisionInit /\ (side # "provision" => stream = 0)
    /\ ListingInit /\ (side # "listing" => names = {} /\ listing.limit = CHOOSE l \in Limits : TRUE)
    /\ JourneyInit /\ (side # "journey" => wiring = CHOOSE w \in Wirings : TRUE)
    /\ ExchangeInit /\ (side # "exchange" => link = CHOOSE l \in Links : TRUE)

Next ==
    \/ side = "replay" /\ ReplayNext /\ UNCHANGED <<side, provisionVars, listingVars, journeyVars, exchangeVars>>
    \/ side = "provision" /\ ProvisionNext /\ UNCHANGED <<side, replayVars, listingVars, journeyVars, exchangeVars>>
    \/ side = "listing" /\ ListingNext /\ UNCHANGED <<side, replayVars, provisionVars, journeyVars, exchangeVars>>
    \/ side = "journey" /\ JourneyNext /\ UNCHANGED <<side, replayVars, provisionVars, listingVars, exchangeVars>>
    \/ side = "exchange" /\ ExchangeNext /\ UNCHANGED <<side, replayVars, provisionVars, listingVars, journeyVars>>

Spec == Init /\ [][Next]_vars
=============================================================================
