----------------------------- MODULE NetInterfaces -----------------------------
(***************************************************************************)
(* The choice of the interface for RTP (common/src/net.rs), over what      *)
(* /sys/class/net says: a function from the interfaces there are to their  *)
(* operstate, multicast flag and MTU.                                      *)
(***************************************************************************)
EXTENDS Integers, FiniteSets

CONSTANTS
    LegalName,          \* the names validate_interface_name accepts
    Physical            \* those named en*, eth* or wl*, or with a device behind them

NoInterface == "none"   \* an error

Usable(links, name) ==
    /\ name \in DOMAIN links
    /\ links[name].operational
    /\ links[name].multicast

Candidates(links) == {name \in DOMAIN links \ {"lo"} : Usable(links, name) /\ name \in Physical}

\* Mutant: the first of several.
MutantChooseAutoInterface(candidates) ==
    IF candidates = {} THEN NoInterface ELSE CHOOSE name \in candidates : TRUE

ChooseAutoInterface(candidates) ==
    IF Cardinality(candidates) = 1 THEN CHOOSE name \in candidates : TRUE ELSE NoInterface

ResolveInterfaceName(selection, links) ==
    IF selection = "auto" THEN ChooseAutoInterface(Candidates(links))
    ELSE IF /\ selection \in LegalName \intersect DOMAIN links
            /\ links[selection].operational
            /\ selection = "lo" \/ links[selection].multicast
         THEN selection ELSE NoInterface

RtpMtuFitsIpv4Link(link_mtu, rtp_mtu) == rtp_mtu + 28 <= link_mtu

ResolveInterfaceNameForRtp(selection, rtp_mtu, links) ==
    LET name == ResolveInterfaceName(selection, links)
    IN IF name = NoInterface \/ RtpMtuFitsIpv4Link(links[name].mtu, rtp_mtu)
       THEN name ELSE NoInterface
=============================================================================
