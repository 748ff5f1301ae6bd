---------------------------- MODULE Destinations ----------------------------
(***************************************************************************)
(* Which destinations are refused: those of a check                        *)
(* (model/monitor_checks.go), of a beacon (beacon/addr.go) and of a URL a  *)
(* client opens (model/subscription_methods.go).                           *)
(*                                                                         *)
(* An address is [form, class, zone].  The class of an IPv4 address is its *)
(* range; an IPv6 address is "v6" with a class of its own, or one of the   *)
(* forms that carry an IPv4 address, whose class is then that address's.   *)
(***************************************************************************)
EXTENDS Integers, Sequences, FiniteSets

V4 == {"zero", "this", "loopback", "metadata", "private", "cgnat", "ietf", "relay", "bench", "docs", "multicast", "reserved", "broadcast", "public"}
V6 == {"zero", "loopback", "multicast", "linklocal", "unique", "metadata", "compat", "site", "teredo", "localnat", "discard", "docs", "public"}
Embeds == {"mapped", "nat64", "translated", "sixtofour"}

Addresses ==
  [form : {"v4"}, class : V4, zone : {FALSE}] \cup [form : Embeds, class : V4, zone : BOOLEAN]
  \cup [form : {"v6"}, class : V6, zone : BOOLEAN]

\* netip.Addr.Unmap, and WithZone("").
Unmap(a) == IF a.form = "mapped" THEN [a EXCEPT !.form = "v4", !.zone = FALSE] ELSE a
NoZone(a) == [form |-> a.form, class |-> a.class, zone |-> FALSE]

\* IsUnspecified, IsLoopback, IsMulticast, IsLinkLocalUnicast and IsPrivate.
NetIP(a) ==
  IF a.form = "v4" THEN a.class \in {"zero", "loopback", "multicast", "metadata", "private"}
  ELSE a.form = "v6" /\ a.class \in {"zero", "loopback", "multicast", "linklocal", "unique", "metadata"}

\* Mutant of Embedded: a 6to4 address carries none.
EmbeddedButSixToFour(a) == IF a.form \in {"nat64", "translated"} THEN {[form |-> "v4", class |-> a.class, zone |-> FALSE]} ELSE {}

\* The IPv4 address inside a transition form.
Embedded(a) == IF a.form \in {"nat64", "translated", "sixtofour"} THEN {[form |-> "v4", class |-> a.class, zone |-> FALSE]} ELSE {}

\* The ranges netip has no name for, of either family.
MonitorPrefixes(a) ==
  IF a.form = "v4" THEN a.class \in {"zero", "this", "cgnat", "ietf", "relay", "bench", "reserved", "broadcast"}
  ELSE a.form = "v6" /\ a.class \in {"localnat", "compat", "zero", "loopback", "site", "teredo", "discard"}

\* MonitorDestinationRefused: the embedded address is judged in the same way.
MonitorDestinationRefused(addr) ==
  LET Judged(a) == NetIP(a) \/ MonitorPrefixes(a)
      a == NoZone(Unmap(addr))
  IN Judged(a) \/ \E e \in Embedded(a) : Judged(e)

-----------------------------------------------------------------------------
\* AddressRefused; ParseIPv4 of a canonical literal, ParseEndpoint with a port.
AddressRefused(a) == a.form # "v4" \/ a.class \in {"zero", "this", "loopback", "metadata", "multicast", "reserved", "broadcast"}

ParseEndpoint(host, port) == host.kind = "literal" /\ ~host.odd /\ ~host.dot /\ ~AddressRefused(host.addr) /\ port \in 1..65535

-----------------------------------------------------------------------------
(***************************************************************************)
(* URLs.  A host is [kind, addr, dot, odd, local, last]: a "literal" netip *)
(* reads, a "short" form of an IPv4 address it does not (127.1), or a      *)
(* "name"; dot is a final dot, odd a literal that is not written as netip  *)
(* writes it, local a text without an ASCII dot or with the suffix of a    *)
(* local name, and last what the label after the last ASCII dot is: ASCII  *)
(* "digits", "hex" after a 0x, "letters", or "wide" when it has a digit or *)
(* a dot from beyond ASCII, which a client maps to the ASCII one.          *)
(***************************************************************************)
\* publicAddress.
PublicAddress(a) ==
  /\ ~NetIP(a) /\ ~(a.form = "v4" /\ a.class = "broadcast")
  /\ ~(a.form = "v4" /\ a.class \in {"cgnat", "bench", "docs"})
  /\ a.form # "nat64" /\ ~(a.form = "v6" /\ a.class \in {"docs", "localnat"})

\* numericAddressName: the label after the last ASCII dot is ASCII digits, or
\* starts with 0x.
NumericAddressName(host) == host.last \in {"digits", "hex"}

\* The host of validatePublicHTTPSURL; a final dot keeps netip from reading a
\* literal.
HostAccepted(host) ==
  IF host.kind = "literal" /\ ~host.dot THEN ~host.addr.zone /\ PublicAddress(Unmap(host.addr))
  ELSE ~host.dot /\ ~host.local /\ ~NumericAddressName(host)

\* validatePublicHTTPSURL: a URL is [short, https, user, host], short when it is
\* bounded and free of white space.
PublicHTTPSURL(u) == u.short /\ u.https /\ ~u.user /\ HostAccepted(u.host)

\* ValidateSubscriptionResponseHeader: a header is [name, value, hours, url];
\* hours is the number it reads as, -1 for none.
ResponseHeader(h, minHours, maxHours) ==
  /\ h.name \in {"content-disposition", "plan-name", "profile-update-interval", "profile-web-page-url"}
  /\ h.value
  /\ h.name = "profile-update-interval" => h.hours \in minHours..maxHours
  /\ h.name = "profile-web-page-url" => PublicHTTPSURL(h.url)

-----------------------------------------------------------------------------
\* What a client that follows the host dials: the IPv4 address of a literal,
\* of its mapped form or of its short form, else the literal itself.
Dials(host) == IF host.addr.form \in {"mapped", "v4"} THEN [form |-> "v4", class |-> host.addr.class, zone |-> FALSE] ELSE host.addr

\* The addresses a check is refused and a client is not: publicAddress has no
\* range for them.
OnlyChecksRefuse(a) ==
  \/ a.form \in {"translated", "sixtofour"}
  \/ a.form = "v4" /\ a.class \in {"this", "ietf", "relay", "reserved"}
  \/ a.form = "v6" /\ a.class \in {"compat", "site", "teredo", "discard"}

\* The IPv4 address a check reaches through an address.
Reaches(a) == IF a.form = "v6" THEN {} ELSE {[form |-> "v4", class |-> a.class, zone |-> FALSE]}
=============================================================================
