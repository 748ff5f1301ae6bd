------------------------------ MODULE DNSCheck ------------------------------
(***************************************************************************)
(* DNS checks (model/monitor_dns.go): the resolver a check asks, and the   *)
(* value it expects next to the value an agent decoded; the origin secret  *)
(* headers are bound to (model/monitor_checks.go).                         *)
(*                                                                         *)
(* A host is [kind, id, upper, form, dot, zone, brackets]: an ASCII "name" *)
(* or an "ip4" or "ip6" address, or "bad"; upper, dot and zone say that it *)
(* is written with capitals, a final dot and a zone, form how an IPv6      *)
(* address is written once in lower case.  A target is [scheme, upper,     *)
(* opaque, extras, host, port, zeros, path]; a port is a number with so    *)
(* many zeros before it, None, or Empty (a colon and nothing after it).    *)
(***************************************************************************)
EXTENDS Integers, Sequences

None == -1
Empty == -2
MaxPort == 3  \* 65535, with the ports written in the inputs around it

Failed == <<>>

NoPath == ""
Bare(path) == path \in {NoPath, "/"}
Nameless(h) == h.id = ""

\* The default ports, as numbers below MaxPort.
DefaultPort(transport) == CASE transport = "https" -> 1 [] transport = "tls" -> 2 [] OTHER -> 3

AsNetip == "netip"  \* the form of an address netip writes

\* A host in lower case: as it is stored, without dot and brackets and as
\* netip writes it, and as it is put in a URL, in the form it has.
Lower(h, form, dot, brackets) ==
  [kind |-> h.kind, id |-> h.id, upper |-> FALSE, form |-> form, dot |-> dot, zone |-> h.zone, brackets |-> brackets]
Canonical(h) == Lower(h, AsNetip, FALSE, FALSE)
InURL(h) == Lower(h, h.form, h.dot, h.kind = "ip6")

\* url.Parse takes an IPv6 host in brackets only.
Unbracketed(h) == h.kind = "ip6" /\ ~h.brackets

\* NormalizeDNSName: digits and dots are a name as well.
NormalizeDNSName(h) == IF h.kind \in {"name", "ip4"} THEN <<Canonical(h)>> ELSE Failed

\* The host of ParseDNSResolver: an address, or else a name.
ResolverHost(h) ==
  IF h.kind \in {"ip4", "ip6"} /\ ~h.dot
  THEN IF h.zone \/ Unbracketed(h) THEN Failed ELSE <<Canonical(h)>>
  ELSE NormalizeDNSName(h)

\* ParseDNSResolver.
ParseDNSResolver(t) ==
  LET host == ResolverHost(t.host)
  IN IF \/ t.opaque \/ Nameless(t.host)
        \/ t.scheme \notin {"https", "tls", "udp", "tcp"}
        \/ t.extras
        \/ t.port = Empty \/ (t.port # None /\ t.port \notin 1..MaxPort)
        \/ host = Failed
        \/ (t.scheme = "https") # ~Bare(t.path)
     THEN Failed
     ELSE <<[transport |-> t.scheme, host |-> host[1],
             port |-> IF t.port = None THEN DefaultPort(t.scheme) ELSE t.port,
             path |-> IF t.scheme = "https" THEN t.path ELSE NoPath]>>

\* DNSResolver.HostPort and URL: where a run connects.
HostPort(r) == <<InURL(r.host), r.port>>
URL(r) == IF r.transport = "https" THEN <<HostPort(r), r.path>> ELSE <<>>

\* DNSResolver.String: the port only when it is not the default.
String(r) ==
  [scheme |-> r.transport, upper |-> FALSE, opaque |-> FALSE, extras |-> FALSE,
   host |-> InURL(r.host),
   port |-> IF r.port = DefaultPort(r.transport) THEN None ELSE r.port, zeros |-> 0, path |-> r.path]

\* CanonicalDNSValue.
CanonicalDNSValue(typ, v) ==
  CASE typ = "A" -> IF v.kind = "ip4" /\ ~v.dot /\ ~v.zone THEN <<Canonical(v)>> ELSE Failed
    [] typ = "AAAA" -> IF v.kind = "ip6" /\ ~v.dot /\ ~v.zone THEN <<Canonical(v)>> ELSE Failed
    [] typ \in {"CNAME", "MX", "NS"} -> NormalizeDNSName(v)
    [] typ = "TXT" -> IF Nameless(v) THEN Failed ELSE <<v>>
    [] OTHER -> Failed

-----------------------------------------------------------------------------
\* The port of an origin, and the zeros it is written with.
Portless(t) == t.port \in {None, Empty}
OriginPort(t) == IF Portless(t) THEN IF t.scheme = "http" THEN 3 ELSE 1 ELSE t.port
OriginZeros(t) == IF Portless(t) THEN 0 ELSE t.zeros

\* MonitorOrigin: scheme and host in lower case, the port always written; the
\* rest of the host and the digits of the port stay as they are.
MonitorOrigin(t) ==
  IF t.opaque \/ Unbracketed(t.host) \/ t.scheme \notin {"http", "https"} \/ Nameless(t.host) THEN Failed
  ELSE <<[scheme |-> t.scheme, host |-> InURL(t.host), port |-> OriginPort(t), zeros |-> OriginZeros(t)]>>

\* The text of an origin, as a target; that of a host with a zone is none,
\* because JoinHostPort does not escape it.
OriginText(o) ==
  [scheme |-> o.scheme, upper |-> FALSE, opaque |-> FALSE, extras |-> FALSE, host |-> o.host, port |-> o.port, zeros |-> o.zeros, path |-> NoPath]

-----------------------------------------------------------------------------
\* The endpoint a target means, whatever its spelling.
Endpoint(t) == <<t.scheme, t.host.kind, t.host.id, IF t.port = None THEN DefaultPort(t.scheme) ELSE t.port,
                 IF t.scheme = "https" THEN t.path ELSE NoPath>>

\* A stored target reads back as the resolver it is the text of, and two
\* targets have one text exactly when they mean one endpoint.
OneText(t, u) ==
  LET r == ParseDNSResolver(t)
      s == ParseDNSResolver(u)
  IN /\ r # Failed => ParseDNSResolver(String(r[1])) = r
     /\ r # Failed /\ s # Failed => (String(r[1]) = String(s[1]) <=> Endpoint(t) = Endpoint(u))

\* The endpoint a target reaches over HTTP, and what of its spelling is kept.
Reached(t) == <<t.scheme, t.host.kind, t.host.id, t.host.dot, t.host.zone, OriginPort(t)>>
Spelled(t) == <<t.host.form, OriginZeros(t)>>

\* Secrets bound to an origin go to one scheme, host and port; the target can
\* be written with capitals, with or without its default port and as the
\* origin itself and keeps them, not with another form of its address or port.
OneOrigin(t, u) ==
  LET o == MonitorOrigin(t)
      p == MonitorOrigin(u)
  IN /\ o # Failed /\ ~t.host.zone => MonitorOrigin(OriginText(o[1])) = o
     /\ o # Failed /\ p # Failed => (o = p <=> Reached(t) = Reached(u) /\ Spelled(t) = Spelled(u))

\* An expected value and an answer compare as what they name; storing a value
\* twice changes nothing.
OneValue(typ, v, w) ==
  LET a == CanonicalDNSValue(typ, v)
      b == CanonicalDNSValue(typ, w)
  IN /\ a # Failed => CanonicalDNSValue(typ, a[1]) = a
     /\ a # Failed /\ b # Failed /\ typ # "TXT" => (a = b <=> v.kind = w.kind /\ v.id = w.id)
=============================================================================
