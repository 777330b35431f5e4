---------------------------- MODULE GetAddrInfo ----------------------------
(***************************************************************************)
(* The two versions of getaddrinfo() that come with the library:            *)
(*   libgai/getaddrinfo.c and ga_*.c     the version of the book            *)
(*   libfree/getaddrinfo.c               the older one, in one file         *)
(* Both build a linked list of addrinfo{}, one for each address of the      *)
(* host, then give each entry the port of the service and clone it for the  *)
(* second socket type.  Any allocation may fail.  The blocks on the heap    *)
(* are counted, so that what is not freed shows.  An address is a family    *)
(* and a number.                                                            *)
(***************************************************************************)
EXTENDS Integers, Sequences, SequencesExt

CONSTANTS NA,      \* numbers of A records a name may have
          NAAAA    \* numbers of AAAA records

VARIABLES
  version,   \* "libgai" or "libfree"
  host, serv, hints,
  dns,       \* the number of A and AAAA records of the name
  res_inet6, \* RES_USE_INET6 is set in _res.options
  gpc,
  failed,    \* families whose lookup failed for now (TRY_AGAIN)
  search,    \* searches still to be made
  nsearch,
  haddrs,    \* addresses still to be put in the list
  aihead,    \* the list
  started,   \* aihead has a value
  canon,     \* canon points to a string
  passes,    \* calls of ga_port() still to be made
  nfound,
  live,      \* blocks on the heap
  rc         \* the result: 0 or an error

ginput == <<version, host, serv, hints, dns>>
gvars == <<ginput, res_inet6, gpc, failed, search, nsearch, haddrs, aihead, started, canon, passes,
           nfound, live, rc>>

-----------------------------------------------------------------------------
(* Arguments.                                                              *)

Hosts == {"null", "v4", "v6", "name", "local"}   \* "local" starts with a slash
Servs == {"null", "port", "both", "tcp", "udp", "unknown", "path"}
Families == {"unspec", "inet", "inet6", "local", "other"}
Socktypes == {"any", "stream", "dgram", "raw", "other"}
Flags == {{}, {"passive"}, {"canonname"}, {"passive", "canonname"}, {"unknown"}}

Addr(f, k) == [fam |-> f, k |-> k]
Inet == [i \in 1 .. dns.a |-> Addr("inet", i)]
Inet6 == [i \in 1 .. dns.aaaa |-> Addr("inet6", i)]
Mapped == [i \in 1 .. dns.a |-> Addr("inet6", 10 + i)]
localhost == Addr("inet", 127)
Literal(h) ==   \* of inet_pton()
  CASE h = "v4" -> Addr("inet", 9) [] h = "v6" -> Addr("inet6", 9)
    [] h = "0.0.0.0" -> Addr("inet", 0) [] h = "0::0" -> Addr("inet6", 0)
    [] h = "0::1" -> Addr("inet6", 127)
IsLiteral(h) == h \in {"v4", "v6", "0.0.0.0", "0::0", "0::1"}

\* What the resolver finds for one family; IPv4 addresses are mapped by
\* gethostbyname() when RES_USE_INET6 is set.
gethostbyname2(h, f) ==
  CASE h = "localhost" -> IF f = "inet" THEN <<localhost>> ELSE << >>
    [] h = "name" -> IF f = "inet" THEN Inet ELSE Inet6
    [] OTHER -> << >>

gethostbyname(h, inet6) ==
  IF ~inet6 THEN gethostbyname2(h, "inet")
  ELSE CASE h = "localhost" -> <<Addr("inet6", 137)>>
         [] h = "name" -> IF Inet6 # << >> THEN Inet6 ELSE Mapped
         [] OTHER -> << >>

Init ==
  /\ version \in {"libgai", "libfree"}
  /\ host \in Hosts /\ serv \in Servs
  /\ hints \in [flags : Flags, family : Families, socktype : Socktypes]
  /\ dns \in IF host = "name" THEN [a : NA, aaaa : NAAAA] ELSE {[a |-> 0, aaaa |-> 0]}
  /\ res_inet6 \in BOOLEAN
  /\ gpc = "check" /\ failed = {} /\ search = << >> /\ nsearch = 0 /\ haddrs = << >>
  /\ aihead = << >> /\ started = (version = "libgai") /\ canon = FALSE
  /\ passes = << >> /\ nfound = 0 /\ live = 0 /\ rc = "0"

Has(flag) == flag \in hints.flags
error(e) == rc' = e /\ gpc' = "bad"

-----------------------------------------------------------------------------
(* The checks.                                                             *)

BadSocktype ==
  \/ hints.family \in {"inet", "inet6"} /\ hints.socktype = "other"
  \/ hints.family = "local" /\ hints.socktype \in {"raw", "other"}

ga_echeck ==
  CASE Has("unknown") -> "BADFLAGS"
    [] ~Has("unknown") /\ host = "null" /\ serv = "null" -> "NONAME"
    [] ~Has("unknown") /\ ~(host = "null" /\ serv = "null") ->
         IF hints.family = "other" THEN "FAMILY" ELSE IF BadSocktype THEN "SOCKTYPE" ELSE "0"

Search(h, f) == [host |-> h, family |-> f]

\* IPv6 first, then IPv4.
ga_nsearch ==
  LET six == IF host # "null" THEN host ELSE IF Has("passive") THEN "0::0" ELSE "0::1"
      four == IF host # "null" THEN host ELSE IF Has("passive") THEN "0.0.0.0" ELSE "localhost"
  IN (IF hints.family \in {"inet6", "unspec"} THEN <<Search(six, "inet6")>> ELSE << >>)
     \o (IF hints.family \in {"inet", "unspec"} THEN <<Search(four, "inet")>> ELSE << >>)

ga_check ==
  /\ version = "libgai" /\ gpc = "check"
  /\ CASE ga_echeck # "0" -> error(ga_echeck) /\ UNCHANGED <<search, nsearch>>
       [] ga_echeck = "0" /\ host = "local" /\ serv = "path" ->
            gpc' = "unix" /\ UNCHANGED <<rc, search, nsearch>>
       [] ga_echeck = "0" /\ ~(host = "local" /\ serv = "path") ->
            /\ search' = ga_nsearch /\ nsearch' = Len(ga_nsearch) /\ UNCHANGED rc
            /\ gpc' = IF ga_nsearch = << >> THEN "quit" ELSE "search"   \* err_quit()
  /\ UNCHANGED <<ginput, res_inet6, failed, haddrs, aihead, started, canon, passes,
                 nfound, live>>

\* libfree: the family of a literal address, the default host.
fr_family ==
  CASE hints.family = "unspec" /\ host = "v4" -> "inet"
    [] hints.family = "unspec" /\ host = "v6" -> "inet6"
    [] OTHER -> hints.family

fr_host ==
  CASE host # "null" -> host
    [] host = "null" /\ ~Has("passive") -> "localhost"
    [] host = "null" /\ Has("passive") -> IF hints.family = "inet" THEN "0.0.0.0" ELSE "0::0"

fr_error ==
  CASE Has("unknown") -> "BADFLAGS"
    [] ~Has("unknown") /\ hints.family = "other" -> "FAMILY"
    [] ~Has("unknown") /\ hints.family # "other" /\ BadSocktype -> "SOCKTYPE"
    [] OTHER ->
         IF host # "null" THEN "0"
         ELSE IF serv = "null" THEN "NONAME"
         ELSE IF Has("passive") /\ (hints.family = "unspec" \/ (hints.family = "local" /\ serv # "path"))
         THEN "ADDRFAMILY" ELSE "0"

fr_check ==
  /\ version = "libfree" /\ gpc = "check"
  /\ CASE fr_error # "0" -> error(fr_error) /\ UNCHANGED search
       [] fr_error = "0" /\ (host = "local" \/ serv = "path") ->
            gpc' = "unix" /\ UNCHANGED <<rc, search>>
       [] fr_error = "0" /\ ~(host = "local" \/ serv = "path") ->
            gpc' = "search" /\ search' = <<Search(fr_host, fr_family)>> /\ UNCHANGED rc
  /\ UNCHANGED <<ginput, res_inet6, failed, nsearch, haddrs, aihead, started, canon, passes,
                 nfound, live>>

-----------------------------------------------------------------------------
(* The addresses of the host.                                              *)

\* One search: an address as such, or the resolver.
ga_search ==
  LET s == Head(search)
      usev6 == nsearch = 1 /\ s.family = "inet6"
      found == IF nsearch = 2 THEN gethostbyname2(s.host, s.family) ELSE gethostbyname(s.host, usev6)
      keeps == host # "null" /\ Has("canonname") /\ ~canon
  IN
  /\ version = "libgai" /\ gpc = "search" /\ search # << >>
  /\ IF IsLiteral(s.host)
     THEN /\ IF hints.family \notin {"unspec", Literal(s.host).fam}
             THEN error("ADDRFAMILY") /\ UNCHANGED haddrs
             ELSE /\ gpc' = "addrs" /\ UNCHANGED rc
                  /\ haddrs' = IF s.family = Literal(s.host).fam THEN <<Literal(s.host)>> ELSE << >>
          /\ UNCHANGED <<res_inet6, failed, canon, live>>
     ELSE /\ res_inet6' = usev6
          /\ failed' \in {failed, failed \cup {s.family}}
          /\ CASE s.family \in failed' ->
                    /\ IF nsearch = 2 THEN gpc' = "addrs" /\ UNCHANGED rc ELSE error("AGAIN")
                    /\ UNCHANGED <<haddrs, canon, live>>
               [] s.family \notin failed' /\ found = << >> /\ nsearch = 2 ->
                    gpc' = "addrs" /\ UNCHANGED <<rc, haddrs, canon, live>>
               [] s.family \notin failed' /\ found = << >> /\ nsearch = 1 ->
                    error("NONAME") /\ UNCHANGED <<haddrs, canon, live>>
               [] s.family \notin failed' /\ found # << >> /\ hints.family \notin {"unspec", found[1].fam} ->
                    error("ADDRFAMILY") /\ UNCHANGED <<haddrs, canon, live>>
               [] s.family \notin failed' /\ found # << >> /\ hints.family \in {"unspec", found[1].fam} ->
                    \/ /\ gpc' = "addrs" /\ haddrs' = found /\ UNCHANGED rc
                       /\ canon' = (canon \/ keeps) /\ live' = IF keeps THEN live + 1 ELSE live
                    \/ keeps /\ error("MEMORY") /\ UNCHANGED <<haddrs, canon, live>>
  /\ search' = Tail(search)
  /\ UNCHANGED <<ginput, nsearch, aihead, started, passes, nfound>>

SameFamily(f, found) == f \in {"unspec", found[1].fam}

\* libfree never switches RES_USE_INET6 off again.
getaddrinfo_host ==
  LET s == Head(search)
      inet6 == res_inet6 \/ s.family = "inet6"
      found == IF IsLiteral(s.host) THEN <<Literal(s.host)>> ELSE gethostbyname(s.host, inet6)
  IN
  /\ version = "libfree" /\ gpc = "search" /\ search # << >>
  /\ res_inet6' = IF IsLiteral(s.host) THEN res_inet6 ELSE inet6
  /\ failed' \in IF IsLiteral(s.host) THEN {{}} ELSE {{}, {s.family}}
  /\ CASE failed' # {} -> error("AGAIN") /\ UNCHANGED <<haddrs, started>>
       [] failed' = {} /\ found = << >> -> error("NONAME") /\ UNCHANGED <<haddrs, started>>
       [] failed' = {} /\ found # << >> /\ ~SameFamily(s.family, found) ->
            error("ADDRFAMILY") /\ UNCHANGED <<haddrs, started>>
       [] failed' = {} /\ found # << >> /\ SameFamily(s.family, found) ->
            gpc' = "addrs" /\ haddrs' = found /\ started' = TRUE /\ UNCHANGED rc
  /\ search' = Tail(search)
  /\ UNCHANGED <<ginput, nsearch, aihead, canon, passes, nfound, live>>

Entry(a, t) == [fam |-> a.fam, k |-> a.k, socktype |-> t, port |-> "0", clone |-> t = "any",
                addr |-> TRUE, name |-> FALSE]

\* ga_aistruct(): the entry is linked first, then gets its address.
ga_aistruct(a, t, next) ==
  \/ aihead' = Append(aihead, Entry(a, t)) /\ live' = live + 2 /\ gpc' = next /\ UNCHANGED rc
  \/ aihead' = Append(aihead, [Entry(a, t) EXCEPT !.addr = FALSE]) /\ live' = live + 1 /\ error("MEMORY")
  \/ error("MEMORY") /\ UNCHANGED <<aihead, live>>

ga_addrs ==
  /\ gpc = "addrs" /\ haddrs # << >>
  /\ ga_aistruct(Head(haddrs), hints.socktype, "addrs") /\ haddrs' = Tail(haddrs)
  /\ UNCHANGED <<ginput, res_inet6, failed, search, nsearch, started, canon, passes, nfound>>

ga_next ==
  /\ gpc = "addrs" /\ haddrs = << >>
  /\ IF search # << >> THEN gpc' = "search" /\ UNCHANGED rc
     ELSE IF aihead = << >> THEN error("NONAME") ELSE gpc' = "canon" /\ UNCHANGED rc
  /\ UNCHANGED <<ginput, res_inet6, failed, search, nsearch, haddrs, aihead, started, canon, passes,
                 nfound, live>>

\* The canonical name goes to the first entry.
ga_canon ==
  /\ gpc = "canon"
  /\ IF Has("canonname") /\ (host # "null" \/ version = "libfree")
     THEN \/ /\ aihead' = [aihead EXCEPT ![1].name = TRUE]
             /\ live' = (IF canon THEN live ELSE live + 1) /\ canon' = FALSE
             /\ gpc' = "serv" /\ UNCHANGED rc
          \/ ~canon /\ error("MEMORY") /\ UNCHANGED <<aihead, live, canon>>
     ELSE gpc' = "serv" /\ UNCHANGED <<aihead, live, canon, rc>>
  /\ UNCHANGED <<ginput, res_inet6, failed, search, nsearch, haddrs, started, passes, nfound>>

-----------------------------------------------------------------------------
(* The service.                                                            *)

Stream == serv \in {"both", "tcp"}   \* getservbyname(serv, "tcp")
Dgram == serv \in {"both", "udp"}
Wants(t) == hints.socktype \in {"any", t}

ByName ==
  (IF Wants("stream") /\ Stream THEN <<"stream">> ELSE << >>)
  \o (IF Wants("dgram") /\ Dgram THEN <<"dgram">> ELSE << >>)

\* The socket types that ga_port() is called for.
ga_serv ==
  IF serv # "port" THEN ByName
  ELSE IF hints.socktype # "any" THEN <<hints.socktype>> ELSE <<"stream", "dgram">>

\* libfree takes a number only for a given socket type.
getaddrinfo_serv == IF serv = "port" /\ hints.socktype # "any" THEN <<hints.socktype>> ELSE ByName

ga_service ==
  /\ gpc = "serv"
  /\ IF serv = "null" THEN gpc' = "return" /\ UNCHANGED passes
     ELSE gpc' = "port" /\ passes' = IF version = "libgai" THEN ga_serv ELSE getaddrinfo_serv
  /\ UNCHANGED <<ginput, res_inet6, failed, search, nsearch, haddrs, aihead, started, canon, nfound,
                 live, rc>>

SetPort(e, t) == [e EXCEPT !.socktype = t, !.port = t]
ga_clone(e) == [e EXCEPT !.clone = FALSE, !.name = FALSE]

\* Mutant: an entry that was used is used again.
PortEntry_Overwrites(e, t) ==
  IF e.clone \/ e.socktype = t THEN <<SetPort(e, t)>> ELSE <<e>>

\* What becomes of one entry.
PortEntry(e, t) ==
  CASE e.clone /\ e.socktype # "any" -> <<e, SetPort(ga_clone(e), t)>>
    [] e.clone /\ e.socktype = "any" -> <<SetPort(e, t)>>
    [] ~e.clone -> IF e.socktype # t THEN <<e>> ELSE <<SetPort(e, t)>>

PortList(s, t) == FlattenSeq([i \in 1 .. Len(s) |-> PortEntry(s[i], t)])
Matches(s, t) == Len(SelectSeq(s, LAMBDA e : e.clone \/ e.socktype = t))

\* ga_port(), which may fail to clone entry i, before or after it is linked.
ga_port ==
  LET t == Head(passes)
      new == PortList(aihead, t)
  IN
  /\ gpc = "port" /\ passes # << >> /\ passes' = Tail(passes)
  /\ \/ /\ aihead' = new /\ live' = live + 2 * (Len(new) - Len(aihead))
        /\ nfound' = nfound + Matches(aihead, t) /\ UNCHANGED <<gpc, rc>>
     \/ \E i \in 1 .. Len(aihead) :
          LET before == PortList(SubSeq(aihead, 1, i - 1), t)
              half == [ga_clone(aihead[i]) EXCEPT !.addr = FALSE]
              blocks == live + 2 * (Len(before) - (i - 1))
              rest == SubSeq(aihead, i + 1, Len(aihead))
          IN /\ aihead[i].clone /\ aihead[i].socktype # "any"
             /\ \/ aihead' = before \o <<aihead[i]>> \o rest /\ live' = blocks
                \/ aihead' = before \o <<aihead[i], half>> \o rest /\ live' = blocks + 1
             /\ error("MEMORY") /\ UNCHANGED nfound
  /\ UNCHANGED <<ginput, res_inet6, failed, search, nsearch, haddrs, started, canon>>

ga_ported ==
  /\ gpc = "port" /\ passes = << >>
  /\ IF nfound = 0 THEN error(IF hints.socktype = "any" THEN "NONAME" ELSE "SERVICE")
     ELSE gpc' = "return" /\ UNCHANGED rc
  /\ UNCHANGED <<ginput, res_inet6, failed, search, nsearch, haddrs, aihead, started, canon, passes,
                 nfound, live>>

-----------------------------------------------------------------------------
(* Unix domain.                                                            *)

path == Addr("local", 0)

\* ga_unix(): a stream and a datagram entry; what it has is not freed when
\* something fails.
ga_unix ==
  /\ version = "libgai" /\ gpc = "unix"
  /\ LET types == IF hints.socktype = "any" THEN <<"stream", "dgram">> ELSE <<hints.socktype>>
         made(n) == [i \in 1 .. n |-> Entry(path, types[i])]
         all == Len(types)
     IN IF hints.family \notin {"unspec", "local"}
        THEN rc' = "ADDRFAMILY" /\ UNCHANGED <<aihead, live>>
        ELSE \/ rc' = "0" /\ live' = 2 * all + (IF Has("canonname") THEN 1 ELSE 0)
                /\ aihead' = [made(all) EXCEPT ![1].name = Has("canonname")]
             \/ rc' = "MEMORY" /\ live' \in 0 .. 2 * all - 1 /\ UNCHANGED aihead
             \/ rc' = "MEMORY" /\ Has("canonname") /\ live' = 2 * all /\ UNCHANGED aihead
  /\ gpc' = "return"
  /\ UNCHANGED <<ginput, res_inet6, failed, search, nsearch, haddrs, started, canon, passes, nfound>>

\* addrinfo_local(): returns NULL, which is 0, when the first calloc() fails.
addrinfo_local ==
  /\ version = "libfree" /\ gpc = "unix"
  /\ IF hints.socktype = "any" THEN rc' = "SOCKTYPE" /\ UNCHANGED <<aihead, live>>
     ELSE \/ rc' = "0" /\ live' = 2 /\ aihead' = <<Entry(path, hints.socktype)>>
          \/ rc' = "0" /\ UNCHANGED <<aihead, live>>
          \/ rc' = "MEMORY" /\ live' = 1 /\ UNCHANGED aihead
  /\ gpc' = "return"
  /\ UNCHANGED <<ginput, res_inet6, failed, search, nsearch, haddrs, started, canon, passes, nfound>>

-----------------------------------------------------------------------------
Blocks(s) ==
  FoldSeq(LAMBDA e, n : n + 1 + (IF e.addr THEN 1 ELSE 0) + (IF e.name THEN 1 ELSE 0), 0, s)

freeaddrinfo(s) == live' = live - Blocks(s)

\* bad: free what the list has; in libfree aihead may not have a value yet.
bad ==
  /\ gpc = "bad"
  /\ IF started THEN freeaddrinfo(aihead) /\ aihead' = << >> /\ gpc' = "return"
     ELSE gpc' = "undefined" /\ UNCHANGED <<live, aihead>>
  /\ UNCHANGED <<ginput, res_inet6, failed, search, nsearch, haddrs, started, canon, passes, nfound, rc>>

Done == gpc \in {"return", "quit", "undefined"} /\ UNCHANGED gvars

Next ==
  \/ ga_check \/ fr_check \/ ga_search \/ getaddrinfo_host \/ ga_addrs \/ ga_next \/ ga_canon
  \/ ga_service \/ ga_port \/ ga_ported \/ ga_unix \/ addrinfo_local \/ bad \/ Done

Spec == Init /\ [][Next]_gvars

-----------------------------------------------------------------------------
(* Properties.                                                             *)

\* What the call should return: for each address, IPv6 before IPv4, one entry
\* for each socket type that was asked for and has the service.  A family
\* whose lookup fails for now is left out.
Wanted(a) == hints.family \in {"unspec", a.fam} /\ a.fam \notin failed
HostAddrs ==
  LET all == CASE host \in {"v4", "v6"} -> <<Literal(host)>>
               [] host = "null" /\ Has("passive") -> <<Literal("0::0"), Literal("0.0.0.0")>>
               [] host = "null" /\ ~Has("passive") -> <<Literal("0::1"), localhost>>
               [] host = "name" -> IF hints.family = "inet6" /\ dns.aaaa = 0 THEN Mapped ELSE Inet6 \o Inet
               [] OTHER -> << >>
  IN SelectSeq(all, Wanted)
Types ==
  CASE serv = "null" -> <<hints.socktype>>
    [] serv = "port" -> IF hints.socktype = "any" THEN <<"stream", "dgram">> ELSE <<hints.socktype>>
    [] OTHER -> SelectSeq(<<"stream", "dgram">>,
                          LAMBDA t : Wants(t) /\ serv \in {"both", IF t = "stream" THEN "tcp" ELSE "udp"})
Expected ==
  FlattenSeq([i \in 1 .. Len(HostAddrs) |->
    [j \in 1 .. Len(Types) |-> <<HostAddrs[i], Types[j], IF serv = "null" THEN "0" ELSE Types[j]>>]])
Result ==
  [i \in 1 .. Len(aihead) |-> <<Addr(aihead[i].fam, aihead[i].k), aihead[i].socktype, aihead[i].port>>]

\* getaddrinfo() of libgai returns exactly the entries that its arguments ask
\* for, in order ("we need to return *four* addrinfo structures",
\* ga_port.c:12), and fails only if there are none or memory is short.
ResultExact ==
  version = "libgai" /\ gpc = "return" /\ ~(host = "local" /\ serv = "path") =>
    IF rc = "0" THEN Result = Expected ELSE rc = "MEMORY" \/ ga_echeck # "0" \/ Expected = << >>

\* For one family libfree never returns anything else, even after an earlier
\* call for IPv6 has left RES_USE_INET6 set (libfree/getaddrinfo.c:512), when
\* the resolver maps IPv4 addresses and a lookup for IPv4 can only fail.
FamilyExact ==
  (/\ version = "libfree" /\ gpc = "return" /\ rc = "0"
   /\ host \in {"v4", "v6", "name"} /\ serv # "path" /\ hints.family \in {"inet", "inet6"})
    => Result = Expected

\* "If we encounter an error we want to free() any dynamic memory that we've
\* allocated" (getaddrinfo.c:16): after an error nothing is left, and after
\* success just the list, but for three places: the canonical name is not
\* freed (getaddrinfo.c:165), nor what ga_unix() (ga_unix.c:27) and
\* addrinfo_local() (libfree/getaddrinfo.c:740) have when they fail.
HeapExactButFor ==
  gpc = "return" =>
    \/ live = Blocks(aihead) + (IF rc # "0" /\ canon THEN 1 ELSE 0)
    \/ rc = "MEMORY" /\ (host = "local" \/ serv = "path")
=============================================================================
