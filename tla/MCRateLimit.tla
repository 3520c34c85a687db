---------------------------- MODULE MCRateLimit ------------------------------
(***************************************************************************)
(* Instances of RateLimit for TLC: callers from outside, one proxy.        *)
(***************************************************************************)
EXTENDS RateLimit, TLC

CONSTANTS near, far, proxy,          \* addresses
          nearText, mappedText, farText, proxyText, badText

MCAddresses == {near, far, proxy}
MCSpellings == {nearText, mappedText, farText, proxyText, badText}

\* mappedText is the IPv4-mapped form of nearText.
MCNormalizeIp ==
  [t \in MCSpellings |->
     CASE t \in {nearText, mappedText} -> near
       [] t = farText   -> far
       [] t = proxyText -> proxy
       [] t = badText   -> Malformed]

\* No header, one that names somebody else, one that names a proxy, one that
\* cannot be read.
MCHeaders == {<<>>, <<farText>>, <<farText, proxyText>>, <<badText>>}

\* Directly, or through one or two proxies.
MCPaths == {<<>>, <<proxyText>>, <<proxyText, proxyText>>}

Symmetry == Permutations(Requests)
=============================================================================
