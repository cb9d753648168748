------------------------------ MODULE QueryName ------------------------------
(***************************************************************************)
(* The names of the queries that carry something: those of one VayDNS      *)
(* connection (src/go/tunnel/dns_tunnel.go) and the one that verifies a    *)
(* Prism server (scanner_api.go).  sendChunk writes a header and a payload *)
(* in base32, splits the text into labels and puts ".d." and the domain    *)
(* behind it; poll does the same with a header alone and ".r.".            *)
(* VerifyPrismServer puts eight digits of its nonce before the domain.     *)
(* Texts are modelled by their lengths.  A domain is one the user could    *)
(* register: its own labels are in order, and its final dot is trimmed.    *)
(***************************************************************************)
EXTENDS Naturals

CONSTANTS
  Domains,   \* lengths of the domain
  Targets    \* lengths of "host:port" of the connection's target

ASSUME QueryNameAssumption == Domains \subseteq 1 .. 253 /\ Targets \subseteq 2 .. 261

maxChunk == 120      \* what one local.Read returns at most
MaxLabel == 63
MaxQName == 253      \* of a name without its final dot
MaxName  == 255      \* what dnsmessage.NewName takes

VARIABLES
  domain,    \* length of the domain
  upload,    \* "new", "open", "ended"
  op,        \* "syn", "data", "poll", "prism": the query being built
  payload,   \* its bytes behind the header
  rest,      \* characters splitLabels has not put in a label
  full,      \* labels of 63 characters
  last,      \* characters of the last label, 0 while there is none
  step       \* "idle", "split", "name", "sent", "refused"

nameVars == <<domain, upload, op, payload, rest, full, last, step>>

NameInit ==
  /\ domain \in Domains
  /\ upload = "new" /\ op = "syn" /\ payload = 0
  /\ rest = 0 /\ full = 0 /\ last = 0 /\ step = "idle"

\* Mutant of Base32: the encoding pads to whole groups of eight characters.
Base32Padded(n) == 8 * ((n + 4) \div 5)

(* b32.EncodeToString, without padding, of n bytes: five bits a character. *)
Base32(n) == (8 * n + 4) \div 5

(* The header: session id, sequence number and the flag of the SYN. *)
sendChunk(what, n) ==
  /\ op' = what /\ payload' = n
  /\ rest' = Base32(9 + n) /\ full' = 0 /\ last' = 0
  /\ step' = "split"
  /\ UNCHANGED <<domain, upload>>

SynChunk(n) == step = "idle" /\ upload = "new" /\ sendChunk("syn", n)
DataChunk(n) == step = "idle" /\ upload = "open" /\ n \in 1 .. maxChunk /\ sendChunk("data", n)

(* The header of a poll has no flag, and its 13 characters are one label. *)
poll ==
  /\ step = "idle" /\ upload # "new"
  /\ op' = "poll" /\ payload' = 0
  /\ rest' = 0 /\ full' = 0 /\ last' = Base32(8)
  /\ step' = "name"
  /\ UNCHANGED <<domain, upload>>

(* "_prism-" and eight digits, at any time. *)
VerifyPrismServer ==
  /\ step = "idle"
  /\ op' = "prism" /\ payload' = 0
  /\ rest' = 0 /\ full' = 0 /\ last' = 7 + 8
  /\ step' = "name"
  /\ UNCHANGED <<domain, upload>>

(* splitLabels: labels of 63 characters while there are more than 63 ...   *)
SplitLabel ==
  /\ step = "split" /\ rest > MaxLabel
  /\ rest' = rest - MaxLabel /\ full' = full + 1
  /\ UNCHANGED <<domain, upload, op, payload, last, step>>

(* ... and then the rest. *)
LastLabel ==
  /\ step = "split" /\ rest <= MaxLabel
  /\ last' = rest /\ rest' = 0
  /\ step' = "name"
  /\ UNCHANGED <<domain, upload, op, payload, full>>

Labels == full + (IF last > 0 THEN 1 ELSE 0)
Separator == IF op = "prism" THEN 1 ELSE 3
(* The labels, a dot between each two, ".d.", ".r." or ".", and the domain. *)
QName == (MaxLabel * full + last) + (Labels - 1) + Separator + domain

(* buildQuery: NewName counts the final dot; Name.pack takes labels of up  *)
(* to 63 characters.  A SYN or a chunk that cannot be sent ends the upload.*)
buildQuery ==
  /\ step = "name"
  /\ IF QName + 1 <= MaxName /\ last <= MaxLabel
        THEN /\ step' = "sent"
             /\ upload' = IF op = "syn" THEN "open" ELSE upload
        ELSE /\ step' = "refused"
             /\ upload' = IF op \in {"syn", "data"} THEN "ended" ELSE upload
  /\ UNCHANGED <<domain, op, payload, rest, full, last>>

(* queryDNS has returned. *)
Return ==
  /\ step \in {"sent", "refused"}
  /\ op' = "syn" /\ payload' = 0 /\ full' = 0 /\ last' = 0 /\ step' = "idle"
  /\ UNCHANGED <<domain, upload, rest>>

NameNext ==
  \/ \E n \in Targets : SynChunk(n)
  \/ \E n \in 1 .. maxChunk : DataChunk(n)
  \/ poll \/ VerifyPrismServer \/ SplitLabel \/ LastLabel \/ buildQuery \/ Return

NameSpec == NameInit /\ [][NameNext]_nameVars

-----------------------------------------------------------------------------
(* The characters of a name of k encoded characters, by the definition of  *)
(* a label and not by the loop: one dot behind each full or partial label. *)
NameOf(k) == k + ((k + MaxLabel - 1) \div MaxLabel) + (Separator - 1) + domain

Encoded == CASE op = "prism" -> 15
             [] op = "poll"  -> Base32(8)
             [] OTHER        -> Base32(9 + payload)

(* maxChunk leaves room for a domain of 40 characters, as the comment at   *)
(* dns_tunnel.go:56 wants it: no chunk of such a connection is refused and *)
(* no name is longer than 253.  With longer domains the refused payloads   *)
(* are exactly those whose name does not fit, so that a small write passes *)
(* and a full one ends the upload; only names of 254 characters are sent   *)
(* although DNS has no room for them.                                      *)
NamesFit ==
  /\ step \in {"sent", "refused"} =>
       /\ QName = NameOf(Encoded)
       /\ step = "refused" <=> NameOf(Encoded) > MaxQName + 1
  /\ domain <= 40 /\ op # "syn" /\ step = "sent" => QName <= MaxQName
  /\ domain <= 40 /\ op # "syn" => step # "refused"

(* What the loop of splitLabels keeps: the characters in labels and the    *)
(* rest are the encoded text, the rest is never empty while it splits, and *)
(* the last label has 1 to 63 characters.  Proofs rest on it.              *)
NameInv ==
  /\ domain \in Domains /\ upload \in {"new", "open", "ended"}
  /\ op \in {"syn", "data", "poll", "prism"}
  /\ step \in {"idle", "split", "name", "sent", "refused"}
  /\ payload \in Nat /\ rest \in Nat /\ full \in Nat /\ last \in Nat
  /\ op = "data" => payload <= maxChunk
  /\ op = "syn" /\ step # "idle" => payload \in Targets
  /\ step = "split" => /\ op \in {"syn", "data"} /\ rest > 0 /\ last = 0
                       /\ MaxLabel * full + rest = Base32(9 + payload)
  /\ step \in {"name", "sent", "refused"} =>
       /\ last \in 1 .. MaxLabel
       /\ MaxLabel * full + last = Encoded
  /\ step = "sent" => QName + 1 <= MaxName
  /\ step = "refused" => QName + 1 > MaxName
=============================================================================
