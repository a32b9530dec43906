------------------------------ MODULE Firewall -------------------------------
(***************************************************************************)
(* The firewall panel of the bot: the input chain of nftables, in which    *)
(* the bot opens and closes ports, and from which certbot's hooks and      *)
(* every reload of nftables.conf take its rules again; and the notes of    *)
(* the ports.                                                              *)
(*                                                                         *)
(* A rule has the set of ports it accepts, empty if it is about something  *)
(* else, and is plain if nothing comes before "dport" in its text. Handles *)
(* count from the last reload, as nft counts them in a table. The bot adds *)
(* and annotates on its main thread; it closes in jobs of the pool. nft is *)
(* taken to answer in time.                                                *)
(***************************************************************************)
EXTENDS Naturals, Sequences, FiniteSets, SequencesExt

CONSTANTS
  Openable,   \* keys of ports an admin opens, closes and annotates
  SSHPort,    \* 22/tcp
  HttpPort,   \* 80/tcp
  Shipped,    \* the rules of nftables.conf in order, with [ports, plain]
  Closers,    \* jobs of the pool
  NoPort,
  MaxAsked    \* bound: presses, texts and hooks

ShippedPorts == UNION {Shipped[i].ports : i \in DOMAIN Shipped}

ASSUME FirewallAssumption ==
  /\ NoPort \notin Openable
  /\ Shipped \in Seq([ports : SUBSET ShippedPorts, plain : BOOLEAN])
  /\ Shipped # <<>> /\ Shipped[1].ports = {}
  /\ MaxAsked \in Nat

VARIABLES
  chain,    \* the rules in order, with [handle, ports, plain, bot]
  handles,  \* the last handle given
  notes,    \* ports that have a note in PORT_NOTES_FILE
  adding,   \* the port op_firewall_add_port found closed, and whether a note came with it
  closer,   \* closer[c]: the port to close and the handle found for it, 0 for none yet
  aside,    \* jobs whose handle is from before a reload
  presses   \* presses, texts and hooks so far

firewallVars == <<chain, handles, notes, adding, closer, aside, presses>>

Rule(handle, ports, plain, bot) == [handle |-> handle, ports |-> ports, plain |-> plain, bot |-> bot]
Boot == [i \in DOMAIN Shipped |-> Rule(i, Shipped[i].ports, Shipped[i].plain, FALSE)]
NotAdding == [port |-> NoPort, note |-> FALSE]
NotClosing == [port |-> NoPort, handle |-> 0]
Ported == Openable \cup {HttpPort} \cup ShippedPorts
Rules == [handle : Nat \ {0}, ports : SUBSET Ported, plain : BOOLEAN, bot : BOOLEAN]

FirewallTypeOK ==
  /\ chain \in Seq(Rules)
  /\ \A i \in DOMAIN chain : chain[i].handle <= handles
  /\ \A i, j \in DOMAIN chain : chain[i].handle = chain[j].handle => i = j
  /\ handles \in Nat
  /\ notes \subseteq Openable
  /\ adding \in [port : Openable \cup {NoPort}, note : BOOLEAN]
  /\ closer \in [Closers -> [port : Openable \cup {NoPort}, handle : Nat]]
  /\ aside \subseteq Closers
  /\ presses \in 0..MaxAsked

FirewallInit ==
  /\ chain = Boot
  /\ handles = Len(Shipped)
  /\ notes = {}
  /\ adding = NotAdding
  /\ closer = [c \in Closers |-> NotClosing]
  /\ aside = {}
  /\ presses = 0

Asked == presses < MaxAsked /\ presses' = presses + 1

-----------------------------------------------------------------------------
(* _parse_nft_open_ports *)

\* The loop over the rules of the JSON listing reads the ports of the rule
\* before where a rule has none: where there is no rule before, it raises an
\* error. What a rule without ports repeats of the one before it has no
\* protocol, and so is the port of no button.
JsonReads == chain # <<>> /\ chain[1].ports # {}

\* What a bug would do: keep to the JSON listing.
ShowsJson(r) == JsonReads

\* The text listing stands in; it has plain rules only, and no handles.
Shows(r) == JsonReads \/ r.plain

HasPort(port) == \E i \in DOMAIN chain : Shows(chain[i]) /\ port \in chain[i].ports
FirstWith(i, port) == port \in chain[i].ports /\ \A j \in 1..i - 1 : port \notin chain[j].ports

-----------------------------------------------------------------------------
(* The bot. *)

\* op_firewall_add_port: a port that is open already is not opened again.
AddChecks(port, note) ==
  /\ adding = NotAdding /\ Asked
  /\ adding' = IF HasPort(port) THEN NotAdding ELSE [port |-> port, note |-> note]
  /\ UNCHANGED <<chain, handles, notes, closer, aside>>

AddRule ==
  /\ adding # NotAdding
  /\ handles' = handles + 1
  /\ chain' = Append(chain, Rule(handles', {adding.port}, TRUE, TRUE))
  /\ notes' = IF adding.note THEN notes \cup {adding.port} ELSE notes
  /\ adding' = NotAdding
  /\ UNCHANGED <<closer, aside, presses>>

AddRuleFails ==
  /\ adding # NotAdding
  /\ adding' = NotAdding
  /\ UNCHANGED <<chain, handles, notes, closer, aside, presses>>

\* op_firewall_set_note: a text, or blanks to take the note away.
SetNote(port, text) ==
  /\ adding = NotAdding /\ Asked
  /\ notes' = IF ~ HasPort(port) THEN notes
              ELSE IF text THEN notes \cup {port} ELSE notes \ {port}
  /\ UNCHANGED <<chain, handles, adding, closer, aside>>

\* A button of firewall_del_menu, for any port but 22/tcp.
PressClose(c, port) ==
  /\ closer[c] = NotClosing /\ port # SSHPort /\ Asked
  /\ closer' = [closer EXCEPT ![c].port = port]
  /\ aside' = aside \ {c}
  /\ UNCHANGED <<chain, handles, notes, adding>>

\* op_firewall_del_port_key: the handle of the first rule with the port. No
\* rule, or no handle: the answer says so.
FindHandle(c) ==
  /\ closer[c].port # NoPort /\ closer[c].handle = 0
  /\ \/ /\ JsonReads
        /\ \E i \in DOMAIN chain : /\ FirstWith(i, closer[c].port)
                                   /\ closer' = [closer EXCEPT ![c].handle = chain[i].handle]
     \/ /\ ~ (JsonReads /\ HasPort(closer[c].port))
        /\ closer' = [closer EXCEPT ![c] = NotClosing]
  /\ aside' = aside \ {c}
  /\ UNCHANGED <<chain, handles, notes, adding, presses>>

\* What a bug would do: take the handle for a place in the chain.
DeleteRuleAt(c) ==
  /\ closer[c].handle # 0
  /\ chain' = IF closer[c].handle \in DOMAIN chain THEN RemoveAt(chain, closer[c].handle) ELSE chain
  /\ closer' = [closer EXCEPT ![c] = NotClosing]
  /\ UNCHANGED <<handles, notes, adding, aside, presses>>

\* Every port of the rule goes with it; nft refuses a handle no rule has.
DeleteRule(c) ==
  /\ closer[c].handle # 0
  /\ \/ \E i \in DOMAIN chain : chain[i].handle = closer[c].handle /\ chain' = RemoveAt(chain, i)
     \/ (\A i \in DOMAIN chain : chain[i].handle # closer[c].handle) /\ chain' = chain
  /\ closer' = [closer EXCEPT ![c] = NotClosing]
  /\ UNCHANGED <<handles, notes, adding, aside, presses>>

-----------------------------------------------------------------------------
(* What is around it. *)

\* The hook before a renewal: nft insert, not add.
CertOpens ==
  /\ Asked
  /\ handles' = handles + 1
  /\ chain' = <<Rule(handles', {HttpPort}, TRUE, FALSE)>> \o chain
  /\ UNCHANGED <<notes, adding, closer, aside>>

\* The hook after it, setup_firewall, a boot: nftables.conf as it is.
ReloadChain ==
  /\ Asked
  /\ chain' = Boot
  /\ handles' = Len(Shipped)
  /\ aside' = Closers
  /\ UNCHANGED <<notes, adding, closer>>

FirewallNext ==
  \/ \E port \in Openable :
       \/ \E note \in BOOLEAN : AddChecks(port, note) \/ SetNote(port, note)
       \/ \E c \in Closers : PressClose(c, port)
  \/ AddRule \/ AddRuleFails
  \/ \E c \in Closers : FindHandle(c) \/ DeleteRule(c)
  \/ CertOpens \/ ReloadChain

FirewallSpec == FirewallInit /\ [][FirewallNext]_firewallVars

-----------------------------------------------------------------------------
(* Properties. *)

\* The bot never has two rules of its own for one port, which one press of
\* "close" would not close, in whatever state renewals, reloads and closed
\* ports leave the chain between the check and the addition.
AddedOnce ==
  \A i, j \in DOMAIN chain :
    chain[i].bot /\ chain[j].bot /\ chain[i].ports = chain[j].ports => i = j

\* What a job deletes is one rule that accepts the port that was pressed,
\* whatever was opened, closed or inserted since it looked up the handle;
\* only a reload gives the handle to another rule.
ClosesRuleOfPort ==
  [][\A c \in Closers : closer[c].handle # 0 /\ closer'[c].handle = 0 /\ c \notin aside /\ chain' # chain =>
       \E i \in DOMAIN chain : closer[c].port \in chain[i].ports /\ chain' = RemoveAt(chain, i)]_firewallVars

\* Closing ports with the buttons leaves SSH open: 22/tcp cannot be closed.
SshStaysOpen == \E i \in DOMAIN chain : SSHPort \in chain[i].ports
=============================================================================
