----------------------------- MODULE UsbKeyboard -----------------------------
(***************************************************************************)
(* The USB keyboard of the Raspberry Pi (platforms/raspi3b/input/input.c): *)
(* once per boot the driver enumerates a device on the root port, or one   *)
(* behind a hub, and looks for a HID keyboard in its configuration; then   *)
(* it polls the keyboard's interrupt endpoint for reports.  A transfer may *)
(* fail before or after the device acted on it.                            *)
(***************************************************************************)
EXTENDS Naturals, Sequences, FiniteSets, SequencesExt

CONSTANTS Usages,     \* the keys but the modifiers; F4 and caps are two of them
          Topologies, \* the devices: a sequence, the first on the root port
          ReportKeys, \* how many keys a report can name: 6
          UsbFaults,  \* what may fail
          MaxPresses  \* bound on the keys pressed

\* A configuration is a sequence of descriptors; "usable": interrupt, IN, 8 to
\* 64 bytes; "boot": an interface of a boot keyboard.
Interfaces == [type : {"interface"}, number : Nat, hid : BOOLEAN, boot : BOOLEAN]
Endpoints == [type : {"endpoint"}, number : Nat, usable : BOOLEAN]
UsbDevices == [is : {"device", "hub", "nothing"}, config : Seq(Interfaces \union Endpoints),
               live : BOOLEAN, address : Nat,
               at : {"off", "default", "addressed", "configured"}, boot : BOOLEAN]

\* Boot keyboards are HID devices, and hubs are not.
ASSUME UsbConstants ==
    /\ \A devices \in Topologies :
          /\ devices \in Seq(UsbDevices)
          /\ \A d \in DOMAIN devices :
                /\ ~devices[d].live
                /\ \A i \in DOMAIN devices[d].config :
                      LET c == devices[d].config[i] IN
                      c.type = "interface" => /\ c.boot => c.hid
                                              /\ devices[d].is = "hub" => ~c.hid
    /\ ReportKeys \in Nat \ {0} /\ MaxPresses \in Nat
    /\ UsbFaults \subseteq {"controller", "setup", "status", "descriptor", "port",
                            "enable", "poll", "ack"}

VARIABLES bus,       \* the devices: [is, config, live, address, at, boot]
          stage,     \* where usb_keyboard_initialize is; "ready" or "disabled"
          target,    \* the address that is being given out
          port,      \* the hub port that is being looked at
          endpoint,  \* [interface, endpoint]: what usb_find_hid_keyboard chose
          down, alt, \* the keys that are held; is Alt?
          news,      \* the device has a report to send
          toggles,   \* [host, device]: the data PID of either side
          previous,  \* usb_previous_report
          caps, closing, \* usb_caps_lock_enabled, usb_global_close_requested
          presses, handled, \* history: how often a key was pressed, was handled
          named,     \* history: the keys of the last report the device got across
          due,       \* history: the held keys no such report has told of yet
          untold, again, \* history: how often a press was over before a report
                     \* could tell of it; a key that was told came due once more
          abandoned  \* history: a port was given up after its reset

enumerationVars == <<bus, stage, target, port, endpoint, abandoned>>
userVars == <<down, alt, news, presses, due, untold>>
reportVars == <<toggles, previous, caps, closing, handled, named, again>>
usbVars == <<enumerationVars, userVars, reportVars>>

Breakdown(what) == what \in UsbFaults
Answering(a) == {d \in DOMAIN bus : bus[d].live /\ bus[d].address = a}
Fresh(d) == [bus EXCEPT ![d].live = TRUE, ![d].address = 0, ![d].at = "default"]

\* usb_control_request: every device at the address does what it is told, or
\* nobody does; success is only reported when the status stage is through.
ControlRequest(address, told, next) ==
    \/ /\ Answering(address) # {} /\ bus' = told
       /\ stage' = next \/ (Breakdown("status") /\ stage' = "disabled")
    \/ /\ Answering(address) = {} \/ Breakdown("setup")
       /\ stage' = "disabled" /\ UNCHANGED bus
Told(address, state) ==
    [d \in DOMAIN bus |->
        IF d \in Answering(address) THEN [bus[d] EXCEPT !.at = state] ELSE bus[d]]

-----------------------------------------------------------------------------
(* usb_find_hid_keyboard, on a configuration as a sequence of descriptors. *)

\* The first endpoint of a boot keyboard ends the search; else the first one of
\* any HID interface is taken.
FindHidKeyboard(config) ==
    LET Interface(i) == Max({j \in 1..i : config[j].type = "interface"})
        hid == {i \in DOMAIN config :
                  /\ config[i].type = "endpoint" /\ config[i].usable
                  /\ \E j \in 1..i : config[j].type = "interface"
                  /\ config[Interface(i)].hid}
        boot == {i \in hid : config[Interface(i)].boot}
        best == IF boot # {} THEN Min(boot) ELSE Min(hid)
    IN  IF hid = {} THEN {}
        ELSE {[interface |-> config[Interface(best)].number, endpoint |-> config[best].number]}

-----------------------------------------------------------------------------
CoreInitialize ==
    /\ stage = "core"
    /\ stage' = "root" \/ (Breakdown("controller") /\ stage' = "disabled")
    /\ UNCHANGED <<bus, target, port, endpoint, abandoned>>

\* dwc2_port_reset
RootPortReset ==
    /\ stage = "root"
    /\ \/ /\ bus # <<>> /\ bus' = Fresh(1)
          /\ stage' = "header" /\ target' = 1
       \/ /\ bus = <<>> \/ Breakdown("enable")
          /\ stage' = "disabled" /\ UNCHANGED <<bus, target>>
    /\ UNCHANGED <<port, endpoint, abandoned>>

\* usb_get_descriptor: too few bytes, or what they say is refused, is a failure.
GetDescriptor(address, next) ==
    \/ ControlRequest(address, bus, next)
    \/ Breakdown("descriptor") /\ stage' = "disabled" /\ UNCHANGED bus

\* usb_enumerate_default_address_device: the header and its packet size,
ReadHeader ==
    /\ stage = "header"
    /\ GetDescriptor(0, "address")
    /\ UNCHANGED <<target, port, endpoint, abandoned>>

\* the new address,
SetAddress ==
    LET addressed == [d \in DOMAIN bus |->
                        IF d \in Answering(0)
                        THEN [bus[d] EXCEPT !.address = target, !.at = "addressed"] ELSE bus[d]] IN
    /\ stage = "address"
    /\ ControlRequest(0, addressed, "device")
    /\ UNCHANGED <<target, port, endpoint, abandoned>>

\* and the device descriptor at it.
ReadDevice ==
    /\ stage = "device"
    /\ GetDescriptor(target, "config")
    /\ UNCHANGED <<target, port, endpoint, abandoned>>

\* usb_read_configuration, of a hub or of what may be a keyboard.
ReadConfiguration ==
    /\ stage = "config"
    /\ LET hub == target = 1 /\ \E d \in Answering(target) : bus[d].is = "hub"
           found == UNION {FindHidKeyboard(bus[d].config) : d \in Answering(target)}
       IN  \/ /\ hub /\ ControlRequest(target, bus, "configure hub")
              /\ UNCHANGED endpoint
           \/ /\ ~hub /\ found # {}
              /\ ControlRequest(target, bus, "configure")
              /\ endpoint' \in found
           \/ /\ (~hub /\ found = {}) \/ Breakdown("descriptor")
              /\ stage' = "disabled" /\ UNCHANGED <<bus, endpoint>>
    /\ UNCHANGED <<target, port, abandoned>>

ConfigureHub ==
    /\ stage = "configure hub"
    /\ ControlRequest(1, Told(1, "configured"), "hub descriptor")
    /\ UNCHANGED <<target, port, endpoint, abandoned>>

\* usb_hub_find_keyboard_port: the hub's descriptor, then port by port.
ReadHubDescriptor ==
    /\ stage = "hub descriptor"
    /\ \/ ControlRequest(1, bus, "port") /\ port' = 1
       \/ Breakdown("descriptor") /\ stage' = "disabled" /\ UNCHANGED <<bus, port>>
    /\ UNCHANGED <<target, endpoint, abandoned>>

NextPort ==
    /\ port' = port + 1
    /\ stage' = "port"

\* A port that cannot be asked, or has nothing connected, is skipped; else it
\* is reset, and its device answers at address 0.
ResetPort ==
    /\ stage = "port" /\ port + 1 \in DOMAIN bus
    /\ \/ /\ bus[port + 1].is # "nothing"
          /\ bus' = Fresh(port + 1) /\ stage' = "port status" /\ UNCHANGED port
       \/ /\ bus[port + 1].is = "nothing" \/ Breakdown("port")
          /\ NextPort /\ UNCHANGED bus
    /\ UNCHANGED <<target, endpoint, abandoned>>

\* Mutant: a port that was found does not end the loop.
PortStatusGoesOn ==
    /\ stage = "port status"
    /\ IF port + 2 \in DOMAIN bus THEN NextPort /\ UNCHANGED <<bus, target>>
       ELSE stage' = "header" /\ target' = 2 /\ UNCHANGED <<bus, port>>
    /\ UNCHANGED <<endpoint, abandoned>>

\* After the reset: the first port that is enabled ends the loop.
PortStatus ==
    /\ stage = "port status"
    /\ \/ /\ stage' = "header" /\ target' = 2 /\ UNCHANGED <<bus, port, abandoned>>
       \/ /\ Breakdown("port") /\ NextPort
          /\ abandoned' = TRUE /\ UNCHANGED <<bus, target>>
       \/ /\ Breakdown("enable") /\ NextPort
          /\ bus' = [bus EXCEPT ![port + 1].live = FALSE]
          /\ UNCHANGED <<target, abandoned>>
    /\ UNCHANGED endpoint

NoMorePorts ==
    /\ stage = "port" /\ port + 1 \notin DOMAIN bus
    /\ stage' = "disabled"
    /\ UNCHANGED <<bus, target, port, endpoint, abandoned>>

\* usb_configure_hid_keyboard: the configuration, the protocol, the idle rate.
Configure ==
    /\ stage = "configure"
    /\ ControlRequest(target, Told(target, "configured"), "protocol")
    /\ UNCHANGED <<target, port, endpoint, abandoned>>
SetProtocol ==
    LET booted == [d \in DOMAIN bus |->
                     IF d \in Answering(target) THEN [bus[d] EXCEPT !.boot = TRUE] ELSE bus[d]] IN
    /\ stage = "protocol"
    /\ ControlRequest(target, booted, "idle")
    /\ UNCHANGED <<target, port, endpoint, abandoned>>
SetIdle ==
    /\ stage = "idle"
    /\ ControlRequest(target, bus, "ready")
    /\ UNCHANGED <<target, port, endpoint, abandoned>>

-----------------------------------------------------------------------------
\* The user, once the keyboard is ready.  No report can tell of a press if the
\* last one still names its key, or if the key is up again before the next.
Total == FoldFunction(+, 0, presses)
OneMore(count, keys) == [u \in Usages |-> count[u] + (IF u \in keys THEN 1 ELSE 0)]
HoldKey(u) ==
    /\ stage = "ready" /\ u \notin down /\ Total < MaxPresses
    /\ down' = down \union {u} /\ news' = TRUE
    /\ presses' = OneMore(presses, {u})
    /\ due' = due \union ({u} \ named)
    /\ untold' = OneMore(untold, {u} \intersect named)
    /\ UNCHANGED <<alt, enumerationVars, reportVars>>
ReleaseKey(u) ==
    /\ stage = "ready" /\ u \in down
    /\ down' = down \ {u} /\ news' = TRUE
    /\ due' = due \ {u}
    /\ untold' = OneMore(untold, {u} \intersect due)
    /\ UNCHANGED <<alt, presses, enumerationVars, reportVars>>
ChangeAlt ==
    /\ stage = "ready" /\ alt' = ~alt /\ news' = TRUE
    /\ UNCHANGED <<down, presses, due, untold, enumerationVars, reportVars>>

\* The device's report: with too many keys held it names none of them.
TooMany == Cardinality(down) > ReportKeys
Report == IF TooMany THEN {} ELSE down
Other(pid) == 1 - pid

\* usb_process_hid_report: the keys that the previous report did not name.
ProcessReport ==
    LET new == Report \ previous IN
    /\ previous' = Report
    /\ caps' = IF "caps" \in new THEN ~caps ELSE caps
    /\ closing' = (closing \/ (alt /\ "f4" \in new))
    /\ handled' = OneMore(handled, new)

\* A report that gets across tells of the keys it names; one that names none
\* since too many are held makes those due again that it should have named.
Tell ==
    LET hidden == IF TooMany THEN down \intersect named ELSE {} IN
    /\ named' = Report
    /\ due' = (due \ Report) \union hidden
    /\ again' = OneMore(again, hidden)

\* usb_keyboard_update, when a poll is due: a report arrives; if the device does
\* not see that it has, it sends it again, and the toggles no longer agree.
Poll ==
    /\ stage = "ready" /\ news
    /\ IF toggles.host = toggles.device
       THEN /\ ProcessReport /\ Tell
            /\ \/ toggles' = [host |-> Other(toggles.host), device |-> Other(toggles.device)]
                  /\ news' = FALSE
               \/ /\ Breakdown("ack")
                  /\ toggles' = [toggles EXCEPT !.host = Other(@)]
                  /\ news' = TRUE
            /\ UNCHANGED stage
       ELSE /\ stage' = "disabled"
            /\ UNCHANGED <<news, due, reportVars>>
    /\ UNCHANGED <<bus, target, port, endpoint, abandoned, down, alt, presses, untold>>

\* Nothing to report is a NAK; any other answer disables the keyboard.
PollFails ==
    /\ stage = "ready" /\ Breakdown("poll")
    /\ stage' = "disabled"
    /\ UNCHANGED <<bus, target, port, endpoint, abandoned, userVars, reportVars>>

TakeCloseRequest ==
    /\ closing /\ closing' = FALSE
    /\ UNCHANGED <<enumerationVars, userVars, toggles, previous, caps, handled, named, again>>

-----------------------------------------------------------------------------
UsbInit ==
    /\ bus \in Topologies
    /\ stage = "core" /\ target = 0 /\ port = 0
    /\ endpoint = [interface |-> 0, endpoint |-> 0] /\ abandoned = FALSE
    /\ down = {} /\ alt = FALSE /\ news = FALSE
    /\ toggles = [host |-> 0, device |-> 0] /\ previous = {}
    /\ caps = FALSE /\ closing = FALSE
    /\ presses = [u \in Usages |-> 0] /\ handled = [u \in Usages |-> 0]
    /\ untold = [u \in Usages |-> 0] /\ again = [u \in Usages |-> 0]
    /\ named = {} /\ due = {}

Enumerate ==
    \/ CoreInitialize \/ RootPortReset \/ ReadHeader \/ SetAddress \/ ReadDevice
    \/ ReadConfiguration \/ ConfigureHub \/ ReadHubDescriptor \/ ResetPort
    \/ PortStatus \/ NoMorePorts \/ Configure \/ SetProtocol \/ SetIdle

UsbNext ==
    \/ Enumerate /\ UNCHANGED <<userVars, reportVars>>
    \/ \E u \in Usages : HoldKey(u) \/ ReleaseKey(u)
    \/ ChangeAlt \/ Poll \/ PollFails \/ TakeCloseRequest

UsbSpec == UsbInit /\ [][UsbNext]_usbVars

-----------------------------------------------------------------------------
\* When no port was given up after its reset: once the driver reports a
\* keyboard, one device alone answers at the address it polls, and that device
\* is configured, speaks the boot protocol and has the endpoint that is polled;
\* a boot keyboard is preferred to other HID devices.  A port that was given up
\* leaves its device at address 0 beside the next one, and the two may be given
\* one address: of that case nothing is said (usb_hub_find_keyboard_port).
UsbReadyTrue ==
    stage = "ready" /\ ~abandoned =>
        \E d \in DOMAIN bus :
            /\ Answering(target) = {d}
            /\ bus[d].at = "configured" /\ bus[d].boot /\ bus[d].is # "hub"
            /\ \E i, j \in DOMAIN bus[d].config :
                 LET c == bus[d].config IN
                 /\ i < j /\ c[i].type = "interface" /\ c[i].number = endpoint.interface
                 /\ \A k \in (i + 1)..j : c[k].type = "endpoint"
                 /\ c[i].hid /\ c[j].usable /\ c[j].number = endpoint.endpoint
                 /\ ~c[i].boot => \A k, l \in DOMAIN c :
                      ~(/\ c[k].type = "interface" /\ c[k].boot /\ l > k
                        /\ \A m \in (k + 1)..l : c[m].type = "endpoint"
                        /\ c[l].usable)

\* While the driver polls, every press is handled once or is one of these: it
\* is still due; its key went up before a report was sent; or its key had gone
\* up and down again between two reports, which then tell of one long press.
\* After too many keys were held at once those still held are handled once
\* more.  And a report that is acknowledged leaves nothing due
\* (usb_process_hid_report).
UsbKeysOnce ==
    /\ \A u \in Usages :
          handled[u] + untold[u] + (IF u \in due THEN 1 ELSE 0) = presses[u] + again[u]
    /\ ~news /\ ~TooMany => due = {}

\* The keyboard that is polled is there, unless a port was given up, and its
\* keys come once.
UsbTrue == UsbReadyTrue /\ UsbKeysOnce
=============================================================================
