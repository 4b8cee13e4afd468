-------------------------------- MODULE Bus --------------------------------
(***************************************************************************)
(* The bus of top_fpga.vhd.  In each cycle the instruction in MEM puts an  *)
(* address and a write enable on it, whether it accesses memory or not:    *)
(* whatever is not a write is a read.  Of an address the decoder looks at  *)
(* bits 31..28 (region) and 15..12 (device), and a peripheral at the bits  *)
(* from 2 up that number its registers (reg).                              *)
(***************************************************************************)
EXTENDS Naturals, Sequences

Address(region, device, reg) == [region |-> region, device |-> device, reg |-> reg]

Devices == <<"uart", "led", "cycle", "base_mul", "gf_accel", "trng">>

Selected(address) ==
    IF address.region # 8 THEN "bram"
    ELSE IF address.device < Len(Devices) THEN Devices[address.device + 1] ELSE "none"

Read(address)         == [address |-> address, we |-> FALSE, wdata |-> 0]
Write(address, wdata) == [address |-> address, we |-> TRUE, wdata |-> wdata]

\* A peripheral's sel together with its we or re, and its register.
Writes(access, device, reg) ==
    Selected(access.address) = device /\ access.we /\ access.address.reg = reg
Reads(access, device, reg) ==
    Selected(access.address) = device /\ ~access.we /\ access.address.reg = reg

=============================================================================
