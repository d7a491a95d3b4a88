------------------------------- MODULE MrKeys -------------------------------
(***************************************************************************)
(* The keys under which a streaming endpoint registers memory with         *)
(* libfabric.  All endpoints of a listener share one domain, in which a    *)
(* key may be used once; an endpoint's offset, given by nn_bofi_new_sofi_- *)
(* offset, selects its page of keys.                                       *)
(***************************************************************************)
EXTENDS Integers

CONSTANTS
    tx_queue, rx_queue,     \* lengths of the queues (sofi.c:1055-1066)
    offset_slots            \* entries the table of offsets has, and grows by (64)

ASSUME SlotsPositive == offset_slots \in Nat \ {0}

NN_SOFI_MRM_AUX_KEY       == 0
NN_SOFI_MRM_SEND_KEY      == 1
NN_SOFI_MRM_RECV_KEY      == 2048
NN_SOFI_MRM_KEY_PAGE_SIZE == 4096

(* The queues for which an endpoint's keys fit its page.  ofi.c accepts     *)
(* queues of any length, and no code checks this.                           *)
ASSUME QueuesFitPage ==
    /\ tx_queue \in Nat /\ rx_queue \in Nat
    /\ NN_SOFI_MRM_SEND_KEY + 2 * tx_queue < NN_SOFI_MRM_RECV_KEY
    /\ NN_SOFI_MRM_RECV_KEY + rx_queue <= NN_SOFI_MRM_KEY_PAGE_SIZE

Page(offset) == NN_SOFI_MRM_KEY_PAGE_SIZE * offset

(* The keepalive packet; the slab and the 2 * tx_queue banks of the memory- *)
(* region manager, bank i under base_key + i + 1; and the receive buffers.  *)
AuxKeys(offset) == {Page(offset) + NN_SOFI_MRM_AUX_KEY}

SendKeys(offset) ==
    Page(offset) + NN_SOFI_MRM_SEND_KEY .. Page(offset) + NN_SOFI_MRM_SEND_KEY + 2 * tx_queue

RecvKeys(offset) ==
    Page(offset) + NN_SOFI_MRM_RECV_KEY .. Page(offset) + NN_SOFI_MRM_RECV_KEY + rx_queue - 1

Keys(offset) == AuxKeys(offset) \cup SendKeys(offset) \cup RecvKeys(offset)
=============================================================================
