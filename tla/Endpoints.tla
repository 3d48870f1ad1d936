-------------------------------- MODULE Endpoints --------------------------------
(***************************************************************************)
(* The endpoints of the API, by handler, and what each router asks of the  *)
(* access token before the handler runs: one atomic permission             *)
(* (shared/rbac.py).  What a handler then does is in the modules of the    *)
(* services; request and response bodies are left out.                     *)
(***************************************************************************)

\* modules/people
LandlordEndpoints ==
    [create_landlord |-> "landlord:manage",
     list_landlords  |-> "landlord:read",
     get_landlord    |-> "landlord:read",
     update_landlord |-> "landlord:manage",
     delete_landlord |-> "landlord:manage",
     get_landlord_settlements |-> "settlement:read"]

\* The one permission asked for by a field of a request: commission_pct of
\* update_landlord.
FieldPermissions == [update_landlord_commission_pct |-> "landlord:set-commission"]

RenterEndpoints ==
    [create_renter   |-> "renter:manage",
     list_renters    |-> "renter:read",
     get_renter      |-> "renter:read",
     get_renter_debt |-> "renter:read",
     update_renter   |-> "renter:manage",
     delete_renter   |-> "renter:manage"]

\* modules/properties
PropertyEndpoints ==
    [create_property |-> "property:manage",
     list_properties |-> "property:read",
     get_property    |-> "property:read",
     update_property |-> "property:manage",
     delete_property |-> "property:manage"]

ServiceAccountEndpoints ==
    [list_service_accounts  |-> "property:read",
     create_service_account |-> "property:manage",
     update_service_account |-> "property:manage",
     delete_service_account |-> "property:manage"]

NeighborhoodEndpoints ==
    [list_neighborhoods  |-> "property:read",
     create_neighborhood |-> "property:manage",
     update_neighborhood |-> "property:manage",
     delete_neighborhood |-> "property:manage"]

\* modules/contracts.  Terminating and deleting have permissions of their own.
ContractEndpoints ==
    [create_contract    |-> "contract:manage",
     list_contracts     |-> "contract:read",
     get_contract       |-> "contract:read",
     update_contract    |-> "contract:manage",
     activate_contract  |-> "contract:manage",
     terminate_contract |-> "contract:terminate",
     delete_contract    |-> "contract:delete"]

AdjustmentEndpoints ==
    [list_contract_adjustments |-> "contract:read",
     issue_contract_debt_certificate |-> "contract:read",
     list_pending_adjustments  |-> "contract:read",
     apply_adjustment          |-> "adjustment:apply"]

\* modules/payments
RentPeriodEndpoints ==
    [preview_interest  |-> "rent-period:read",
     register_payment  |-> "payment:create",
     list_rent_periods |-> "rent-period:read",
     get_rent_period   |-> "rent-period:read"]

PaymentEndpoints ==
    [void_payment        |-> "payment:void",
     get_payment_receipt |-> "rent-period:read",
     list_debt           |-> "rent-period:read"]

\* modules/charges: one permission for all of it, reading included.
ChargeEndpoints ==
    [e \in {"list_recurring_charges", "create_recurring_charge", "update_recurring_charge",
            "create_charge_entry", "correct_charge_entry",
            "list_charge_entries_verification"} |-> "charge:manage"]

\* modules/settlements
SettlementEndpoints ==
    [list_settlements    |-> "settlement:read",
     generate_settlement |-> "settlement:generate",
     get_settlement      |-> "settlement:read"]

IssueEndpoints ==
    [issue_settlement      |-> "settlement:issue",
     regenerate_settlement |-> "settlement:generate",
     export_settlement     |-> "settlement:read"]

\* modules/maintenance
WorkOrderEndpoints ==
    [create_work_order |-> "work-order:create",
     list_work_orders  |-> "work-order:read",
     get_work_order    |-> "work-order:read",
     close_work_order  |-> "work-order:close",
     cancel_work_order |-> "work-order:cancel",
     upload_work_order_attachment |-> "attachment:manage"]

QuoteEndpoints ==
    [add_quote     |-> "work-order:quote",
     approve_quote |-> "work-order:approve",
     upload_quote_attachment |-> "attachment:manage",
     download_attachment     |-> "attachment:manage",
     get_property_work_order_history |-> "property:read"]

\* modules/notifications: a user's own.
NotificationEndpoints ==
    [e \in {"list_notifications", "mark_notification_read", "mark_all_notifications_read"}
        |-> "notification:read"]

\* modules/administracion
UserEndpoints ==
    [e \in {"invite_user", "list_invitations", "resend_invitation", "revoke_invitation",
            "list_users", "change_user_role", "deactivate_user"} |-> "user:manage"]

OrganizationEndpoints ==
    [list_roles |-> "role:read",
     get_organization_settings    |-> "organization:configure",
     update_organization_settings |-> "organization:configure",
     list_audit_logs |-> "audit:read",
     get_audit_log   |-> "audit:read"]

\* What main.py mounts for the members of an organization.
Routers ==
    {LandlordEndpoints, FieldPermissions, RenterEndpoints, PropertyEndpoints,
     ServiceAccountEndpoints, NeighborhoodEndpoints, ContractEndpoints, AdjustmentEndpoints,
     RentPeriodEndpoints, PaymentEndpoints, ChargeEndpoints, SettlementEndpoints,
     IssueEndpoints, WorkOrderEndpoints, QuoteEndpoints, NotificationEndpoints,
     UserEndpoints, OrganizationEndpoints}

TenantEndpoints == UNION {DOMAIN router : router \in Routers}

\* requires_permission: the permission is among those of the token.
Reachable(router, permissions) == {e \in DOMAIN router : router[e] \in permissions}

Callable(permissions) == UNION {Reachable(router, permissions) : router \in Routers}

=============================================================================
