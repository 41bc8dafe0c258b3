SPECIFICATION ModelsSpec
CONSTANTS p=p q=q k1=k1 m1=m1 m2=m2 sql=sql t1=t1 t2=t2 u=u
 Admins={a1,a2}
 Providers={p,q}
 Keys={k1}
 Models={m1,m2}
 Roles={sql}
 None=None
 Codecs={TRUE,FALSE}
 ProviderOf <- Owner
 RoleOf <- Role
 Calls={c1,c2}
 Targets={t1,t2,u}
 Unusable={u}
 Chains <- Configs
 MaxRetries=2
 Threshold=3
INVARIANTS CallsTypeOK OpenSheds ErrorMeansAllTried
PROPERTIES QuietSwitchAgrees UnreadModelsKept CallReturns Recovers
CHECK_DEADLOCK FALSE
